----------------------------- MODULE MCConsole ------------------------------
(***************************************************************************)
(* A small screen, and three CPUs that write to a port.                    *)
(***************************************************************************)
EXTENDS Console

MCPrintable == {"a", "b"}
=============================================================================
