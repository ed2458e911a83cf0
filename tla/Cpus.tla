-------------------------------- MODULE Cpus --------------------------------
(* The processors, for the modules about what they do at the same time.    *)
EXTENDS Integers

CONSTANT CPUs

None == -1
=============================================================================
