----------------------------- MODULE MCStartup ------------------------------
(***************************************************************************)
(* Small machines: the kernel as long as it is built and as long as it may *)
(* be, its modules behind it in both orders.                               *)
(***************************************************************************)
EXTENDS Startup

MCVectors == {9, 14, 33, 36, 39, 44, 47, 63, 64, 65, 128}
MCDevices == {1, 4, 12}

Loaded(end, sc2, bootap) ==
  [end |-> end, mods |-> {Region("sc2_bin", sc2, sc2), Region("bootap_bin", bootap, bootap)}]
MCLayouts ==
  {Loaded(290, 291, 290), Loaded(1003, 1003, 1004), Loaded(1006, 1008, 1010),
   [end |-> 290, mods |-> {Region("sc2_bin", 290, 290)}]}

Bios(i, s) == [area |-> "bios", id |-> i, sum |-> s]
MCRsdps ==
  {<<>>, <<Bios(1, 0)>>, <<Bios(1, 3), Bios(2, 0), Bios(3, 0)>>, <<Bios(1, 3), Bios(2, 5)>>,
   <<[area |-> "ebda", id |-> 4, sum |-> 0], Bios(1, 0)>>}

Lapic(i) == [type |-> "lapic", id |-> i]
Other(t) == [type |-> t, id |-> 0]
MCMadts ==
  {<<Lapic(0), Lapic(1), Lapic(2), Other("ioapic"), Other("override")>>,
   <<Other("ioapic"), Lapic(0)>>, <<Lapic(0)>>, <<Other("ioapic")>>,
   [i \in 1 .. MAX_CPUS |-> Lapic(i - 1)]}

\* In the kernel, across a multiple of 64 KB and of 1 MB, and elsewhere.
MCAddresses == {<<18, 1024>>, <<18, 65500>>, <<31, 65432>>, <<31, 65500>>, <<32, 0>>, <<4660, 22136>>}
=============================================================================
