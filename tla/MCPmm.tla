------------------------------- MODULE MCPmm -------------------------------
(* Bounds for model checking Pmm: blocks of 4 bytes, memory of a few       *)
(* blocks, entries whose bounds are even addresses.                        *)
EXTENDS Pmm

CONSTANTS
  Top,         \* highest address of an entry below WORD
  HighEntries  \* entries at or above WORD

Even(n) == {2 * i : i \in 0 .. n \div 2}

Low == [base : Even(Top), len : Even(Top) \ {0}, type : {1, 2}]

LowEntries == {e \in Low : e.base + e.len <= Top}

End(m) == IF m = << >> THEN 0 ELSE m[Len(m)].base + m[Len(m)].len

\* What the boot loader passes: entries in the order of their bases, without
\* overlap, none empty.
Extend(m) == {Append(m, e) : e \in {f \in LowEntries : f.base >= End(m)}}

Longer(M) == UNION {Extend(m) : m \in M}
Maps1 == Extend(<< >>)
Maps2 == Longer(Maps1)
Maps3 == Longer(Maps2)

\* Maps below WORD, and maps with one more entry above it, among those that have
\* an entry large enough for the bitmap.
LowMaps == {m \in Maps1 \cup Maps2 \cup Maps3 : Fitting(m) # {}}
HighMaps == {m \in {Append(p, e) : p \in Maps2, e \in HighEntries} : Fitting(m) # {}}

\* A few maps with the features of a real one: memory, a hole, reserved memory,
\* memory that begins and ends inside a block.
FewMaps ==
  { << [base |-> 0, len |-> 6, type |-> 1], [base |-> 6, len |-> 4, type |-> 2],
       [base |-> 12, len |-> 20, type |-> 1] >>,
    << [base |-> 0, len |-> 22, type |-> 1], [base |-> 22, len |-> 6, type |-> 1] >>,
    << [base |-> 0, len |-> 10, type |-> 1], [base |-> 14, len |-> 14, type |-> 1],
       [base |-> 30, len |-> 34, type |-> 2] >> }

AllMaps == LowMaps \cup FewMaps

FewMarks == {<<5, 9>>, <<0, 8>>}
NoMarks == {}
NoHigh == {}
HighMemory == {[base |-> 64, len |-> l, type |-> 1] : l \in {8, 16, 24}}
=============================================================================
