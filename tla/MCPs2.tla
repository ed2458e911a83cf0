------------------------------- MODULE MCPs2 -------------------------------
(* Three keys with their scan codes in data/sc/sc2_101.csv: the left Ctrl    *)
(* key (one byte), the right one (the same byte after a prefix), and Print  *)
(* Screen, whose sequences the table cannot hold.                           *)
EXTENDS Ps2

E0 == {5, 6, 7}
F0 == {4, 5, 6, 7}
Ctrl == {2, 4}     \* 0x14
MCKeys == { [keycode |-> 161, make |-> <<Ctrl>>, break |-> <<F0, Ctrl>>],
            [keycode |-> 168, make |-> <<E0, Ctrl>>, break |-> <<E0, F0, Ctrl>>],
            [keycode |-> 14, make |-> <<E0, {1, 4}, E0, {2, 3, 4, 5, 6}>>,
                             break |-> <<E0, F0, {2, 3, 4, 5, 6}, E0, F0, {1, 4}>>] }
MCHeads == <<<<E0, F0>>, <<E0>>, <<F0>>>>
MCScanCodes == {E0, F0, Ctrl}
============================================================================
