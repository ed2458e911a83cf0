-------------------------------- MODULE Kbd --------------------------------
(***************************************************************************)
(* The keyboard driver (src/sys/kbd.c) and the tool that builds the table   *)
(* it walks (src/tools/create_keyset.py).  The tool turns the scan codes of *)
(* the keys into blocks of 256 entries; an entry is either a key code or    *)
(* the number of the block in which the next scan code is looked up.        *)
(* kbd_add_scancode follows the table one byte at a time, from interrupts.  *)
(***************************************************************************)
EXTENDS Integers, Sequences

CONSTANTS
    KeyTable, \* the rows of the CSV file: a set of [keycode, make, break]
    Heads     \* its first line: the sequence of the prefixes of scan codes

\* The scan codes are bytes (as in Ps2, the sets of their bits).  A prefix is one
\* byte, or two of which the first is a prefix that the first line names later: the
\* tool stops with an error when it does not, and would link a longer prefix to the
\* block of its last byte but one.
ASSUME KbdConstants ==
    /\ \A k \in KeyTable : k.make \in Seq(SUBSET (0 .. 7)) /\ k.break \in Seq(SUBSET (0 .. 7))
    /\ Heads \in Seq(Seq(SUBSET (0 .. 7)))
    /\ \A i \in 1 .. Len(Heads) :
         \/ Len(Heads[i]) = 1
         \/ Len(Heads[i]) = 2 /\ \E j \in i + 1 .. Len(Heads) : Heads[j] = <<Heads[i][1]>>

VARIABLES
    curr_map, \* the block in which the next scan code is looked up
    pending,  \* history: the scan codes since curr_map was orig_map
    event     \* history: the last key printed, with its scan codes

kbdvars == <<curr_map, pending, event>>

----------------------------------------------------------------------------
(* create_keyset.py *)

\* One make and one break entry for every key.
transform_list == UNION { { [scancode |-> k.make,  keycode |-> k.keycode, flag |-> 0],
                            [scancode |-> k.break, keycode |-> k.keycode, flag |-> 1] }
                          : k \in KeyTable }

\* The entry of a block for a scan code the block does not name.
Empty == [kc |-> 0, flag |-> 0]

PendMore == 128    \* KBD_FLAG_MASK_PEND_MORE, the tool's "\x80"

\* A scan code without its last byte, and that byte.
AllButLast(sc) == SubSeq(sc, 1, Len(sc) - 1)
LastOf(sc)     == sc[Len(sc)]

\* The entries whose scan code is the prefix p and one more byte.
get_binary(p) ==
    LET li == { l \in transform_list : l.scancode # <<>> /\ AllButLast(l.scancode) = p }
    IN  [ sc \in { LastOf(l.scancode) : l \in li } |->
            LET l == CHOOSE l \in li : LastOf(l.scancode) = sc
            IN  [kc |-> l.keycode, flag |-> l.flag] ]

\* The blocks of the prefixes follow block 0 in the reverse of the head's order.
BlockIndex(i) == (Len(Heads) - i) + 1

\* The block that links to the block of prefix i: block 0, or the block of the
\* one-byte prefix that the last byte but one of prefix i is mapped to.
LinkedFrom(i) ==
    IF Len(Heads[i]) = 1 THEN 0
    ELSE BlockIndex(CHOOSE j \in i + 1 .. Len(Heads) : Heads[j] = <<Heads[i][Len(Heads[i]) - 1]>>)

\* One block of the table: its own entries, overwritten by the links.
get_all_blocks(b) ==
    LET own == get_binary(IF b = 0 THEN <<>> ELSE Heads[(Len(Heads) - b) + 1])
        lk  == { i \in 1 .. Len(Heads) : LinkedFrom(i) = b }
        links == { LastOf(Heads[i]) : i \in lk }
    IN  [ sc \in links \union DOMAIN own |->
            IF sc \in links
            THEN [kc |-> BlockIndex(CHOOSE i \in lk : LastOf(Heads[i]) = sc), flag |-> PendMore]
            ELSE own[sc] ]

\* The module sc2.bin, at orig_map.
orig_map == [ b \in 0 .. Len(Heads) |-> get_all_blocks(b) ]

----------------------------------------------------------------------------
(* kbd.c *)

Entry(b, sc) == IF sc \in DOMAIN orig_map[b] THEN orig_map[b][sc] ELSE Empty

kbd_init == curr_map = 0 /\ pending = <<>> /\ event = [codes |-> <<>>, kc |-> 0]

\* Mutant: the driver stays in the block in which the key was found.
add_scancode_stays(sc) ==
    LET e == Entry(curr_map, sc) IN
    IF e.flag = PendMore
    THEN /\ curr_map' = e.kc
         /\ pending' = Append(pending, sc)
         /\ UNCHANGED event
    ELSE /\ UNCHANGED curr_map
         /\ pending' = <<>>
         /\ event' = [codes |-> Append(pending, sc), kc |-> e.kc]

kbd_add_scancode(sc) ==
    LET e == Entry(curr_map, sc) IN
    IF e.flag = PendMore
    THEN /\ curr_map' = e.kc
         /\ pending' = Append(pending, sc)
         /\ UNCHANGED event
    ELSE /\ curr_map' = 0
         /\ pending' = <<>>
         /\ event' = [codes |-> Append(pending, sc), kc |-> e.kc]

----------------------------------------------------------------------------
(* What the keyboard driver promises *)

\* The walk is in the block of the prefix read so far, one the CSV file names.
WalkFollowsHeads ==
    /\ curr_map \in 0 .. Len(Heads)
    /\ pending = (IF curr_map = 0 THEN <<>> ELSE Heads[(Len(Heads) - curr_map) + 1])

\* The key printed is the key of the CSV file with exactly the scan codes read
\* since the last key, and 0 when no key has them (a Pause or Print Screen
\* sequence, which the table cannot hold, or a lost byte): the table the tool
\* builds and the walk of kbd_add_scancode agree, from any point of any stream,
\* and a stray byte is forgotten with the next key.
KeysAreDecoded ==
    /\ WalkFollowsHeads
    /\ event.codes # <<>> =>
         LET li == { l \in transform_list : l.scancode = event.codes }
         IN  IF li = {} THEN event.kc = 0 ELSE \E l \in li : event.kc = l.keycode
============================================================================
