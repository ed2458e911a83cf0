----------------------------- MODULE Ps2Proofs -----------------------------
(* Proofs about module Ps2, for any number of polls, any scan codes and any *)
(* table of keys.                                                          *)
EXTENDS Ps2, TLAPS

Bytes == SUBSET (0 .. 7)
Commands == {"DISABLE_1ST", "DISABLE_2ND", "ENABLE_1ST", "ENABLE_2ND", "READ_CCB",
             "WRITE_CCB", "SEL_2ND", "SELF_TEST", "TEST_1ST", "TEST_2ND"}
Flags == {"RESPONSE", "DOUBLE", "DATA", "SECOND"}
Inputs == {<<>>} \cup ({"status"} \X Commands) \cup ({"data"} \X Bytes)

-----------------------------------------------------------------------------
(* The table of create_keyset.py and the walk of kbd_add_scancode.          *)

Codes == Seq(SUBSET (0 .. 7))

\* The same of the scan codes.
LEMMA CodesSplit ==
  \A s, p \in Codes : s # <<>> =>
    \A x : s = Append(p, x) <=> AllButLast(s) = p /\ LastOf(s) = x
\* Sequences are equal when their elements are.
<1>SameCodes. ASSUME NEW S, NEW s \in Seq(S), NEW t \in Seq(S), Len(s) = Len(t),
                     \A k \in 1 .. Len(s) : s[k] = t[k]
              PROVE  s = t
  BY <1>SameCodes
\* Append adds one byte.
<1>Appended. ASSUME NEW S, NEW p \in Seq(S), NEW x \in S
             PROVE  /\ Append(p, x) \in Seq(S) /\ Len(Append(p, x)) = Len(p) + 1
                    /\ Append(p, x)[Len(p) + 1] = x
                    /\ \A k \in 1 .. Len(p) : Append(p, x)[k] = p[k]
  BY <1>Appended
\* SubSeq keeps the first ones.
<1>Shortened. ASSUME NEW S, NEW s \in Seq(S), NEW n \in Nat, n < Len(s)
              PROVE  Len(SubSeq(s, 1, n)) = n /\ \A k \in 1 .. n : SubSeq(s, 1, n)[k] = s[k]
  BY <1>Shortened
\* A scan code is its prefix and its last byte.
<1>LastByte. ASSUME NEW S, NEW s \in Seq(S), s # <<>>, NEW p \in Seq(S), NEW x
             PROVE  /\ s = Append(p, x) => AllButLast(s) = p /\ LastOf(s) = x
                    /\ AllButLast(s) = p /\ LastOf(s) = x => s = Append(p, x)
  <2> USE <1>LastByte
  <2>1. PICK n \in Nat : Len(s) = n + 1 /\ n = Len(s) - 1 /\ n < Len(s)
    <3>1. Len(s) \in Nat /\ Len(s) # 0
      OBVIOUS
    <3>2. Len(s) - 1 \in Nat /\ Len(s) = (Len(s) - 1) + 1 /\ Len(s) - 1 < Len(s)
      BY <3>1
    <3>3. QED
      BY <3>2, Zenon
  <2>2. ASSUME s = Append(p, x) PROVE AllButLast(s) = p /\ LastOf(s) = x
    BY <2>2 DEF AllButLast, LastOf
  <2>3. ASSUME AllButLast(s) = p, LastOf(s) = x PROVE s = Append(p, x)
    <3>1. p = SubSeq(s, 1, n) /\ x = s[n + 1]
      BY <2>1, <2>3 DEF AllButLast, LastOf
    <3>2. Len(p) = n /\ \A k \in 1 .. n : p[k] = s[k]
      BY <2>1, <3>1, <1>Shortened, Zenon
    <3>3. x \in S
      BY <2>1, <3>1
    <3>4. /\ Append(p, x) \in Seq(S) /\ Len(Append(p, x)) = n + 1
          /\ Append(p, x)[n + 1] = x
          /\ \A k \in 1 .. n : Append(p, x)[k] = p[k]
      <4>1. /\ Append(p, x) \in Seq(S) /\ Len(Append(p, x)) = Len(p) + 1
            /\ Append(p, x)[Len(p) + 1] = x
            /\ \A k \in 1 .. Len(p) : Append(p, x)[k] = p[k]
        BY <3>3, <1>Appended
      <4>2. QED
        BY <3>2, <4>1
    <3>5. \A k \in 1 .. Len(s) : s[k] = Append(p, x)[k]
      BY <2>1, <3>1, <3>2, <3>4
    <3>6. QED
      BY <2>1, <3>4, <3>5, <1>SameCodes, Zenon
  <2>4. QED
    BY <2>2, <2>3
<1> SUFFICES ASSUME NEW s \in Codes, NEW p \in Codes, s # <<>>, NEW x
             PROVE  s = Append(p, x) <=> AllButLast(s) = p /\ LastOf(s) = x
  BY Zenon
<1>1. PICK S : S = SUBSET (0 .. 7)
  BY Zenon
<1>2. s \in Seq(S) /\ p \in Seq(S)
  BY <1>1, Zenon DEF Codes
<1>3. QED
  BY <1>2, <1>LastByte

\* The prefix of a block.
PrefixOf(b) == IF b = 0 THEN <<>> ELSE Heads[(Len(Heads) - b) + 1]

\* The blocks of the prefixes, and the prefixes of the blocks.
LEMMA PrefixTyped ==
  /\ Len(Heads) \in Nat
  /\ \A i \in 1 .. Len(Heads) :
       /\ Heads[i] \in Codes /\ Heads[i] # <<>>
       /\ BlockIndex(i) \in 1 .. Len(Heads) /\ PrefixOf(BlockIndex(i)) = Heads[i]
  /\ \A b \in 0 .. Len(Heads) : PrefixOf(b) \in Codes
<1>1. Len(Heads) \in Nat
  BY KbdConstants
<1>2. ASSUME NEW i \in 1 .. Len(Heads)
      PROVE  /\ Heads[i] \in Codes /\ Heads[i] # <<>>
             /\ BlockIndex(i) \in 1 .. Len(Heads) /\ PrefixOf(BlockIndex(i)) = Heads[i]
  <2>1. Heads[i] \in Codes
    BY KbdConstants DEF Codes
  <2>4. Len(Heads[i]) \in {1, 2}
    BY KbdConstants, Zenon
  <2>2. BlockIndex(i) \in 1 .. Len(Heads) /\ (Len(Heads) - BlockIndex(i)) + 1 = i
    BY <1>1 DEF BlockIndex
  <2>3. QED
    <3>1. Heads[i] # <<>>
      BY <2>4
    <3>2. QED
      BY <2>1, <2>2, <3>1 DEF PrefixOf
<1>3. ASSUME NEW b \in 0 .. Len(Heads) PROVE PrefixOf(b) \in Codes
  <2>1. CASE b = 0
    BY <2>1 DEF PrefixOf, Codes
  <2>2. CASE b # 0
    <3>1. (Len(Heads) - b) + 1 \in 1 .. Len(Heads)
      BY <1>1, <2>2
    <3>2. QED
      BY <1>2, <2>2, <3>1, Zenon DEF PrefixOf
  <2>3. QED
    BY <2>1, <2>2
<1>4. QED
  BY <1>1, <1>2, <1>3

\* A link of a block leads to the block of the longer prefix.
LEMMA Links ==
  ASSUME NEW i \in 1 .. Len(Heads)
  PROVE  /\ LinkedFrom(i) \in 0 .. Len(Heads)
         /\ Heads[i] = Append(PrefixOf(LinkedFrom(i)), LastOf(Heads[i]))
<1>1. Len(Heads) \in Nat /\ Heads[i] \in Codes
  BY PrefixTyped
<1>2. CASE Len(Heads[i]) = 1
  BY <1>1, <1>2 DEF LinkedFrom, PrefixOf, LastOf, Codes
<1>3. CASE Len(Heads[i]) # 1
  <2>1. Len(Heads[i]) = 2 /\ \E j \in i + 1 .. Len(Heads) : Heads[j] = <<Heads[i][1]>>
    BY <1>3, KbdConstants, Zenon
  <2> DEFINE j == CHOOSE j \in i + 1 .. Len(Heads) : Heads[j] = <<Heads[i][Len(Heads[i]) - 1]>>
  <2>2. j \in i + 1 .. Len(Heads) /\ Heads[j] = <<Heads[i][1]>>
    BY <2>1
  <2>3. LinkedFrom(i) = BlockIndex(j)
    BY <1>3, Zenon DEF LinkedFrom
  <2> HIDE DEF j
  <2>4. j \in 1 .. Len(Heads)
    BY <1>1, <2>2
  <2>5. PrefixOf(LinkedFrom(i)) = <<Heads[i][1]>> /\ LinkedFrom(i) \in 1 .. Len(Heads)
    BY <2>2, <2>3, <2>4, PrefixTyped, Zenon
  <2>6. Heads[i] = Append(<<Heads[i][1]>>, Heads[i][2])
    BY <1>1, <2>1 DEF Codes
  <2>7. QED
    BY <1>1, <2>1, <2>5, <2>6 DEF LastOf
<1>4. QED
  BY <1>2, <1>3

\* The entries of the list with the prefix of a block and one more byte.
KeysWith(b, sc) == { l \in transform_list : l.scancode = Append(PrefixOf(b), sc) }

\* The entries of a block: a link, the key that has the scan code, or nothing.
LEMMA Entries ==
  ASSUME NEW b \in 0 .. Len(Heads), NEW sc
  PROVE  \/ /\ Entry(b, sc).flag = PendMore
            /\ \E i \in 1 .. Len(Heads) : /\ LinkedFrom(i) = b /\ LastOf(Heads[i]) = sc
                                          /\ Entry(b, sc).kc = BlockIndex(i)
         \/ /\ Entry(b, sc).flag # PendMore /\ KeysWith(b, sc) # {}
            /\ \E l \in KeysWith(b, sc) : Entry(b, sc).kc = l.keycode
         \/ Entry(b, sc).flag # PendMore /\ KeysWith(b, sc) = {} /\ Entry(b, sc).kc = 0
<1> DEFINE p   == PrefixOf(b)
           li  == { l \in transform_list : l.scancode # <<>> /\ AllButLast(l.scancode) = p }
           own == [ x \in { LastOf(l.scancode) : l \in li } |->
                      LET l == CHOOSE l \in li : LastOf(l.scancode) = x
                      IN  [kc |-> l.keycode, flag |-> l.flag] ]
           lk  == { i \in 1 .. Len(Heads) : LinkedFrom(i) = b }
           links == { LastOf(Heads[i]) : i \in lk }
<1>1. orig_map[b] = [ x \in links \cup DOMAIN own |->
                        IF x \in links
                        THEN [kc |-> BlockIndex(CHOOSE i \in lk : LastOf(Heads[i]) = x), flag |-> PendMore]
                        ELSE own[x] ]
  BY Zenon DEF orig_map, get_all_blocks, get_binary, PrefixOf
<1>3. \A l \in transform_list : l.scancode \in Codes /\ l.flag \in {0, 1}
  <2> SUFFICES ASSUME NEW l \in transform_list PROVE l.scancode \in Codes /\ l.flag \in {0, 1}
    BY Zenon
  <2>1. PICK k \in KeyTable : \/ l = [scancode |-> k.make,  keycode |-> k.keycode, flag |-> 0]
                              \/ l = [scancode |-> k.break, keycode |-> k.keycode, flag |-> 1]
    BY Zenon DEF transform_list
  <2>2. k.make \in Codes /\ k.break \in Codes
    BY KbdConstants, Zenon DEF Codes
  <2>3. QED
    BY <2>1, <2>2
<1>4. p \in Codes
  BY PrefixTyped
<1>5. \A l \in transform_list : l \in KeysWith(b, sc) <=> l \in li /\ LastOf(l.scancode) = sc
  <2> SUFFICES ASSUME NEW l \in transform_list
               PROVE  l.scancode = Append(p, sc) <=>
                        l.scancode # <<>> /\ AllButLast(l.scancode) = p /\ LastOf(l.scancode) = sc
    BY DEF KeysWith
  <2>1. Append(p, sc) # <<>>
    BY <1>4 DEF Codes
  <2>2. CASE l.scancode = <<>>
    BY <2>1, <2>2, Zenon
  <2>3. CASE l.scancode # <<>>
    BY <1>3, <1>4, <2>3, CodesSplit, Zenon
  <2>4. QED
    BY <2>2, <2>3, Zenon
<1>6. CASE sc \in links
  <2>1. \E i \in lk : LastOf(Heads[i]) = sc
    BY <1>6
  <2> DEFINE i == CHOOSE i \in lk : LastOf(Heads[i]) = sc
  <2>2. i \in lk /\ LastOf(Heads[i]) = sc
    BY <2>1, Zenon
  <2>3. Entry(b, sc) = [kc |-> BlockIndex(i), flag |-> PendMore]
    BY <1>1, <1>6, Zenon DEF Entry
  <2>4. i \in 1 .. Len(Heads) /\ LinkedFrom(i) = b
    BY <2>2, Zenon
  <2> HIDE DEF i
  <2>5. Entry(b, sc).flag = PendMore /\ Entry(b, sc).kc = BlockIndex(i)
    BY <2>3
  <2>6. QED
    BY <2>2, <2>4, <2>5, Zenon
<1>7. CASE sc \notin links /\ sc \in DOMAIN own
  <2>1. \E l \in li : LastOf(l.scancode) = sc
    BY <1>7
  <2> DEFINE l == CHOOSE l \in li : LastOf(l.scancode) = sc
  <2>2. l \in li /\ LastOf(l.scancode) = sc
    BY <2>1, Zenon
  <2>3. Entry(b, sc) = [kc |-> l.keycode, flag |-> l.flag]
    BY <1>1, <1>7, Zenon DEF Entry
  <2>4. l \in transform_list
    BY <2>2, Zenon
  <2> HIDE DEF l
  <2>5. l \in KeysWith(b, sc) /\ l.flag \in {0, 1}
    BY <1>3, <1>5, <2>2, <2>4, Zenon
  <2>6. l.flag # PendMore
    BY <2>5 DEF PendMore
  <2>7. Entry(b, sc).flag # PendMore /\ Entry(b, sc).kc = l.keycode
    BY <2>3, <2>6
  <2>8. QED
    BY <2>5, <2>7, Zenon
<1>8. CASE sc \notin links /\ sc \notin DOMAIN own
  <2>1. Entry(b, sc) = Empty
    BY <1>1, <1>8, Zenon DEF Entry
  <2>2. \A l \in li : LastOf(l.scancode) # sc
    BY <1>8
  <2>3. KeysWith(b, sc) = {}
    BY <1>5, <2>2, Zenon DEF KeysWith
  <2>4. Entry(b, sc).kc = 0 /\ Entry(b, sc).flag # PendMore
    BY <2>1 DEF Empty, PendMore
  <2>5. QED
    BY <2>3, <2>4, Zenon
<1>9. QED
  BY <1>6, <1>7, <1>8, Zenon

\* A scan code from the controller keeps the walk and the table in step.
LEMMA Decodes ==
  ASSUME KeysAreDecoded, NEW sc, kbd_add_scancode(sc)
  PROVE  KeysAreDecoded'
<1>1. curr_map \in 0 .. Len(Heads) /\ pending = PrefixOf(curr_map) /\ Len(Heads) \in Nat
  BY PrefixTyped DEF KeysAreDecoded, WalkFollowsHeads, PrefixOf
<1>2. CASE Entry(curr_map, sc).flag = PendMore
  <2>1. /\ curr_map' = Entry(curr_map, sc).kc /\ pending' = Append(pending, sc) /\ event' = event
    BY <1>2, Zenon DEF kbd_add_scancode
  <2>2. PICK i \in 1 .. Len(Heads) : /\ LinkedFrom(i) = curr_map /\ LastOf(Heads[i]) = sc
                                     /\ Entry(curr_map, sc).kc = BlockIndex(i)
    BY <1>1, <1>2, Entries, Zenon
  <2>3. pending' = Heads[i] /\ curr_map' = BlockIndex(i)
    BY <1>1, <2>1, <2>2, Links, Zenon
  <2>4. curr_map' \in 1 .. Len(Heads) /\ PrefixOf(curr_map') = pending'
    BY <2>3, PrefixTyped, Zenon
  <2>5. WalkFollowsHeads'
    BY <1>1, <2>4 DEF WalkFollowsHeads, PrefixOf
  <2>6. QED
    BY <2>1, <2>5, Zenon DEF KeysAreDecoded
<1>3. CASE Entry(curr_map, sc).flag # PendMore
  <2>1. /\ curr_map' = 0 /\ pending' = <<>>
        /\ event' = [codes |-> Append(pending, sc), kc |-> Entry(curr_map, sc).kc]
    BY <1>3, Zenon DEF kbd_add_scancode
  <2>2. WalkFollowsHeads'
    BY <1>1, <2>1 DEF WalkFollowsHeads
  <2>3. event'.codes = Append(PrefixOf(curr_map), sc) /\ event'.kc = Entry(curr_map, sc).kc
    BY <1>1, <2>1
  <2>4. \/ KeysWith(curr_map, sc) = {} /\ event'.kc = 0
        \/ KeysWith(curr_map, sc) # {} /\ \E l \in KeysWith(curr_map, sc) : event'.kc = l.keycode
    BY <1>1, <1>3, <2>3, Entries, Zenon
  <2>5. KeysWith(curr_map, sc) = { l \in transform_list : l.scancode = event'.codes }
    BY <2>3, Zenon DEF KeysWith
  <2>6. transform_list' = transform_list
    BY Zenon DEF transform_list
  <2>7. QED
    BY <2>2, <2>4, <2>5, <2>6, Zenon DEF KeysAreDecoded
<1>4. QED
  BY <1>2, <1>3

-----------------------------------------------------------------------------
(* The controller.                                                         *)

Controllers ==
  [ccb : Bytes, in : Inputs, expect : {"dev1", "dev2", "ccb"}, full : BOOLEAN,
   data : Bytes, src : 0 .. 2]

HwOK ==
  /\ hw \in [self : BOOLEAN, two : BOOLEAN, dev : [Channels -> BOOLEAN]]
  /\ (hw.dev[1] => hw.self) /\ (hw.dev[2] => hw.self /\ hw.two)

\* The controller when it has taken the byte that is in its input buffer.
After == IF ctl.in = <<>> THEN ctl ELSE [Obey(ctl.in[1], ctl.in[2]) EXCEPT !.in = <<>>]

\* A controller with an empty input buffer.
Becomes(c, bits, expects, full, data) ==
  /\ c \in Controllers /\ c.in = <<>>
  /\ c.ccb = bits /\ c.expect = expects /\ c.full = full /\ c.data = data

\* Bits of a configuration byte.
LEMMA CcbFacts ==
  /\ INTR(1) = 0 /\ INTR(2) = 1 /\ CLOCK(1) = 4 /\ CLOCK(2) = 5 /\ TRANS1 = 6
  /\ \A bits \in Bytes : Ccb(bits) \in Bytes
  /\ PS2_SELF_TEST_SUCCESS \in Bytes /\ PS2_RES_ACK \in Bytes /\ Reset \in Bytes
  /\ {} \in Bytes /\ {0} \in Bytes
BY DEF INTR, CLOCK, TRANS1, Ccb, Bytes, PS2_SELF_TEST_SUCCESS, PS2_RES_ACK, Reset

\* The contents of the input buffer.
LEMMA InputFacts ==
  /\ <<>> \in Inputs
  /\ \A b \in Commands : <<"status", b>> \in Inputs
  /\ \A b \in Bytes : <<"data", b>> \in Inputs
  /\ \A p, b : <<p, b>> # <<>> /\ <<p, b>>[1] = p /\ <<p, b>>[2] = b
  /\ \A x \in Inputs : \/ x = <<>> \/ \E b \in Commands : x = <<"status", b>>
                       \/ \E b \in Bytes : x = <<"data", b>>
<1>1. <<>> \in Inputs
  BY Zenon DEF Inputs
<1>2. \A b \in Commands : <<"status", b>> \in Inputs
  BY DEF Inputs
<1>3. \A b \in Bytes : <<"data", b>> \in Inputs
  BY DEF Inputs
<1>4. \A p, b : <<p, b>> # <<>> /\ <<p, b>>[1] = p /\ <<p, b>>[2] = b
  OBVIOUS
<1>5. \A x \in Inputs : \/ x = <<>> \/ \E b \in Commands : x = <<"status", b>>
                        \/ \E b \in Bytes : x = <<"data", b>>
  BY DEF Inputs
<1>6. QED
  BY <1>1, <1>2, <1>3, <1>4, <1>5, Zenon

\* A byte for device n, and what the controller then is.
Passed(n, b) ==
  IF hw.dev[n] /\ b = Reset THEN Becomes(After, ctl.ccb, "dev1", TRUE, PS2_RES_ACK)
                            ELSE Becomes(After, ctl.ccb, "dev1", ctl.full, ctl.data)

\* What the controller is after each of the bytes it can take.
AfterFact ==
  HwOK /\ ctl \in Controllers =>
    /\ ctl.in = <<>> => After = ctl
    /\ ctl.in = <<"status", "DISABLE_1ST">> =>
         Becomes(After, Ccb(ctl.ccb \cup {4}), "dev1", ctl.full, ctl.data)
    /\ ctl.in = <<"status", "DISABLE_2ND">> =>
         Becomes(After, Ccb(ctl.ccb \cup {5}), "dev1", ctl.full, ctl.data)
    /\ ctl.in = <<"status", "ENABLE_1ST">> =>
         Becomes(After, Ccb(ctl.ccb \ {4}), "dev1", ctl.full, ctl.data)
    /\ ctl.in = <<"status", "ENABLE_2ND">> =>
         Becomes(After, Ccb(ctl.ccb \ {5}), "dev1", ctl.full, ctl.data)
    /\ ctl.in = <<"status", "READ_CCB">> =>
         Becomes(After, ctl.ccb, ctl.expect, TRUE, ctl.ccb)
    /\ ctl.in = <<"status", "WRITE_CCB">> =>
         Becomes(After, ctl.ccb, "ccb", ctl.full, ctl.data)
    /\ ctl.in = <<"status", "SEL_2ND">> =>
         Becomes(After, ctl.ccb, "dev2", ctl.full, ctl.data)
    /\ ctl.in = <<"status", "SELF_TEST">> =>
         Becomes(After, ctl.ccb, ctl.expect, TRUE, IF hw.self THEN PS2_SELF_TEST_SUCCESS ELSE {})
    /\ ctl.in = <<"status", "TEST_1ST">> =>
         Becomes(After, ctl.ccb, ctl.expect, TRUE, IF hw.dev[1] THEN {} ELSE {0})
    /\ ctl.in = <<"status", "TEST_2ND">> =>
         Becomes(After, ctl.ccb, ctl.expect, TRUE, IF hw.dev[2] THEN {} ELSE {0})
    /\ \A b \in Bytes : ctl.in = <<"data", b>> =>
         /\ ctl.expect = "ccb" => Becomes(After, Ccb(b), "dev1", ctl.full, ctl.data)
         /\ ctl.expect = "dev1" => Passed(1, b)
         /\ ctl.expect = "dev2" => Passed(2, b)

\* AfterFact is a fact: the cases of Obey.
LEMMA AfterIs == AfterFact
\* The controller after a command that changes the configuration byte.
<1>SetFields. ASSUME NEW r \in Controllers, NEW bits \in Bytes
              PROVE  Becomes([[r EXCEPT !.expect = "dev1", !.ccb = bits] EXCEPT !.in = <<>>],
                             bits, "dev1", r.full, r.data)
  <2> USE <1>SetFields
  <2> DEFINE a == [[r EXCEPT !.expect = "dev1", !.ccb = bits] EXCEPT !.in = <<>>]
  <2>1. a \in Controllers
    BY InputFacts, Zenon DEF Controllers
  <2>2. a.in = <<>> /\ a.ccb = bits /\ a.expect = "dev1" /\ a.full = r.full /\ a.data = r.data
    BY DEF Controllers
  <2>3. QED
    BY <2>1, <2>2, Zenon DEF Becomes
\* The controller after a command that it answers.
<1>FillFields. ASSUME NEW r \in Controllers, NEW s \in 0 .. 2, NEW b \in Bytes
               PROVE  Becomes([[r EXCEPT !.full = TRUE, !.data = b, !.src = s] EXCEPT !.in = <<>>],
                              r.ccb, r.expect, TRUE, b)
  <2> USE <1>FillFields
  <2> DEFINE a == [[r EXCEPT !.full = TRUE, !.data = b, !.src = s] EXCEPT !.in = <<>>]
  <2>1. a \in Controllers
    BY InputFacts, Zenon DEF Controllers
  <2>2. a.in = <<>> /\ a.ccb = r.ccb /\ a.expect = r.expect /\ a.full = TRUE /\ a.data = b
    BY DEF Controllers
  <2>3. QED
    BY <2>1, <2>2, Zenon DEF Becomes
\* The controller after a command that says where the next byte goes.
<1>ExpectFields. ASSUME NEW r \in Controllers, NEW e \in {"dev1", "dev2", "ccb"}
                 PROVE  Becomes([[r EXCEPT !.expect = e] EXCEPT !.in = <<>>], r.ccb, e, r.full, r.data)
  <2> USE <1>ExpectFields
  <2> DEFINE a == [[r EXCEPT !.expect = e] EXCEPT !.in = <<>>]
  <2>1. a \in Controllers
    BY InputFacts, Zenon DEF Controllers
  <2>2. a.in = <<>> /\ a.ccb = r.ccb /\ a.expect = e /\ a.full = r.full /\ a.data = r.data
    BY DEF Controllers
  <2>3. QED
    BY <2>1, <2>2, Zenon DEF Becomes
\* The controller after a byte that it passed to a device, which answers.
<1>AnswerFields. ASSUME NEW r \in Controllers, NEW s \in 0 .. 2, NEW b \in Bytes
                 PROVE  Becomes([[[r EXCEPT !.full = TRUE, !.data = b, !.src = s] EXCEPT !.expect = "dev1"]
                                    EXCEPT !.in = <<>>], r.ccb, "dev1", TRUE, b)
  <2> USE <1>AnswerFields
  <2> DEFINE f == [r EXCEPT !.full = TRUE, !.data = b, !.src = s]
  <2>1. f \in Controllers
    BY InputFacts, Zenon DEF Controllers
  <2>2. f.ccb = r.ccb /\ f.full = TRUE /\ f.data = b
    BY DEF Controllers
  <2> HIDE DEF f
  <2>3. Becomes([[f EXCEPT !.expect = "dev1"] EXCEPT !.in = <<>>], f.ccb, "dev1", f.full, f.data)
    BY <2>1, <1>ExpectFields, Zenon
  <2>4. QED
    BY <2>2, <2>3, Zenon DEF f
\* The controller after a byte that changes nothing.
<1>IgnoreFields. ASSUME NEW r \in Controllers
                 PROVE  Becomes([r EXCEPT !.in = <<>>], r.ccb, r.expect, r.full, r.data)
  <2> USE <1>IgnoreFields
  <2> DEFINE a == [r EXCEPT !.in = <<>>]
  <2>1. a \in Controllers
    BY InputFacts, Zenon DEF Controllers
  <2>2. a.in = <<>> /\ a.ccb = r.ccb /\ a.expect = r.expect /\ a.full = r.full /\ a.data = r.data
    BY DEF Controllers
  <2>3. QED
    BY <2>1, <2>2, Zenon DEF Becomes
\* The command in the input buffer is obeyed.
<1>AfterObeys. ASSUME NEW port, NEW b, ctl.in = <<port, b>>
               PROVE  After = [Obey(port, b) EXCEPT !.in = <<>>]
  <2> USE <1>AfterObeys
  <2>1. ctl.in # <<>> /\ ctl.in[1] = port /\ ctl.in[2] = b
    OBVIOUS
  <2>2. QED
    BY <2>1, Zenon DEF After
\* It changes the configuration byte, answers, expects a byte, or has a device answer.
<1>AfterSets. ASSUME ctl \in Controllers, NEW port, NEW b, NEW bits \in Bytes, ctl.in = <<port, b>>,
                     Obey(port, b) = [ctl EXCEPT !.expect = "dev1", !.ccb = bits]
              PROVE  Becomes(After, bits, "dev1", ctl.full, ctl.data)
  <2> USE <1>AfterSets
  <2> DEFINE c == [[ctl EXCEPT !.expect = "dev1", !.ccb = bits] EXCEPT !.in = <<>>]
  <2>1. After = [Obey(port, b) EXCEPT !.in = <<>>]
    BY <1>AfterObeys, Zenon
  <2>2. Becomes(c, bits, "dev1", ctl.full, ctl.data)
    BY <1>SetFields, Zenon
  <2>3. After = c
    BY <2>1
  <2>4. QED
    BY <2>2, <2>3, Zenon
\* The byte of the controller fills its output buffer and leaves the rest alone.
<1>AfterFills. ASSUME ctl \in Controllers, NEW port, NEW b, NEW s \in 0 .. 2, NEW d \in Bytes,
                      ctl.in = <<port, b>>,
                      Obey(port, b) = [ctl EXCEPT !.full = TRUE, !.data = d, !.src = s]
               PROVE  Becomes(After, ctl.ccb, ctl.expect, TRUE, d)
  <2> USE <1>AfterFills
  <2> DEFINE c == [[ctl EXCEPT !.full = TRUE, !.data = d, !.src = s] EXCEPT !.in = <<>>]
  <2>1. After = [Obey(port, b) EXCEPT !.in = <<>>]
    BY <1>AfterObeys, Zenon
  <2>2. Becomes(c, ctl.ccb, ctl.expect, TRUE, d)
    BY <1>FillFields, Zenon
  <2>3. After = c
    BY <2>1
  <2>4. QED
    BY <2>2, <2>3, Zenon
\* SEL_2ND and WRITE_CCB only change where the next data byte goes.
<1>AfterExpects. ASSUME ctl \in Controllers, NEW port, NEW b, NEW e \in {"dev1", "dev2", "ccb"},
                        ctl.in = <<port, b>>, Obey(port, b) = [ctl EXCEPT !.expect = e]
                 PROVE  Becomes(After, ctl.ccb, e, ctl.full, ctl.data)
  <2> USE <1>AfterExpects
  <2> DEFINE c == [[ctl EXCEPT !.expect = e] EXCEPT !.in = <<>>]
  <2>1. After = [Obey(port, b) EXCEPT !.in = <<>>]
    BY <1>AfterObeys, Zenon
  <2>2. Becomes(c, ctl.ccb, e, ctl.full, ctl.data)
    BY <1>ExpectFields, Zenon
  <2>3. After = c
    BY <2>1
  <2>4. QED
    BY <2>2, <2>3, Zenon
\* A data byte that the device answers: the answer is in the buffer, and the
\* next data byte goes to the first device again.
<1>AfterAnswers. ASSUME ctl \in Controllers, NEW port, NEW b, NEW s \in 0 .. 2, NEW d \in Bytes,
                        ctl.in = <<port, b>>,
                        Obey(port, b) =
                          [[ctl EXCEPT !.full = TRUE, !.data = d, !.src = s] EXCEPT !.expect = "dev1"]
                 PROVE  Becomes(After, ctl.ccb, "dev1", TRUE, d)
  <2> USE <1>AfterAnswers
  <2> DEFINE c == [[[ctl EXCEPT !.full = TRUE, !.data = d, !.src = s] EXCEPT !.expect = "dev1"]
              EXCEPT !.in = <<>>]
  <2>1. After = [Obey(port, b) EXCEPT !.in = <<>>]
    BY <1>AfterObeys, Zenon
  <2>2. Becomes(c, ctl.ccb, "dev1", TRUE, d)
    BY <1>AnswerFields, Zenon
  <2>3. After = c
    BY <2>1
  <2>4. QED
    BY <2>2, <2>3, Zenon
<1> SUFFICES ASSUME HwOK, ctl \in Controllers
             PROVE  AfterFact!2
  BY Zenon DEF AfterFact
<1>1. ctl.in = <<>> => After = ctl
  BY DEF After
<1>2. ctl.ccb \in Bytes /\ ctl.ccb \cup {4} \in Bytes /\ ctl.ccb \cup {5} \in Bytes
      /\ ctl.ccb \ {4} \in Bytes /\ ctl.ccb \ {5} \in Bytes
  BY DEF Controllers, Bytes
<1>3. ctl.in = <<"status", "DISABLE_1ST">> =>
        Becomes(After, Ccb(ctl.ccb \cup {4}), "dev1", ctl.full, ctl.data)
  <2>1. Obey("status", "DISABLE_1ST") = [ctl EXCEPT !.expect = "dev1", !.ccb = Ccb(ctl.ccb \cup {4})]
    BY CcbFacts, Zenon DEF Obey
  <2>2. QED
    BY <2>1, <1>2, CcbFacts, <1>AfterSets, Zenon
<1>4. ctl.in = <<"status", "DISABLE_2ND">> =>
        Becomes(After, Ccb(ctl.ccb \cup {5}), "dev1", ctl.full, ctl.data)
  <2>1. Obey("status", "DISABLE_2ND") = [ctl EXCEPT !.expect = "dev1", !.ccb = Ccb(ctl.ccb \cup {5})]
    BY CcbFacts, Zenon DEF Obey
  <2>2. QED
    BY <2>1, <1>2, CcbFacts, <1>AfterSets, Zenon
<1>5. ctl.in = <<"status", "ENABLE_1ST">> =>
        Becomes(After, Ccb(ctl.ccb \ {4}), "dev1", ctl.full, ctl.data)
  <2>1. Obey("status", "ENABLE_1ST") = [ctl EXCEPT !.expect = "dev1", !.ccb = Ccb(ctl.ccb \ {4})]
    BY CcbFacts, Zenon DEF Obey
  <2>2. QED
    BY <2>1, <1>2, CcbFacts, <1>AfterSets, Zenon
<1>6. ctl.in = <<"status", "ENABLE_2ND">> =>
        Becomes(After, Ccb(ctl.ccb \ {5}), "dev1", ctl.full, ctl.data)
  <2>1. Obey("status", "ENABLE_2ND") = [ctl EXCEPT !.expect = "dev1", !.ccb = Ccb(ctl.ccb \ {5})]
    BY CcbFacts, Zenon DEF Obey
  <2>2. QED
    BY <2>1, <1>2, CcbFacts, <1>AfterSets, Zenon
<1>7. ctl.in = <<"status", "READ_CCB">> => Becomes(After, ctl.ccb, ctl.expect, TRUE, ctl.ccb)
  <2>1. Obey("status", "READ_CCB") = [ctl EXCEPT !.full = TRUE, !.data = ctl.ccb, !.src = 0] /\ 0 \in 0 .. 2
    BY DEF Obey, Fill
  <2>2. QED
    BY <2>1, <1>2, <1>AfterFills, Zenon
<1>8. ctl.in = <<"status", "WRITE_CCB">> => Becomes(After, ctl.ccb, "ccb", ctl.full, ctl.data)
  <2>1. Obey("status", "WRITE_CCB") = [ctl EXCEPT !.expect = "ccb"]
    BY DEF Obey
  <2>2. QED
    BY <2>1, <1>AfterExpects, Zenon
<1>9. ctl.in = <<"status", "SEL_2ND">> => Becomes(After, ctl.ccb, "dev2", ctl.full, ctl.data)
  <2>1. Obey("status", "SEL_2ND") = [ctl EXCEPT !.expect = "dev2"]
    BY DEF Obey
  <2>2. QED
    BY <2>1, <1>AfterExpects, Zenon
<1>10. ctl.in = <<"status", "SELF_TEST">> =>
         Becomes(After, ctl.ccb, ctl.expect, TRUE, IF hw.self THEN PS2_SELF_TEST_SUCCESS ELSE {})
  <2> DEFINE d == IF hw.self THEN PS2_SELF_TEST_SUCCESS ELSE {}
  <2>1. Obey("status", "SELF_TEST") = [ctl EXCEPT !.full = TRUE, !.data = d, !.src = 0] /\ 0 \in 0 .. 2
    BY DEF Obey, Fill
  <2>2. d \in Bytes
    BY CcbFacts
  <2> HIDE DEF d
  <2>3. ctl.in = <<"status", "SELF_TEST">> => Becomes(After, ctl.ccb, ctl.expect, TRUE, d)
    BY <2>1, <2>2, <1>AfterFills, Zenon
  <2>4. QED
    BY <2>3, Zenon DEF d
<1>11. ctl.in = <<"status", "TEST_1ST">> =>
         Becomes(After, ctl.ccb, ctl.expect, TRUE, IF hw.dev[1] THEN {} ELSE {0})
  <2> DEFINE d == IF hw.dev[1] THEN {} ELSE {0}
  <2>1. Obey("status", "TEST_1ST") = [ctl EXCEPT !.full = TRUE, !.data = d, !.src = 0] /\ 0 \in 0 .. 2
    BY DEF Obey, Fill
  <2>2. d \in Bytes
    BY CcbFacts
  <2> HIDE DEF d
  <2>3. ctl.in = <<"status", "TEST_1ST">> => Becomes(After, ctl.ccb, ctl.expect, TRUE, d)
    BY <2>1, <2>2, <1>AfterFills, Zenon
  <2>4. QED
    BY <2>3, Zenon DEF d
<1>12. ctl.in = <<"status", "TEST_2ND">> =>
         Becomes(After, ctl.ccb, ctl.expect, TRUE, IF hw.dev[2] THEN {} ELSE {0})
  <2> DEFINE d == IF hw.dev[2] THEN {} ELSE {0}
  <2>1. Obey("status", "TEST_2ND") = [ctl EXCEPT !.full = TRUE, !.data = d, !.src = 0] /\ 0 \in 0 .. 2
    BY DEF Obey, Fill
  <2>2. d \in Bytes
    BY CcbFacts
  <2> HIDE DEF d
  <2>3. ctl.in = <<"status", "TEST_2ND">> => Becomes(After, ctl.ccb, ctl.expect, TRUE, d)
    BY <2>1, <2>2, <1>AfterFills, Zenon
  <2>4. QED
    BY <2>3, Zenon DEF d
<1>13. ASSUME NEW b \in Bytes, ctl.in = <<"data", b>>
       PROVE  /\ ctl.expect = "ccb" => Becomes(After, Ccb(b), "dev1", ctl.full, ctl.data)
              /\ ctl.expect = "dev1" => Passed(1, b)
              /\ ctl.expect = "dev2" => Passed(2, b)
  <2>1. After = [Obey("data", b) EXCEPT !.in = <<>>]
    BY <1>13, <1>AfterObeys, Zenon
  <2>2. CASE ctl.expect = "ccb"
    <3>1. Obey("data", b) = [ctl EXCEPT !.expect = "dev1", !.ccb = Ccb(b)]
      BY <2>2 DEF Obey
    <3>2. QED
      BY <3>1, <2>1, <2>2, CcbFacts, <1>SetFields, Zenon
  <2>3. CASE ctl.expect = "dev1"
    <3>1. CASE hw.dev[1] /\ b = Reset
      <4>1. Obey("data", b) = [ctl EXCEPT !.full = TRUE, !.data = PS2_RES_ACK, !.src = 1]
              /\ 1 \in 0 .. 2
        BY <3>1, <2>3 DEF Obey, Fill
      <4>2. Becomes(After, ctl.ccb, ctl.expect, TRUE, PS2_RES_ACK)
        BY <4>1, <1>13, CcbFacts, <1>AfterFills, Zenon
      <4>3. QED
        BY <4>2, <3>1, <2>3, Zenon DEF Passed
    <3>2. CASE ~(hw.dev[1] /\ b = Reset)
      <4>1. Obey("data", b) = ctl
        BY <3>2, <2>3 DEF Obey
      <4>2. Becomes(After, ctl.ccb, ctl.expect, ctl.full, ctl.data)
        BY <4>1, <2>1, <1>IgnoreFields, Zenon
      <4>3. QED
        BY <4>2, <3>2, <2>3, Zenon DEF Passed
    <3>3. QED
      BY <3>1, <3>2, <2>3
  <2>4. CASE ctl.expect = "dev2"
    <3>1. CASE hw.dev[2] /\ b = Reset
      <4>1. Obey("data", b) =
              [[ctl EXCEPT !.full = TRUE, !.data = PS2_RES_ACK, !.src = 2] EXCEPT !.expect = "dev1"]
              /\ 2 \in 0 .. 2
        BY <3>1, <2>4 DEF Obey, Fill
      <4>2. Becomes(After, ctl.ccb, "dev1", TRUE, PS2_RES_ACK)
        BY <4>1, <1>13, CcbFacts, <1>AfterAnswers, Zenon
      <4>3. QED
        BY <4>2, <3>1, <2>4, Zenon DEF Passed
    <3>2. CASE ~(hw.dev[2] /\ b = Reset)
      <4>1. Obey("data", b) = [ctl EXCEPT !.expect = "dev1"]
        BY <3>2, <2>4 DEF Obey
      <4>2. Becomes(After, ctl.ccb, "dev1", ctl.full, ctl.data)
        BY <4>1, <2>1, <1>ExpectFields, Zenon
      <4>3. QED
        BY <4>2, <3>2, <2>4, Zenon DEF Passed
    <3>3. QED
      BY <3>1, <3>2, <2>4
  <2>5. QED
    BY <2>2, <2>3, <2>4 DEF Controllers
<1>14. QED
  BY <1>1, <1>3, <1>4, <1>5, <1>6, <1>7, <1>8, <1>9, <1>10, <1>11, <1>12, <1>13, Zenon
  DEF AfterFact

\* The same of the next state.
LEMMA AfterIsNext == AfterFact'
BY AfterIs, PTL

\* Taking a byte empties the input buffer.
LEMMA AfterTyped ==
  ASSUME HwOK, ctl \in Controllers PROVE After \in Controllers /\ After.in = <<>>
<1>1. ctl.in \in Inputs /\ ctl.expect \in {"dev1", "dev2", "ccb"}
  BY DEF Controllers
<1>2. CASE ctl.in = <<>>
  BY <1>2, AfterIs, Zenon DEF AfterFact
<1>3. ASSUME NEW b \in Commands, ctl.in = <<"status", b>>
      PROVE  After \in Controllers /\ After.in = <<>>
  BY <1>3, AfterIs DEF AfterFact, Commands, Becomes
<1>4. ASSUME NEW b \in Bytes, ctl.in = <<"data", b>>
      PROVE  After \in Controllers /\ After.in = <<>>
  <2>1. /\ ctl.expect = "ccb" => Becomes(After, Ccb(b), "dev1", ctl.full, ctl.data)
        /\ ctl.expect = "dev1" => Passed(1, b)
        /\ ctl.expect = "dev2" => Passed(2, b)
    BY <1>4, AfterIs, Zenon DEF AfterFact
  <2>2. QED
    BY <2>1, <1>1, Zenon DEF Passed, Becomes
<1>5. QED
  BY <1>1, <1>2, <1>3, <1>4, InputFacts, Zenon

-----------------------------------------------------------------------------
(* The calls of ps2_send_internal.                                         *)

CallRecords ==
  [at : {"first", "data", "read"}, send : Commands \cup {NoByte}, next : Bytes \cup {NoByte},
   flags : SUBSET Flags, ms : Nat]

\* The call in progress, wherever it is.
Sends(send, next, flags) ==
  call \in CallRecords /\ call.send = send /\ call.next = next /\ call.flags = flags

\* The calls without and with an answer that ps2_init makes before it is at p.
CmdAt(p, c) ==
  <<p, c>> \in {<<"step1b", "DISABLE_1ST">>, <<"step2", "DISABLE_2ND">>, <<"step5", "ENABLE_2ND">>,
                <<"step6", "DISABLE_2ND">>, <<"step7b", "ENABLE_1ST">>, <<"step7c", "ENABLE_2ND">>}
RespAt(p, c) ==
  <<p, c>> \in {<<"step3", "READ_CCB">>, <<"step4b", "SELF_TEST">>, <<"step5b", "READ_CCB">>,
                <<"step6b", "TEST_1ST">>, <<"step6c", "TEST_2ND">>, <<"step7", "READ_CCB">>}

\* The call in progress is the one made last, and is where it can be.
Command == \E c \in Commands : CmdAt(pc, c) /\ Sends(c, NoByte, {}) /\ call.at = "first"
Question ==
  \E c \in Commands : RespAt(pc, c) /\ Sends(c, NoByte, {"RESPONSE"}) /\ call.at # "data"
Setting ==
  pc \in {"step4", "step8"} /\ Sends("WRITE_CCB", ccb, {"DOUBLE"}) /\ call.at # "read"
Reset1 == pc = "step8b" /\ Sends(NoByte, Reset, {"DATA", "RESPONSE"})
Reset2 ==
  pc = "step9" /\ Sends(NoByte, Reset, {"DATA", "RESPONSE", "SECOND"}) /\ channel_status[2] = {}
CallMade == call = NoCall \/ Command \/ Question \/ Setting \/ Reset1 \/ Reset2

\* A call that begins.
LEMMA CallBegins ==
  ASSUME NEW send \in Commands \cup {NoByte}, NEW next \in Bytes \cup {NoByte},
         NEW flags \in SUBSET Flags, call' = Call(send, next, flags)
  PROVE  Sends(send, next, flags)' /\ call'.at = "first"
<1>1. Call(send, next, flags) \in CallRecords
  BY Ps2Constants DEF Call, CallRecords
<1>2. /\ Call(send, next, flags).send = send /\ Call(send, next, flags).next = next
      /\ Call(send, next, flags).flags = flags /\ Call(send, next, flags).at = "first"
  BY DEF Call
<1>3. QED
  BY <1>1, <1>2, Zenon DEF Sends

\* A call that is over.
LEMMA CallIsOver ==
  /\ NoCall.at = "none"
  /\ \A send, next, flags :
       Sends(send, next, flags) => call # NoCall /\ call.at \in {"first", "data", "read"}
BY DEF NoCall, Sends, CallRecords

\* What a step of a call does, by the kind of the call and the point it is at.
CommandSent ==
  \E c \in Commands : /\ CmdAt(pc, c) /\ call.at = "first" /\ outb("status", c)
                      /\ call' = NoCall /\ resp' = {}
QuestionSent ==
  \E c \in Commands : /\ RespAt(pc, c) /\ call.at = "first" /\ outb("status", c)
                      /\ Sends(c, NoByte, {"RESPONSE"})' /\ call'.at = "read" /\ resp' = resp
SettingSent ==
  /\ pc \in {"step4", "step8"} /\ call.at = "first" /\ outb("status", "WRITE_CCB")
  /\ Sends("WRITE_CCB", ccb, {"DOUBLE"})' /\ call'.at = "data" /\ resp' = resp
SettingDone ==
  /\ pc \in {"step4", "step8"} /\ call.at = "data" /\ outb("data", ccb)
  /\ call' = NoCall /\ resp' = {}
Reset1Begun ==
  /\ pc = "step8b" /\ call.at = "first" /\ ctl' = ctl /\ missed' = missed
  /\ Sends(NoByte, Reset, {"DATA", "RESPONSE"})' /\ call'.at = "data" /\ resp' = resp
Reset2Begun ==
  /\ pc = "step9" /\ call.at = "first" /\ outb("status", "SEL_2ND")
  /\ Sends(NoByte, Reset, {"DATA", "RESPONSE", "SECOND"})' /\ call'.at = "data" /\ resp' = resp
Reset1Sent ==
  /\ pc = "step8b" /\ call.at = "data" /\ outb("data", Reset)
  /\ Sends(NoByte, Reset, {"DATA", "RESPONSE"})' /\ call'.at = "read" /\ resp' = resp
Reset2Sent ==
  /\ pc = "step9" /\ call.at = "data" /\ outb("data", Reset)
  /\ Sends(NoByte, Reset, {"DATA", "RESPONSE", "SECOND"})' /\ call'.at = "read" /\ resp' = resp
Answered ==
  /\ (\E c \in Commands : RespAt(pc, c)) \/ pc \in {"step8b", "step9"}
  /\ call.at = "read" /\ inb /\ missed' = (missed \/ (~ctl.full /\ ctl.in # <<>>))
  /\ resp' = ctl.data /\ call' = NoCall
Polled ==
  /\ call # NoCall /\ call'.at = call.at
  /\ \A send, next, flags : Sends(send, next, flags) => Sends(send, next, flags)'
  /\ UNCHANGED <<ctl, missed, resp>>

Others == UNCHANGED <<hw, irr, pc, ccb, channel_status, result, registered, pic, intr, noise, sent>>

\* A channel that the call needs is usable.
Usable == pc \in {"kbd", "kbd2", "ready", "step9"} \/ channel_status[1] = {}

\* Where the calls are made from.
LEMMA CallPlaces ==
  /\ \A p, c : CmdAt(p, c) \/ RespAt(p, c) => p \notin {"kbd", "kbd2", "ready", "step8b", "step9"}
  /\ 1 \in Channels /\ 2 \in Channels
BY DEF CmdAt, RespAt, Channels

-----------------------------------------------------------------------------
(* What holds however slow the controller is.                              *)

Ended == {"kbd", "kbd2", "ready"}

Machine == HwOK /\ ctl \in Controllers
Lines == irr \subseteq Channels /\ pic \subseteq Channels
Locals == resp \in Bytes /\ ccb \in Bytes

\* Channel 1 is usable until its device does not acknowledge its reset.
Statuses ==
  /\ channel_status \in [Channels -> SUBSET (0 .. 3)]
  /\ pc \notin Ended \cup {"step9"} => channel_status[1] = {}

Outcome ==
  /\ result \in {"none", "status", "SELF_TEST_FAILURE"}
  /\ pc \in Ended <=> result # "none"

\* Interrupts are off until ps2kbd_init is over.
Callbacks ==
  /\ registered \in [Channels -> [active : BOOLEAN, callback : BOOLEAN]]
  /\ intr => pc = "ready"
  /\ registered[1].active => registered[1].callback \/ pc = "kbd2"
  /\ ~registered[2].active

BaseInv == Machine /\ Lines /\ Locals /\ CallMade /\ Statuses /\ Outcome /\ Callbacks

\* Reading the data port empties the output buffer and keeps its byte.
LEMMA ReadTyped ==
  ASSUME Machine, hw' = hw, inb
  PROVE  /\ Machine'
         /\ ctl'.in = ctl.in /\ ctl'.ccb = ctl.ccb /\ ctl'.expect = ctl.expect
         /\ ctl'.full = FALSE /\ ctl'.data = ctl.data
<1>1. ctl' \in Controllers
  BY Zenon DEF Machine, Controllers, inb
<1>2. HwOK'
  BY Zenon DEF Machine, HwOK
<1>3. /\ ctl'.in = ctl.in /\ ctl'.ccb = ctl.ccb /\ ctl'.expect = ctl.expect
      /\ ctl'.full = FALSE /\ ctl'.data = ctl.data
  BY DEF Machine, Controllers, inb
<1>4. QED
  BY <1>1, <1>2, <1>3, Zenon DEF Machine

\* A byte of a device changes the buffer only.
LEMMA FilledTyped ==
  ASSUME Machine, hw' = hw, NEW n \in Channels, NEW b \in Bytes, ctl' = Fill(n, b)
  PROVE  /\ Machine'
         /\ ctl'.in = ctl.in /\ ctl'.ccb = ctl.ccb /\ ctl'.expect = ctl.expect
<1>0. n \in 0 .. 2
  BY DEF Channels
<1>1. ctl' \in Controllers
  BY <1>0, Zenon DEF Machine, Controllers, Fill
<1>2. HwOK'
  BY Zenon DEF Machine, HwOK
<1>3. ctl'.in = ctl.in /\ ctl'.ccb = ctl.ccb /\ ctl'.expect = ctl.expect
  BY DEF Machine, Controllers, Fill
<1>4. QED
  BY <1>1, <1>2, <1>3, Zenon DEF Machine

\* Taking a byte.
LEMMA TakeTyped ==
  ASSUME Machine, Take PROVE Machine' /\ ctl' = After /\ ctl'.in = <<>> /\ After' = After
<1>1. ctl' = After /\ hw' = hw
  BY Zenon DEF Take, After
<1>2. ctl' \in Controllers /\ ctl'.in = <<>>
  BY <1>1, AfterTyped, Zenon DEF Machine
<1>3. Machine'
  BY <1>1, <1>2, Zenon DEF Machine, HwOK
<1>4. After' = ctl'
  BY <1>2, Zenon DEF After
<1>5. QED
  BY <1>1, <1>2, <1>3, <1>4, Zenon

\* The requests latched are those of channels.
LEMMA LatchTyped == ASSUME NEW c, NEW d, Latch(c, d), Lines, pic' = pic PROVE Lines'
BY DEF Latch, Lines

\* What the controller does alone is not seen by the driver.
LEMMA DriverKept ==
  ASSUME Locals, CallMade, Statuses, Outcome, Callbacks, UNCHANGED drvvars
  PROVE  Locals' /\ CallMade' /\ Statuses' /\ Outcome' /\ Callbacks'
<1>1. /\ pc' = pc /\ call' = call /\ resp' = resp /\ ccb' = ccb /\ result' = result
      /\ channel_status' = channel_status /\ registered' = registered /\ intr' = intr
  BY DEF drvvars
<1>2. Locals'
  BY <1>1, Zenon DEF Locals
<1>3. CallMade'
  BY <1>1, Zenon DEF CallMade, Command, Question, Setting, Reset1, Reset2, Sends
<1>4. Statuses' /\ Outcome'
  BY <1>1, Zenon DEF Statuses, Outcome
<1>5. Callbacks'
  BY <1>1, Zenon DEF Callbacks
<1>6. QED
  BY <1>2, <1>3, <1>4, <1>5

\* The steps of the controller, the devices and the handlers.
LEMMA OutsideBase ==
  ASSUME BaseInv,
         Take \/ (\E n \in Channels : DeviceSends(n) \/ ps2_handle_interrupt(n))
  PROVE  BaseInv'
<1>1. CASE Take
  <2>1. Machine'
    BY <1>1, TakeTyped, Zenon DEF BaseInv
  <2>2. Lines'
    BY <1>1, LatchTyped, Zenon DEF BaseInv, Take, drvvars
  <2>3. UNCHANGED drvvars
    BY <1>1 DEF Take
  <2>4. QED
    BY <2>1, <2>2, <2>3, DriverKept, Zenon DEF BaseInv
<1>2. ASSUME NEW n \in Channels, DeviceSends(n) PROVE BaseInv'
  <2>1. Machine'
    <3>1. PICK b \in IF n = 1 /\ pc = "ready" THEN ScanCodes ELSE {BatPassed} : ctl' = Fill(n, b)
      BY <1>2 DEF DeviceSends
    <3>2. b \in Bytes
      BY <3>1, Ps2Constants DEF Bytes, BatPassed
    <3>3. hw' = hw
      BY <1>2 DEF DeviceSends
    <3>4. QED
      BY <3>1, <3>2, <3>3, FilledTyped, Zenon DEF BaseInv
  <2>2. Lines'
    BY <1>2, LatchTyped, Zenon DEF BaseInv, DeviceSends, drvvars
  <2>3. UNCHANGED drvvars
    BY <1>2 DEF DeviceSends
  <2>4. QED
    BY <2>1, <2>2, <2>3, DriverKept, Zenon DEF BaseInv
<1>3. ASSUME NEW n \in Channels, ps2_handle_interrupt(n) PROVE BaseInv'
  <2>1. inb /\ hw' = hw /\ UNCHANGED drvvars /\ irr' = irr \ {n}
    BY <1>3 DEF ps2_handle_interrupt
  <2>2. Machine'
    BY <2>1, ReadTyped, Zenon DEF BaseInv
  <2>3. Lines'
    BY <2>1 DEF BaseInv, Lines, drvvars
  <2>4. QED
    BY <2>1, <2>2, <2>3, DriverKept, Zenon DEF BaseInv
<1>4. QED
  BY <1>1, <1>2, <1>3

CallEffect ==
  \/ CommandSent \/ QuestionSent \/ SettingSent \/ SettingDone \/ Reset1Begun \/ Reset2Begun
  \/ Reset1Sent \/ Reset2Sent \/ Answered \/ Polled

\* A step of a call has one of the effects.
LEMMA CallSteps ==
  ASSUME BaseInv, SendFirst \/ Poll \/ SendData \/ SendRead
  PROVE  CallEffect /\ Others
\* A call that goes on.
<1>CallGoesOn. ASSUME NEW send, NEW next, NEW flags, Sends(send, next, flags),
                      NEW a \in {"first", "data", "read"}, NEW m \in Nat,
                      \/ call' = [call EXCEPT !.at = a, !.ms = m]
                      \/ call' = [call EXCEPT !.at = a]
                      \/ call' = [call EXCEPT !.ms = m] /\ a = call.at
               PROVE  Sends(send, next, flags)' /\ call'.at = a
  <2> USE <1>CallGoesOn
  <2> USE DEF CallRecords, Sends
  <2>1. CASE call' = [call EXCEPT !.at = a, !.ms = m]
    <3>1. call' \in CallRecords
      BY <2>1, Zenon
    <3>2. QED
      BY <2>1, <3>1
  <2>2. CASE call' = [call EXCEPT !.at = a]
    <3>1. call' \in CallRecords
      BY <2>2, Zenon
    <3>2. QED
      BY <2>2, <3>1
  <2>3. CASE call' = [call EXCEPT !.ms = m] /\ a = call.at
    <3>1. call' \in CallRecords
      BY <2>3, Zenon
    <3>2. QED
      BY <2>3, <3>1
  <2>4. QED
    BY <2>1, <2>2, <2>3
\* The flags of the calls ps2_init makes, as ps2_send tests them.
<1>FlagFacts. /\ \A f \in {{}, {"RESPONSE"}, {"DOUBLE"}} :
                   "DATA" \notin f /\ "SECOND" \notin f /\ f \intersect {"DATA", "SECOND"} # {"DATA"}
              /\ \A f \in {{}, {"RESPONSE"}} : f \intersect {"SECOND", "DOUBLE"} = {}
              /\ {"DOUBLE"} \intersect {"SECOND", "DOUBLE"} # {}
              /\ {"DATA", "RESPONSE"} \intersect {"DATA", "SECOND"} = {"DATA"}
              /\ {"DATA", "RESPONSE", "SECOND"} \intersect {"DATA", "SECOND"} # {"DATA"}
              /\ {"DATA", "RESPONSE", "SECOND"} \intersect {"SECOND", "DOUBLE"} # {}
              /\ "RESPONSE" \notin {} /\ "RESPONSE" \notin {"DOUBLE"}
  OBVIOUS
\* The first step of a call.
<1>FirstStep. ASSUME CallMade, Usable, SendFirst
              PROVE  CommandSent \/ QuestionSent \/ SettingSent \/ Reset1Begun \/ Reset2Begun
  <2> USE <1>FirstStep
  <2>1. CASE call = NoCall
    BY <2>1, CallIsOver DEF SendFirst
  <2>2. CASE Command
    <3>1. PICK c \in Commands : CmdAt(pc, c) /\ Sends(c, NoByte, {})
      BY <2>2 DEF Command
    <3>2. call.flags = {} /\ call.send = c
      BY <3>1 DEF Sends
    <3>3. ~Unusable
      BY <3>1, <3>2, CallPlaces, <1>FlagFacts DEF Unusable, Usable
    <3>4. outb("status", c) /\ Written
      BY <3>2, <3>3, <1>FlagFacts DEF SendFirst
    <3>5. QED
      <4>1. call' = NoCall /\ resp' = {} /\ call.at = "first"
        BY <3>2, <3>4, <1>FlagFacts, Zenon DEF Written, SendFirst
      <4>2. QED
        BY <3>1, <3>4, <4>1, Zenon DEF CommandSent
  <2>3. CASE Question
    <3>1. PICK c \in Commands : RespAt(pc, c) /\ Sends(c, NoByte, {"RESPONSE"})
      BY <2>3 DEF Question
    <3>2. call.flags = {"RESPONSE"} /\ call.send = c
      BY <3>1 DEF Sends
    <3>3. ~Unusable
      BY <3>1, <3>2, CallPlaces, <1>FlagFacts DEF Unusable, Usable
    <3>4. outb("status", c) /\ Written
      BY <3>2, <3>3, <1>FlagFacts DEF SendFirst
    <3>5. call' = [call EXCEPT !.at = "read", !.ms = PS2_TO_DEFAULT] /\ resp' = resp
      BY <3>2, <3>4 DEF Written
    <3>6. Sends(c, NoByte, {"RESPONSE"})' /\ call'.at = "read"
      BY <3>1, <3>5, Ps2Constants, <1>CallGoesOn, Zenon
    <3>7. QED
      BY <3>1, <3>4, <3>5, <3>6 DEF QuestionSent, SendFirst
  <2>4. CASE Setting
    <3>1. Sends("WRITE_CCB", ccb, {"DOUBLE"}) /\ pc \in {"step4", "step8"}
      BY <2>4 DEF Setting
    <3>2. call.flags = {"DOUBLE"} /\ call.send = "WRITE_CCB"
      BY <3>1 DEF Sends
    <3>3. ~Unusable
      BY <3>1, <3>2, CallPlaces, <1>FlagFacts DEF Unusable, Usable
    <3>4. outb("status", "WRITE_CCB") /\ call' = [call EXCEPT !.at = "data"] /\ resp' = resp
      BY <3>2, <3>3, <1>FlagFacts DEF SendFirst
    <3>5. Sends("WRITE_CCB", ccb, {"DOUBLE"})' /\ call'.at = "data"
      <4>1. PICK x : x = ccb
        OBVIOUS
      <4>2. Sends("WRITE_CCB", x, {"DOUBLE"})' /\ call'.at = "data"
        BY <3>1, <3>4, <4>1, Ps2Constants, <1>CallGoesOn, Zenon
      <4>3. ccb' = x
        BY <4>1 DEF SendFirst
      <4>4. QED
        BY <4>2, <4>3 DEF Sends
    <3>6. QED
      BY <3>1, <3>4, <3>5 DEF SettingSent, SendFirst
  <2>5. CASE Reset1
    <3>1. pc = "step8b" /\ Sends(NoByte, Reset, {"DATA", "RESPONSE"})
      BY <2>5 DEF Reset1
    <3>2. call.flags = {"DATA", "RESPONSE"}
      BY <3>1 DEF Sends
    <3>3. ~Unusable
      BY <3>1, <3>2 DEF Unusable, Usable
    <3>4. ctl' = ctl /\ missed' = missed /\ call' = [call EXCEPT !.at = "data"] /\ resp' = resp
      BY <3>2, <3>3, <1>FlagFacts DEF SendFirst
    <3>5. Sends(NoByte, Reset, {"DATA", "RESPONSE"})' /\ call'.at = "data"
      BY <3>1, <3>4, Ps2Constants, <1>CallGoesOn, Zenon
    <3>6. QED
      BY <3>1, <3>4, <3>5 DEF Reset1Begun, SendFirst
  <2>6. CASE Reset2
    <3>1. /\ pc = "step9" /\ Sends(NoByte, Reset, {"DATA", "RESPONSE", "SECOND"})
          /\ channel_status[2] = {}
      BY <2>6 DEF Reset2
    <3>2. call.flags = {"DATA", "RESPONSE", "SECOND"}
      BY <3>1 DEF Sends
    <3>3. ~Unusable
      BY <3>1, <3>2 DEF Unusable
    <3>4. outb("status", "SEL_2ND") /\ call' = [call EXCEPT !.at = "data"] /\ resp' = resp
      BY <3>2, <3>3, <1>FlagFacts DEF SendFirst
    <3>5. Sends(NoByte, Reset, {"DATA", "RESPONSE", "SECOND"})' /\ call'.at = "data"
      BY <3>1, <3>4, Ps2Constants, <1>CallGoesOn, Zenon
    <3>6. QED
      BY <3>1, <3>4, <3>5 DEF Reset2Begun, SendFirst
  <2>7. QED
    BY <2>1, <2>2, <2>3, <2>4, <2>5, <2>6 DEF CallMade
\* The second byte of a call.
<1>DataStep. ASSUME CallMade, SendData PROVE SettingDone \/ Reset1Sent \/ Reset2Sent
  <2> USE <1>DataStep
  <2>1. call.at = "data" /\ outb("data", call.next) /\ Written
    BY DEF SendData
  <2>2. CASE call = NoCall \/ Command \/ Question
    BY <2>1, <2>2, CallIsOver DEF Command, Question
  <2>3. CASE Setting
    <3>1. pc \in {"step4", "step8"} /\ call.flags = {"DOUBLE"} /\ call.next = ccb
      BY <2>3 DEF Setting, Sends
    <3>2. call' = NoCall /\ resp' = {}
      BY <2>1, <3>1, <1>FlagFacts DEF Written
    <3>3. QED
      BY <2>1, <3>1, <3>2 DEF SettingDone
  <2>4. CASE Reset1
    <3>1. pc = "step8b" /\ Sends(NoByte, Reset, {"DATA", "RESPONSE"})
      BY <2>4 DEF Reset1
    <3>2. call.flags = {"DATA", "RESPONSE"} /\ call.next = Reset
      BY <3>1 DEF Sends
    <3>3. call' = [call EXCEPT !.at = "read", !.ms = PS2_TO_DEFAULT] /\ resp' = resp
      BY <2>1, <3>2 DEF Written
    <3>4. Sends(NoByte, Reset, {"DATA", "RESPONSE"})' /\ call'.at = "read"
      BY <3>1, <3>3, Ps2Constants, <1>CallGoesOn, Zenon
    <3>5. QED
      BY <2>1, <3>1, <3>2, <3>3, <3>4 DEF Reset1Sent
  <2>5. CASE Reset2
    <3>1. pc = "step9" /\ Sends(NoByte, Reset, {"DATA", "RESPONSE", "SECOND"})
      BY <2>5 DEF Reset2
    <3>2. call.flags = {"DATA", "RESPONSE", "SECOND"} /\ call.next = Reset
      BY <3>1 DEF Sends
    <3>3. call' = [call EXCEPT !.at = "read", !.ms = PS2_TO_DEFAULT] /\ resp' = resp
      BY <2>1, <3>2 DEF Written
    <3>4. Sends(NoByte, Reset, {"DATA", "RESPONSE", "SECOND"})' /\ call'.at = "read"
      BY <3>1, <3>3, Ps2Constants, <1>CallGoesOn, Zenon
    <3>5. QED
      BY <2>1, <3>1, <3>2, <3>3, <3>4 DEF Reset2Sent
  <2>6. QED
    BY <2>2, <2>3, <2>4, <2>5 DEF CallMade
\* The answer to a call.
<1>ReadStep. ASSUME CallMade, SendRead PROVE Answered
  <2> USE <1>ReadStep
  <2>1. call.at = "read"
    BY DEF SendRead
  <2>2. ~(call = NoCall) /\ ~Command /\ ~Setting
    BY <2>1, CallIsOver DEF Command, Setting
  <2>3. (\E c \in Commands : RespAt(pc, c)) \/ pc \in {"step8b", "step9"}
    BY <2>2 DEF CallMade, Question, Reset1, Reset2
  <2>4. QED
    BY <2>1, <2>3 DEF SendRead, Answered
\* A round of a wait.
<1>PollStep. ASSUME CallMade, Poll PROVE Polled
  <2> USE <1>PollStep
  <2>1. call # NoCall /\ call \in CallRecords
    <3>1. call = NoCall \/ call \in CallRecords
      BY DEF CallMade, Command, Question, Setting, Reset1, Reset2, Sends
    <3>2. call # NoCall
      BY CallIsOver DEF Poll, Busy
    <3>3. QED
      BY <3>1, <3>2
  <2>2. call.at \in {"first", "data", "read"} /\ call.ms \in Nat
    BY <2>1 DEF CallRecords
  <2>3. call.ms - 1 \in Nat
    BY <2>2 DEF Poll
  <2>4. call' = [call EXCEPT !.ms = call.ms - 1]
    BY DEF Poll
  <2>5. ASSUME NEW send, NEW next, NEW flags, Sends(send, next, flags)
        PROVE  Sends(send, next, flags)'
    BY <2>2, <2>3, <2>4, <2>5, <1>CallGoesOn, Zenon
  <2>6. call'.at = call.at
    BY <2>1, <2>4 DEF CallRecords
  <2>7. QED
    BY <2>1, <2>5, <2>6, Zenon DEF Polled, Poll
<1>1. Usable
  BY DEF Usable, BaseInv, Statuses, Ended
<1>2. CallMade
  BY DEF BaseInv
<1>3. CASE SendFirst
  BY <1>1, <1>2, <1>3, <1>FirstStep, Zenon DEF SendFirst, Others, CallEffect
<1>4. CASE Poll
  BY <1>1, <1>2, <1>4, <1>PollStep, Zenon DEF Poll, Others, CallEffect
<1>5. CASE SendData
  BY <1>1, <1>2, <1>5, <1>DataStep, Zenon DEF SendData, Others, CallEffect
<1>6. CASE SendRead
  BY <1>1, <1>2, <1>6, <1>ReadStep, Zenon DEF SendRead, Others, CallEffect
<1>7. QED
  BY <1>3, <1>4, <1>5, <1>6

\* A byte is written.
LEMMA OutTyped ==
  ASSUME Machine, hw' = hw, NEW p, NEW b, outb(p, b), <<p, b>> \in Inputs
  PROVE  /\ Machine'
         /\ ctl'.in = <<p, b>> /\ ctl'.ccb = ctl.ccb /\ ctl'.expect = ctl.expect
         /\ ctl'.full = ctl.full /\ ctl'.data = ctl.data
\* The controller after a byte was written to it, read from it, or put into it.
<1>WrittenTyped. ASSUME Machine, hw' = hw, NEW x \in Inputs, ctl' = [ctl EXCEPT !.in = x]
                 PROVE  /\ Machine'
                        /\ ctl'.in = x /\ ctl'.ccb = ctl.ccb /\ ctl'.expect = ctl.expect
                        /\ ctl'.full = ctl.full /\ ctl'.data = ctl.data
  <2> USE <1>WrittenTyped
  <2>1. ctl' \in Controllers
    BY Zenon DEF Machine, Controllers
  <2>2. HwOK'
    BY Zenon DEF Machine, HwOK
  <2>3. /\ ctl'.in = x /\ ctl'.ccb = ctl.ccb /\ ctl'.expect = ctl.expect
        /\ ctl'.full = ctl.full /\ ctl'.data = ctl.data
    BY DEF Machine, Controllers
  <2>4. QED
    BY <2>1, <2>2, <2>3, Zenon DEF Machine
<1> QED
  BY <1>WrittenTyped, Zenon DEF outb

\* The commands the driver sends.
LEMMA CommandFacts ==
  /\ "WRITE_CCB" \in Commands /\ "SEL_2ND" \in Commands /\ "READ_CCB" \in Commands
  /\ "DISABLE_1ST" \in Commands /\ "DISABLE_2ND" \in Commands /\ "ENABLE_1ST" \in Commands
  /\ "ENABLE_2ND" \in Commands /\ "SELF_TEST" \in Commands /\ "TEST_1ST" \in Commands
  /\ "TEST_2ND" \in Commands
BY DEF Commands

\* A step of ps2_send, whatever the controller has done so far, keeps the base
\* invariant.
LEMMA CallBase ==
  ASSUME BaseInv, CallEffect, Others PROVE BaseInv'
<1>1. Machine /\ hw' = hw /\ resp \in Bytes /\ ccb \in Bytes
  BY Zenon DEF BaseInv, Others, Locals
<1>2. Lines' /\ Statuses' /\ Outcome' /\ Callbacks'
  BY Zenon DEF BaseInv, Others, Lines, Statuses, Outcome, Callbacks
<1>3. SUFFICES Machine' /\ resp' \in Bytes /\ CallMade'
  <2>1. Locals'
    BY <1>1, <1>3, Zenon DEF Locals, Others
  <2>2. QED
    BY <1>2, <1>3, <2>1, Zenon DEF BaseInv
<1>4. CASE CommandSent
  BY <1>4, <1>1, OutTyped, InputFacts, CcbFacts, Zenon DEF CommandSent, CallMade
<1>5. CASE QuestionSent
  <2>1. PICK c \in Commands :
          /\ RespAt(pc, c) /\ outb("status", c)
          /\ Sends(c, NoByte, {"RESPONSE"})' /\ call'.at = "read" /\ resp' = resp
    BY <1>5, Zenon DEF QuestionSent
  <2>2. Question'
    BY <2>1 DEF Question, Others
  <2>3. QED
    BY <2>1, <2>2, <1>1, OutTyped, InputFacts, Zenon DEF CallMade
<1>6. CASE SettingSent
  <2>1. Setting'
    BY <1>6 DEF SettingSent, Setting, Others, Sends
  <2>2. QED
    BY <1>6, <2>1, <1>1, OutTyped, InputFacts, CommandFacts, Zenon DEF CallMade, SettingSent
<1>7. CASE SettingDone
  BY <1>7, <1>1, OutTyped, InputFacts, CcbFacts, Zenon DEF SettingDone, CallMade
<1>8. CASE Reset1Begun
  <2>1. Reset1'
    BY <1>8 DEF Reset1Begun, Reset1, Others
  <2>2. QED
    BY <1>8, <2>1, <1>1, Zenon DEF CallMade, Reset1Begun, Machine, HwOK
<1>9. CASE Reset2Begun
  <2>1. channel_status[2] = {}
    BY <1>9, CallIsOver DEF Reset2Begun, BaseInv, CallMade, Command, Question, Setting, Reset1,
                            Reset2, CmdAt, RespAt
  <2>2. Reset2'
    BY <1>9, <2>1 DEF Reset2Begun, Reset2, Others
  <2>3. QED
    BY <1>9, <2>2, <1>1, OutTyped, InputFacts, CommandFacts, Zenon DEF CallMade, Reset2Begun
<1>10. CASE Reset1Sent
  <2>1. Reset1'
    BY <1>10 DEF Reset1Sent, Reset1, Others
  <2>2. QED
    BY <1>10, <2>1, <1>1, OutTyped, InputFacts, CcbFacts, Zenon DEF CallMade, Reset1Sent
<1>11. CASE Reset2Sent
  <2>1. channel_status[2] = {}
    BY <1>11, CallIsOver DEF Reset2Sent, BaseInv, CallMade, Command, Question, Setting, Reset1,
                             Reset2, CmdAt, RespAt
  <2>2. Reset2'
    BY <1>11, <2>1 DEF Reset2Sent, Reset2, Others
  <2>3. QED
    BY <1>11, <2>2, <1>1, OutTyped, InputFacts, CcbFacts, Zenon DEF CallMade, Reset2Sent
<1>12. CASE Answered
  <2>1. ctl.data \in Bytes
    BY <1>1 DEF Machine, Controllers
  <2>2. QED
    BY <1>12, <2>1, <1>1, ReadTyped, Zenon DEF Answered, CallMade
<1>13. CASE Polled
  <2>1. Command \/ Question \/ Setting \/ Reset1 \/ Reset2
    BY <1>13 DEF Polled, BaseInv, CallMade
  <2>2. CallMade'
    <3>1. CASE Command
      <4>1. Command'
        BY <3>1, <1>13 DEF Polled, Command, Others
      <4>2. QED
        BY <4>1 DEF CallMade
    <3>2. CASE Question
      <4>1. Question'
        BY <3>2, <1>13 DEF Polled, Question, Others
      <4>2. QED
        BY <4>1 DEF CallMade
    <3>3. CASE Setting
      <4>1. Sends("WRITE_CCB", ccb, {"DOUBLE"})'
        BY <3>3, <1>13 DEF Polled, Setting, Others, Sends
      <4>2. Setting'
        BY <3>3, <4>1, <1>13 DEF Polled, Setting, Others
      <4>3. QED
        BY <4>2 DEF CallMade
    <3>4. CASE Reset1
      <4>1. Reset1'
        BY <3>4, <1>13 DEF Polled, Reset1, Others
      <4>2. QED
        BY <4>1 DEF CallMade
    <3>5. CASE Reset2
      <4>1. Reset2'
        BY <3>5, <1>13 DEF Polled, Reset2, Others
      <4>2. QED
        BY <4>1 DEF CallMade
    <3>6. QED
      BY <2>1, <3>1, <3>2, <3>3, <3>4, <3>5
  <2>3. QED
    BY <1>13, <2>2, <1>1, Zenon DEF Polled, Machine, HwOK
<1>14. QED
  BY <1>4, <1>5, <1>6, <1>7, <1>8, <1>9, <1>10, <1>11, <1>12, <1>13 DEF CallEffect

\* ps2_init makes a call.
LEMMA PlaceFacts ==
  /\ CmdAt("step1b", "DISABLE_1ST") /\ CmdAt("step2", "DISABLE_2ND")
  /\ CmdAt("step5", "ENABLE_2ND") /\ CmdAt("step6", "DISABLE_2ND")
  /\ CmdAt("step7b", "ENABLE_1ST") /\ CmdAt("step7c", "ENABLE_2ND")
  /\ RespAt("step3", "READ_CCB") /\ RespAt("step4b", "SELF_TEST") /\ RespAt("step5b", "READ_CCB")
  /\ RespAt("step6b", "TEST_1ST") /\ RespAt("step6c", "TEST_2ND") /\ RespAt("step7", "READ_CCB")
BY DEF CmdAt, RespAt

\* The call of ps2_send_cmd at a step that sends a command.
LEMMA MakesCommand ==
  ASSUME NEW p, NEW c \in Commands, CmdAt(p, c), pc' = p, call' = ps2_send_cmd(c)
  PROVE  CallMade' /\ call'.at = "first"
<1>1. {} \in SUBSET Flags
  OBVIOUS
<1>2. Sends(c, NoByte, {})' /\ call'.at = "first"
  BY <1>1, CallBegins, Zenon DEF ps2_send_cmd
<1>3. QED
  BY <1>2, Zenon DEF CallMade, Command

\* The call of ps2_send_cmd_resp at a step that asks the controller.
LEMMA MakesQuestion ==
  ASSUME NEW p, NEW c \in Commands, RespAt(p, c), pc' = p, call' = ps2_send_cmd_resp(c)
  PROVE  CallMade' /\ call'.at = "first"
<1>1. {"RESPONSE"} \in SUBSET Flags
  BY DEF Flags
<1>2. Sends(c, NoByte, {"RESPONSE"})' /\ call'.at = "first"
  BY <1>1, CallBegins, Zenon DEF ps2_send_cmd_resp
<1>3. Question'
  BY <1>2 DEF Question
<1>4. QED
  BY <1>2, <1>3, Zenon DEF CallMade

\* The call of ps2_send_cmd_double that writes the configuration byte.
LEMMA MakesSetting ==
  ASSUME pc' \in {"step4", "step8"}, NEW b \in Bytes, ccb' = b,
         call' = ps2_send_cmd_double("WRITE_CCB", b)
  PROVE  CallMade' /\ call'.at = "first"
<1>1. {"DOUBLE"} \in SUBSET Flags
  BY DEF Flags
<1>2. Sends("WRITE_CCB", b, {"DOUBLE"})' /\ call'.at = "first"
  BY <1>1, CommandFacts, CallBegins, Zenon DEF ps2_send_cmd_double
<1>3. Setting'
  BY <1>2 DEF Setting, Sends
<1>4. QED
  BY <1>2, <1>3, Zenon DEF CallMade

\* The call that resets the first device.
LEMMA MakesReset1 ==
  ASSUME pc' = "step8b", call' = ps2_send_data_response(Reset)
  PROVE  CallMade' /\ call'.at = "first"
<1>1. {"DATA", "RESPONSE"} \in SUBSET Flags
  BY DEF Flags
<1>2. Sends(NoByte, Reset, {"DATA", "RESPONSE"})' /\ call'.at = "first"
  BY <1>1, CcbFacts, CallBegins, Zenon DEF ps2_send_data_response
<1>3. QED
  BY <1>2, Zenon DEF CallMade, Reset1

\* The call that resets the second device, made when its channel is in use.
LEMMA MakesReset2 ==
  ASSUME pc' = "step9", call' = ps2_send_data_response_second(Reset), channel_status'[2] = {}
  PROVE  CallMade' /\ call'.at = "first"
<1>1. {"DATA", "RESPONSE", "SECOND"} \in SUBSET Flags
  BY DEF Flags
<1>2. Sends(NoByte, Reset, {"DATA", "RESPONSE", "SECOND"})' /\ call'.at = "first"
  BY <1>1, CcbFacts, CallBegins, Zenon DEF ps2_send_data_response_second
<1>3. QED
  BY <1>2, Zenon DEF CallMade, Reset2

\* No call returns an error.
LEMMA NeverFails == ASSUME Locals PROVE ~Failed /\ Low(resp) = resp
<1>1. resp \subseteq 0 .. 7
  BY DEF Locals, Bytes
<1>2. 15 \notin 0 .. 7
  OBVIOUS
<1>3. QED
  BY <1>1, <1>2, Zenon DEF Failed, Low

\* What steps of ps2_init that leave the controller alone keep.
LEMMA StillBase ==
  ASSUME BaseInv, Still PROVE Machine' /\ Lines' /\ registered' = registered /\ intr' = intr
BY Zenon DEF BaseInv, Still, Quiet, Machine, HwOK, Lines

\* The steps of ps2_init leave the callbacks alone.
LEMMA StillCallbacks ==
  ASSUME BaseInv, Still, pc \notin {"kbd2", "ready"} PROVE Callbacks'
<1>1. ~intr /\ (registered[1].active => registered[1].callback) /\ ~registered[2].active
  BY DEF BaseInv, Callbacks
<1>2. registered' = registered /\ intr' = intr
  BY StillBase
<1>3. QED
  BY <1>1, <1>2, Zenon DEF BaseInv, Callbacks

\* A step that only makes a call, from one place before the end to another.
LEMMA CallsBase ==
  ASSUME BaseInv, NEW p, NEW q, NEW c, Calls(p, q, c), CallMade',
         p \notin Ended \cup {"step9"}, q \notin Ended
  PROVE  BaseInv'
<1>1. /\ pc = p /\ pc' = q /\ Still /\ result' = result /\ resp' = resp /\ ccb' = ccb
      /\ channel_status' = channel_status
  BY DEF Calls, At, Goto
<1>2. Machine' /\ Lines'
  BY <1>1, StillBase
<1>3. Callbacks'
  BY <1>1, StillCallbacks DEF Ended
<1>4. Locals'
  BY <1>1, Zenon DEF BaseInv, Locals
<1>5. Statuses' /\ Outcome'
  BY <1>1 DEF BaseInv, Statuses, Outcome
<1>6. QED
  BY <1>2, <1>3, <1>4, <1>5, Zenon DEF BaseInv

\* The steps of ps2_init that only make a call.
LEMMA CallsSteps ==
  ASSUME BaseInv,
         \/ DisableSecond \/ SelfTest \/ ReadBack \/ TestFirst \/ WriteCcb \/ ResetFirst
  PROVE  BaseInv' /\ (call' = NoCall \/ call'.at = "first")
<1>1. CASE DisableSecond
  <2>1. CallMade' /\ call'.at = "first"
    BY <1>1, MakesCommand, PlaceFacts, CommandFacts, Zenon DEF DisableSecond, Calls, Goto
  <2>2. QED
    BY <1>1, <2>1, CallsBase DEF DisableSecond, Ended
<1>2. CASE SelfTest
  <2>1. CallMade' /\ call'.at = "first"
    BY <1>2, MakesQuestion, PlaceFacts, CommandFacts, Zenon DEF SelfTest, Calls, Goto
  <2>2. QED
    BY <1>2, <2>1, CallsBase DEF SelfTest, Ended
<1>3. CASE ReadBack
  <2>1. CallMade' /\ call'.at = "first"
    BY <1>3, MakesQuestion, PlaceFacts, CommandFacts, Zenon DEF ReadBack, Calls, Goto
  <2>2. QED
    BY <1>3, <2>1, CallsBase DEF ReadBack, Ended
<1>4. CASE TestFirst
  <2>1. CallMade' /\ call'.at = "first"
    BY <1>4, MakesQuestion, PlaceFacts, CommandFacts, Zenon DEF TestFirst, Calls, Goto
  <2>2. QED
    BY <1>4, <2>1, CallsBase DEF TestFirst, Ended
<1>5. CASE WriteCcb
  <2>1. pc' = "step8" /\ ccb' = ccb /\ call' = ps2_send_cmd_double("WRITE_CCB", ccb)
    BY <1>5 DEF WriteCcb, Calls, Goto
  <2>2. PICK b \in Bytes : b = ccb
    BY DEF BaseInv, Locals
  <2>3. CallMade' /\ call'.at = "first"
    BY <2>1, <2>2, MakesSetting
  <2>4. QED
    BY <1>5, <2>3, CallsBase DEF WriteCcb, Ended
<1>6. CASE ResetFirst
  <2>1. channel_status[1] = {}
    BY <1>6 DEF ResetFirst, Calls, At, BaseInv, Statuses, Ended
  <2>2. Calls("step8", "step8b", ps2_send_data_response(Reset))
    BY <1>6, <2>1, Zenon DEF ResetFirst
  <2>3. CallMade' /\ call'.at = "first"
    BY <2>2, MakesReset1, Zenon DEF Calls, Goto
  <2>4. QED
    BY <2>2, <2>3, CallsBase DEF Ended
<1>7. QED
  BY <1>1, <1>2, <1>3, <1>4, <1>5, <1>6

\* The steps of ps2_init that look at an answer, when no call fails.
ClearsCcb ==
  /\ At("step3") /\ Still
  /\ ccb' = resp \ {0, 1, 6} /\ channel_status' = channel_status
  /\ Goto("step4", ps2_send_cmd_double("WRITE_CCB", resp \ {0, 1, 6}))
SelfTestPassed ==
  /\ At("step4b") /\ Still /\ resp = PS2_SELF_TEST_SUCCESS
  /\ Goto("step5", ps2_send_cmd("ENABLE_2ND")) /\ UNCHANGED <<ccb, channel_status>>
SelfTestFailed ==
  /\ At("step4b") /\ Still /\ resp # PS2_SELF_TEST_SUCCESS
  /\ Returns("SELF_TEST_FAILURE") /\ channel_status' = [n \in Channels |-> {0}]
OneChannel ==
  /\ At("step5b") /\ Still /\ 5 \in resp
  /\ Goto("step6", NoCall) /\ ccb' = ccb
  /\ channel_status' = [n \in Channels |-> IF n = 2 THEN {2} ELSE {}]
TwoChannels ==
  /\ At("step5b") /\ Still /\ 5 \notin resp
  /\ Goto("step6", ps2_send_cmd("DISABLE_2ND")) /\ UNCHANGED <<ccb, channel_status>>
TestsSecond ==
  /\ At("step6b") /\ Still /\ UNCHANGED <<ccb, channel_status>>
  /\ Goto("step6c", IF channel_status[2] = {} THEN ps2_send_cmd_resp("TEST_2ND") ELSE NoCall)
IsTested ==
  /\ At("step6c") /\ Still /\ UNCHANGED <<ccb, channel_status>>
  /\ Goto("step7", ps2_send_cmd_resp("READ_CCB"))
EnablesFirst ==
  /\ At("step7") /\ Still /\ ccb' = resp \cup {0} /\ channel_status' = channel_status
  /\ Goto("step7b", ps2_send_cmd("ENABLE_1ST"))
EnablesSecond ==
  /\ At("step7b") /\ Still /\ channel_status' = channel_status
  /\ ccb' = IF channel_status[2] = {} THEN ccb \cup {1} ELSE ccb
  /\ Goto("step7c", IF channel_status[2] = {} THEN ps2_send_cmd("ENABLE_2ND") ELSE NoCall)

\* The steps of ps2_init that test a byte they have read, branch by branch.
LEMMA CheckSteps ==
  ASSUME BaseInv
  PROVE  /\ ClearCcb => ClearsCcb
         /\ SelfTested => SelfTestPassed \/ SelfTestFailed
         /\ CountChannels => OneChannel \/ TwoChannels
         /\ TestSecond => TestsSecond
         /\ Tested => IsTested
         /\ EnableFirst => EnablesFirst
         /\ EnableSecond => EnablesSecond
<1>1. ~Failed /\ Low(resp) = resp
  BY NeverFails DEF BaseInv
<1>2. channel_status \in [Channels -> SUBSET (0 .. 3)] /\ 1 \in Channels /\ 2 \in Channels
  BY CallPlaces DEF BaseInv, Statuses
<1>3. pc \in {"step6b", "step6c", "step7"} => channel_status[1] = {}
  BY DEF BaseInv, Statuses, Ended
<1>4. ClearCcb => ClearsCcb
  BY <1>1, CcbFacts, Zenon DEF ClearCcb, ClearsCcb
<1>5. SelfTested => SelfTestPassed \/ SelfTestFailed
  BY <1>1, Zenon DEF SelfTested, SelfTestPassed, SelfTestFailed
<1>6. CountChannels => OneChannel \/ TwoChannels
  BY <1>1, CcbFacts, Zenon DEF CountChannels, OneChannel, TwoChannels
<1>7. TestSecond => TestsSecond
  <2> SUFFICES ASSUME TestSecond PROVE TestsSecond
    OBVIOUS
  <2>1. channel_status' = [channel_status EXCEPT ![1] = channel_status[1]]
    BY <1>1, Zenon DEF TestSecond
  <2>2. channel_status' = channel_status
    BY <2>1, <1>2
  <2>3. QED
    BY <2>2, Zenon DEF TestSecond, TestsSecond
<1>8. Tested => IsTested
  <2> SUFFICES ASSUME Tested PROVE IsTested
    OBVIOUS
  <2>1. channel_status' = [channel_status EXCEPT ![2] = channel_status[2]]
    BY <1>1, Zenon DEF Tested
  <2>2. channel_status' = channel_status
    BY <2>1, <1>2
  <2>3. ~(\A n \in Channels : channel_status'[n] # {})
    BY <2>2, <1>2, <1>3 DEF Tested, At
  <2>4. QED
    BY <2>2, <2>3, Zenon DEF Tested, IsTested
<1>9. EnableFirst => EnablesFirst
  <2> SUFFICES ASSUME EnableFirst PROVE EnablesFirst
    OBVIOUS
  <2>1. At("step7") /\ Still /\ EnableChannel(1, resp, "step7b", "ENABLE_1ST")
    BY <1>1, Zenon DEF EnableFirst
  <2>2. channel_status[1] = {}
    BY <1>3, <2>1 DEF At
  <2>3. QED
    BY <2>1, <2>2, CcbFacts, Zenon DEF EnableChannel, EnablesFirst
<1>10. EnableSecond => EnablesSecond
  BY CcbFacts, Zenon DEF EnableSecond, EnableChannel, EnablesSecond
<1>11. QED
  BY <1>4, <1>5, <1>6, <1>7, <1>8, <1>9, <1>10

\* A step from one place of ps2_init to another.
LEMMA GotoBase ==
  ASSUME BaseInv, Still, NEW q, NEW c, Goto(q, c), pc \notin Ended, q \notin Ended,
         ccb' \in Bytes, channel_status' \in [Channels -> SUBSET (0 .. 3)],
         q = "step9" \/ channel_status'[1] = {}, CallMade'
  PROVE  BaseInv'
<1>1. pc' = q /\ result' = result /\ resp' = resp
  BY DEF Goto
<1>2. Machine' /\ Lines'
  BY StillBase
<1>3. Callbacks'
  BY StillCallbacks DEF Ended
<1>4. Locals'
  BY <1>1, Zenon DEF BaseInv, Locals
<1>5. Statuses' /\ Outcome'
  BY <1>1 DEF BaseInv, Statuses, Outcome
<1>6. QED
  BY <1>2, <1>3, <1>4, <1>5, Zenon DEF BaseInv

\* Steps 3 to 7 of ps2_init.
LEMMA ChecksBase ==
  ASSUME BaseInv,
         \/ ClearsCcb \/ SelfTestPassed \/ OneChannel \/ TwoChannels \/ TestsSecond \/ IsTested
         \/ EnablesFirst \/ EnablesSecond
  PROVE  BaseInv' /\ (call' = NoCall \/ call'.at = "first")
<1>1. /\ channel_status \in [Channels -> SUBSET (0 .. 3)] /\ 1 \in Channels /\ 2 \in Channels
      /\ resp \in Bytes /\ ccb \in Bytes /\ "step9" \notin Ended
  BY CallPlaces DEF BaseInv, Statuses, Locals, Ended
<1>2. pc \in {"step3", "step4b", "step5b", "step6b", "step6c", "step7", "step7b"}
        => pc \notin Ended /\ channel_status[1] = {}
  BY DEF BaseInv, Statuses, Ended
<1>3. \A q \in {"step4", "step5", "step6", "step6c", "step7", "step7b", "step7c"} : q \notin Ended
  BY DEF Ended
<1>4. CASE ClearsCcb
  <2>1. PICK b \in Bytes : b = resp \ {0, 1, 6}
    BY <1>1, Zenon DEF Bytes
  <2>2. CallMade' /\ call'.at = "first" /\ ccb' \in Bytes
    BY <1>4, <2>1, MakesSetting, Zenon DEF ClearsCcb, Goto
  <2>3. QED
    BY <1>1, <1>2, <1>3, <1>4, <2>2, GotoBase, Zenon DEF ClearsCcb, At
<1>5. CASE SelfTestPassed
  <2>1. CallMade' /\ call'.at = "first"
    BY <1>5, MakesCommand, PlaceFacts, CommandFacts, Zenon DEF SelfTestPassed, Goto
  <2>2. QED
    BY <1>1, <1>2, <1>3, <1>5, <2>1, GotoBase, Zenon DEF SelfTestPassed, At
<1>6. CASE OneChannel
  <2>1. CallMade' /\ call' = NoCall
    BY <1>6, Zenon DEF OneChannel, Goto, CallMade
  <2>2. channel_status' \in [Channels -> SUBSET (0 .. 3)] /\ channel_status'[1] = {}
    BY <1>6, <1>1 DEF OneChannel
  <2>3. QED
    BY <1>1, <1>2, <1>3, <1>6, <2>1, <2>2, GotoBase, Zenon DEF OneChannel, At
<1>7. CASE TwoChannels
  <2>1. CallMade' /\ call'.at = "first"
    BY <1>7, MakesCommand, PlaceFacts, CommandFacts, Zenon DEF TwoChannels, Goto
  <2>2. QED
    BY <1>1, <1>2, <1>3, <1>7, <2>1, GotoBase, Zenon DEF TwoChannels, At
<1>8. CASE TestsSecond
  <2>1. CallMade' /\ (call' = NoCall \/ call'.at = "first")
    <3>1. CASE channel_status[2] = {}
      BY <1>8, <3>1, MakesQuestion, PlaceFacts, CommandFacts, Zenon DEF TestsSecond, Goto
    <3>2. CASE channel_status[2] # {}
      BY <1>8, <3>2, Zenon DEF TestsSecond, Goto, CallMade
    <3>3. QED
      BY <3>1, <3>2
  <2>2. QED
    BY <1>1, <1>2, <1>3, <1>8, <2>1, GotoBase, Zenon DEF TestsSecond, At
<1>9. CASE IsTested
  <2>1. CallMade' /\ call'.at = "first"
    BY <1>9, MakesQuestion, PlaceFacts, CommandFacts, Zenon DEF IsTested, Goto
  <2>2. QED
    BY <1>1, <1>2, <1>3, <1>9, <2>1, GotoBase, Zenon DEF IsTested, At
<1>10. CASE EnablesFirst
  <2>1. CallMade' /\ call'.at = "first"
    BY <1>10, MakesCommand, PlaceFacts, CommandFacts, Zenon DEF EnablesFirst, Goto
  <2>2. ccb' \in Bytes
    BY <1>10, <1>1 DEF EnablesFirst, Bytes
  <2>3. QED
    BY <1>1, <1>2, <1>3, <1>10, <2>1, <2>2, GotoBase, Zenon DEF EnablesFirst, At
<1>11. CASE EnablesSecond
  <2>1. CallMade' /\ (call' = NoCall \/ call'.at = "first")
    <3>1. CASE channel_status[2] = {}
      BY <1>11, <3>1, MakesCommand, PlaceFacts, CommandFacts, Zenon DEF EnablesSecond, Goto
    <3>2. CASE channel_status[2] # {}
      BY <1>11, <3>2, Zenon DEF EnablesSecond, Goto, CallMade
    <3>3. QED
      BY <3>1, <3>2
  <2>2. ccb' \in Bytes
    BY <1>11, <1>1 DEF EnablesSecond, Bytes
  <2>3. QED
    BY <1>1, <1>2, <1>3, <1>11, <2>1, <2>2, GotoBase, Zenon DEF EnablesSecond, At
<1>12. QED
  BY <1>4, <1>5, <1>6, <1>7, <1>8, <1>9, <1>10, <1>11

\* The first two steps of ps2_init, which change registered and the controller.
LEMMA StartBase ==
  ASSUME BaseInv, DisableFirst \/ Flush
  PROVE  BaseInv' /\ call'.at = "first"
<1>1. Locals /\ Statuses /\ Outcome /\ Callbacks /\ Machine /\ Lines
  BY DEF BaseInv
<1>2. CASE DisableFirst
  <2>1. CallMade' /\ call'.at = "first"
    BY <1>2, MakesCommand, PlaceFacts, CommandFacts, Zenon DEF DisableFirst, Goto
  <2>2. Machine' /\ Lines' /\ Locals'
    BY <1>1, <1>2, Zenon DEF DisableFirst, Quiet, Goto, Machine, HwOK, Lines, Locals
  <2>3. pc = "step1" /\ pc' = "step1b"
    BY <1>2 DEF DisableFirst, At, Goto
  <2>4. Statuses' /\ Outcome'
    BY <1>1, <1>2, <2>3 DEF DisableFirst, Goto, Statuses, Outcome, Ended
  <2>5. Callbacks'
    BY <1>1, <1>2, <2>3, CallPlaces DEF DisableFirst, Quiet, Callbacks
  <2>6. QED
    BY <2>1, <2>2, <2>4, <2>5, Zenon DEF BaseInv
<1>3. CASE Flush
  <2>1. CallMade' /\ call'.at = "first"
    BY <1>3, MakesQuestion, PlaceFacts, CommandFacts, Zenon DEF Flush, Goto
  <2>2. Machine'
    BY <1>1, <1>3, ReadTyped, Zenon DEF Flush, Quiet
  <2>3. Lines' /\ Locals'
    BY <1>1, <1>3, Zenon DEF Flush, Quiet, Goto, Lines, Locals
  <2>4. pc = "step2" /\ pc' = "step3"
    BY <1>3 DEF Flush, At, Goto
  <2>5. Statuses' /\ Outcome'
    BY <1>1, <1>3, <2>4 DEF Flush, Goto, Statuses, Outcome, Ended
  <2>6. Callbacks'
    BY <1>1, <1>3, <2>4 DEF Flush, Quiet, Callbacks
  <2>7. QED
    BY <2>1, <2>2, <2>3, <2>5, <2>6, Zenon DEF BaseInv
<1>4. QED
  BY <1>2, <1>3

\* What a reset that was answered does to the channels.
LEMMA AcknowledgedTyped ==
  ASSUME BaseInv, NEW n \in Channels
  PROVE  Acknowledged(n) \in [Channels -> SUBSET (0 .. 3)]
<1>1. channel_status \in [Channels -> SUBSET (0 .. 3)] /\ {2} \in SUBSET (0 .. 3)
  BY DEF BaseInv, Statuses
<1>2. channel_status[n] \in SUBSET (0 .. 3)
  BY <1>1
<1>3. QED
  BY <1>1, <1>2, Zenon DEF Acknowledged

\* The second reset, which leaves the status of channel 2.
LEMMA ResetSecondBase ==
  ASSUME BaseInv, ResetSecond
  PROVE  BaseInv' /\ (call' = NoCall \/ call'.at = "first") /\ channel_status'[2] = channel_status[2]
<1>1. /\ channel_status' = Acknowledged(1) /\ pc = "step8b" /\ pc' = "step9" /\ ccb' = ccb /\ Still
      /\ Goto("step9", IF channel_status[2] = {} THEN ps2_send_data_response_second(Reset) ELSE NoCall)
  BY Zenon DEF ResetSecond, At, Goto
<1>2. channel_status' \in [Channels -> SUBSET (0 .. 3)]
  BY <1>1, AcknowledgedTyped, CallPlaces, Zenon
<1>3. channel_status'[2] = channel_status[2]
  BY <1>1, CallPlaces DEF Acknowledged, BaseInv, Statuses
<1>4. CallMade' /\ (call' = NoCall \/ call'.at = "first")
  <2>1. CASE channel_status[2] = {}
    BY <1>1, <1>3, <2>1, MakesReset2, Zenon DEF Goto
  <2>2. CASE channel_status[2] # {}
    BY <1>1, <2>2, Zenon DEF Goto, CallMade
  <2>3. QED
    BY <2>1, <2>2
<1>5. "step9" \notin Ended /\ "step8b" \notin Ended /\ ccb \in Bytes
  BY DEF Ended, BaseInv, Locals
<1>6. QED
  BY <1>1, <1>2, <1>3, <1>4, <1>5, GotoBase, Zenon

\* ps2_init returns.
LEMMA ReturnsBase ==
  ASSUME BaseInv, SelfTestFailed \/ EnableIrqs
  PROVE  BaseInv'
<1>1. /\ Quiet /\ ctl' = ctl /\ registered' = registered /\ (pic' = pic \/ pic' = Channels)
      /\ pc \in {"step4b", "step9"} /\ call = NoCall /\ call' = call
      /\ pc' = "kbd" /\ resp' = {} /\ ccb' = {} /\ result' \in {"status", "SELF_TEST_FAILURE"}
  BY DEF SelfTestFailed, EnableIrqs, Still, At, Returns
<1>2. Machine'
  BY <1>1, Zenon DEF BaseInv, Machine, HwOK, Quiet
<1>3. Lines'
  BY <1>1 DEF BaseInv, Lines, Quiet
<1>4. Locals' /\ CallMade'
  BY <1>1, CcbFacts, Zenon DEF Locals, CallMade
<1>5. channel_status' \in [Channels -> SUBSET (0 .. 3)]
  <2>1. CASE SelfTestFailed
    BY <2>1 DEF SelfTestFailed
  <2>2. CASE EnableIrqs
    BY <2>2, AcknowledgedTyped, CallPlaces, Zenon DEF EnableIrqs
  <2>3. QED
    BY <2>1, <2>2
<1>6. Statuses' /\ Outcome'
  BY <1>1, <1>5 DEF Statuses, Outcome, Ended
<1>7. Callbacks'
  BY <1>1 DEF BaseInv, Callbacks, Quiet
<1>8. QED
  BY <1>2, <1>3, <1>4, <1>6, <1>7, Zenon DEF BaseInv

\* ps2kbd_init, and the interrupts turned on.
LEMMA KbdBase ==
  ASSUME BaseInv, ps2_register \/ SetCallback \/ enable_int
  PROVE  BaseInv'
<1>1. /\ hw' = hw /\ ctl' = ctl /\ irr' = irr /\ pic' = pic /\ call' = call /\ resp' = resp
      /\ ccb' = ccb /\ channel_status' = channel_status /\ result' = result
      /\ pc \in Ended /\ pc' \in Ended
  BY DEF ps2_register, SetCallback, enable_int, At, Ended
<1>2. Machine' /\ Lines' /\ Locals'
  BY <1>1, Zenon DEF BaseInv, Machine, HwOK, Lines, Locals
<1>3. Statuses' /\ Outcome'
  BY <1>1, Zenon DEF BaseInv, Statuses, Outcome
<1>4. call = NoCall
  <2>1. pc \in {"kbd", "kbd2", "ready"}
    BY <1>1 DEF Ended
  <2>2. QED
    BY <2>1, CallPlaces DEF BaseInv, CallMade, Command, Question, Setting, Reset1, Reset2
<1>5. CallMade'
  BY <1>1, <1>4, Zenon DEF CallMade
<1>6. Callbacks
  BY DEF BaseInv
<1>7. Callbacks'
  <2>1. CASE enable_int
    BY <1>6, <2>1 DEF Callbacks, enable_int
  <2>2. CASE ps2_register
    <3>1. CASE channel_status[1] # {} \/ registered[1].active
      BY <1>6, <2>2, <3>1 DEF Callbacks, ps2_register, At
    <3>2. CASE ~(channel_status[1] # {} \/ registered[1].active)
      <4>1. /\ registered' = [registered EXCEPT ![1].active = TRUE] /\ pc' = "kbd2" /\ intr' = intr
            /\ pc = "kbd"
        BY <2>2, <3>2 DEF ps2_register, At
      <4>2. registered' \in [Channels -> [active : BOOLEAN, callback : BOOLEAN]]
        BY <1>6, <4>1, CallPlaces, Zenon DEF Callbacks
      <4>3. registered'[2] = registered[2]
        BY <1>6, <4>1, CallPlaces DEF Callbacks
      <4>4. QED
        BY <1>6, <4>1, <4>2, <4>3 DEF Callbacks
    <3>3. QED
      BY <3>1, <3>2
  <2>3. CASE SetCallback
    <3>1. /\ registered' = [registered EXCEPT ![1].callback = TRUE] /\ pc' = "ready" /\ intr' = intr
      BY <2>3 DEF SetCallback
    <3>2. registered' \in [Channels -> [active : BOOLEAN, callback : BOOLEAN]]
      BY <1>6, <3>1, CallPlaces, Zenon DEF Callbacks
    <3>3. registered'[2] = registered[2] /\ registered'[1].callback = TRUE
      BY <1>6, <3>1, CallPlaces DEF Callbacks
    <3>4. QED
      BY <1>6, <3>1, <3>2, <3>3 DEF Callbacks
  <2>4. QED
    BY <2>1, <2>2, <2>3
<1>8. QED
  BY <1>2, <1>3, <1>5, <1>7, Zenon DEF BaseInv

\* The machine as the boot loader leaves it.
LEMMA BaseInvInit == Init => BaseInv
<1> SUFFICES ASSUME Init PROVE BaseInv
  OBVIOUS
<1>1. HwOK
  BY DEF Init, HwOK
<1>2. ctl \in Controllers
  <2>1. {INTR(1), INTR(2), TRANS1} \in Bytes
    BY DEF INTR, TRANS1, Bytes
  <2>2. Ccb({INTR(1), INTR(2), TRANS1}) \in Bytes
    BY <2>1, CcbFacts, Zenon
  <2>3. 0 \in 0 .. 2
    OBVIOUS
  <2>4. QED
    BY <2>2, <2>3, CcbFacts, InputFacts, Zenon DEF Init, Controllers
<1>3. Lines /\ Locals /\ CallMade
  BY CcbFacts DEF Init, Lines, Locals, CallMade
<1>4. Statuses /\ Outcome /\ Callbacks
  BY CallPlaces DEF Init, Statuses, Outcome, Ended, Callbacks
<1>5. QED
  BY <1>1, <1>2, <1>3, <1>4, Zenon DEF BaseInv, Machine

\* BaseInv, in a step in which nothing changes.
LEMMA BaseInvStutter == ASSUME BaseInv, UNCHANGED vars PROVE BaseInv'
<1>1. UNCHANGED drvvars /\ hw' = hw /\ ctl' = ctl /\ irr' = irr /\ pic' = pic
  BY DEF vars, drvvars
<1>2. Locals' /\ CallMade' /\ Statuses' /\ Outcome' /\ Callbacks'
  BY <1>1, DriverKept, Zenon DEF BaseInv
<1>3. Machine' /\ Lines'
  BY <1>1, Zenon DEF BaseInv, Machine, HwOK, Lines
<1>4. QED
  BY <1>2, <1>3, Zenon DEF BaseInv

\* Every step of the driver, the controller and the devices preserves BaseInv.
LEMMA BaseInvStep == BaseInv /\ [Next]_vars => BaseInv'
<1> SUFFICES ASSUME BaseInv, [Next]_vars PROVE BaseInv'
  OBVIOUS
<1>1. CASE SendFirst \/ Poll \/ SendData \/ SendRead
  BY <1>1, CallSteps, CallBase, Zenon
<1>2. CASE DisableFirst \/ Flush
  BY <1>2, StartBase, Zenon
<1>3. CASE \/ DisableSecond \/ SelfTest \/ ReadBack \/ TestFirst \/ WriteCcb \/ ResetFirst
  BY <1>3, CallsSteps, Zenon
<1>4. CASE \/ ClearCcb \/ SelfTested \/ CountChannels \/ TestSecond \/ Tested
           \/ EnableFirst \/ EnableSecond
  BY <1>4, CheckSteps, ChecksBase, ReturnsBase, Zenon
<1>5. CASE ResetSecond
  BY <1>5, ResetSecondBase, Zenon
<1>6. CASE EnableIrqs
  BY <1>6, ReturnsBase, Zenon
<1>7. CASE ps2_register \/ SetCallback \/ enable_int
  BY <1>7, KbdBase, Zenon
<1>8. CASE Take \/ (\E n \in Channels : DeviceSends(n) \/ ps2_handle_interrupt(n))
  BY <1>8, OutsideBase, Zenon
<1>9. CASE UNCHANGED vars
  BY <1>9, BaseInvStutter, Zenon
<1>10. QED
  BY <1>1, <1>2, <1>3, <1>4, <1>5, <1>6, <1>7, <1>8, <1>9, Zenon DEF Next, Driver, Interrupts

\* However slow the controller is and whatever the devices send, BaseInv holds.
LEMMA BaseInvariant == Spec => []BaseInv
BY BaseInvInit, BaseInvStep, PTL DEF Spec

\* What ps2_init keeps in its variables, in the two bytes of channel_status and in
\* the registered callbacks has its type, whatever bytes the driver reads and
\* whichever of its waits run out.
THEOREM Ps2TypeOK == Spec => []TypeOK
<1>1. BaseInv => TypeOK
  <2> SUFFICES ASSUME BaseInv PROVE TypeOK
    OBVIOUS
  <2>1. ctl \in Controllers /\ Lines /\ Locals /\ Statuses /\ Outcome /\ Callbacks
    BY DEF BaseInv, Machine
  <2>2. ctl.ccb \subseteq 0 .. 7 /\ ctl.data \subseteq 0 .. 7 /\ ctl.full \in BOOLEAN
    BY <2>1, Zenon DEF Controllers, Bytes
  <2>3. ccb \subseteq 0 .. 7
    BY <2>1 DEF Locals, Bytes
  <2>4. QED
    BY <2>1, <2>2, <2>3 DEF TypeOK, Lines, Statuses, Outcome, Callbacks
<1>2. QED
  BY <1>1, BaseInvariant, PTL

\* ps2_register marks a channel active before it stores the callback, and
\* ps2_handle_interrupt calls the callback of an active channel: it is never called
\* before it is stored, because interrupts are off until ps2kbd_init has returned.
THEOREM CallbackIsSetAlways == Spec => []CallbackIsSet
<1>1. BaseInv => CallbackIsSet
  BY CallPlaces DEF BaseInv, Callbacks, CallbackIsSet, Channels
<1>2. QED
  BY <1>1, BaseInvariant, PTL

-----------------------------------------------------------------------------
(* What holds when the controller keeps up.                                *)

NoIntr(bits) == {INTR(1), INTR(2)} \cap bits = {}

\* The controller's configuration, and its output buffer, when it has taken its
\* last byte.
Settled(bits) == After.ccb = bits /\ After.expect = "dev1"
Answer(b) == After.full /\ After.data = b

\* The last byte written was the self test command.
SelfTestLast == ctl.in \in {<<>>, <<"status", "SELF_TEST">>}

\* The interrupts are off when the self test is made: clauses for step4, where
\* the configuration byte is written, for step4b, where the test is made, and for
\* a test that failed.
QuietStep4 ==
  /\ NoIntr(ccb)
  /\ call.at = "data" => After.expect = "ccb"
  /\ call.at = "none" => Settled(Ccb(ccb))
QuietStep4b ==
  /\ NoIntr(ccb) /\ Settled(Ccb(ccb))
  /\ call.at # "first" => SelfTestLast
QuietFailure == SelfTestLast /\ NoIntr(ctl.ccb)
QuietInv ==
  ~missed =>
    /\ pc = "step4" => QuietStep4
    /\ pc = "step4b" => QuietStep4b
    /\ result = "SELF_TEST_FAILURE" => QuietFailure

\* The next state of the controller when it has taken its last byte.
Becoming(bits, expects, full, data) ==
  After'.ccb = bits /\ After'.expect = expects /\ After'.full = full /\ After'.data = data

\* A byte is written to a controller that has taken the one before.
LEMMA Writes ==
  ASSUME Machine, hw' = hw, NEW p, NEW b, outb(p, b), <<p, b>> \in Inputs, ~missed'
  PROVE  /\ Machine' /\ ~missed /\ ctl.in = <<>> /\ After = ctl /\ ctl'.in = <<p, b>>
         /\ ctl'.ccb = After.ccb /\ ctl'.expect = After.expect
         /\ ctl'.full = After.full /\ ctl'.data = After.data
<1>1. ~missed /\ ctl.in = <<>>
  BY Zenon DEF outb
<1>2. After = ctl
  BY <1>1, AfterIs, Zenon DEF AfterFact, Machine
<1>3. QED
  BY <1>1, <1>2, OutTyped, Zenon

\* The configuration byte in the next state.
LEMMA CcbNext == ASSUME hw' = hw, NEW x, NEW y, x = y PROVE Ccb(x)' = Ccb(y)
BY DEF Ccb

\* What the commands that are answered, and those that a byte follows, give.
LEMMA AskGives ==
  ASSUME Machine, hw' = hw, ~missed', NEW c \in Commands, outb("status", c)
  PROVE  /\ c = "READ_CCB" => Becoming(After.ccb, After.expect, TRUE, After.ccb)
         /\ c = "SELF_TEST" => Becoming(After.ccb, After.expect, TRUE,
                                        IF hw.self THEN PS2_SELF_TEST_SUCCESS ELSE {})
         /\ c \in {"TEST_1ST", "TEST_2ND"} =>
              After'.ccb = After.ccb /\ After'.expect = After.expect
         /\ c = "WRITE_CCB" => Becoming(After.ccb, "ccb", After.full, After.data)
         /\ c = "SEL_2ND" => Becoming(After.ccb, "dev2", After.full, After.data)
<1>1. /\ HwOK' /\ ctl' \in Controllers /\ ctl'.in = <<"status", c>>
      /\ ctl'.ccb = After.ccb /\ ctl'.expect = After.expect
      /\ ctl'.full = After.full /\ ctl'.data = After.data
  BY Writes, InputFacts, Zenon DEF Machine
<1>2. CASE c = "READ_CCB"
  <2>1. Becomes(After', ctl'.ccb, ctl'.expect, TRUE, ctl'.ccb)
    BY <1>1, <1>2, AfterIsNext, Zenon DEF AfterFact
  <2>2. QED
    BY <2>1, <1>1, <1>2 DEF Becomes, Becoming
<1>3. CASE c = "SELF_TEST"
  <2>1. Becomes(After', ctl'.ccb, ctl'.expect, TRUE, IF hw'.self THEN PS2_SELF_TEST_SUCCESS ELSE {})
    BY <1>1, <1>3, AfterIsNext, Zenon DEF AfterFact
  <2>2. QED
    BY <2>1, <1>1, <1>3 DEF Becomes, Becoming
<1>4. CASE c = "TEST_1ST"
  <2>1. Becomes(After', ctl'.ccb, ctl'.expect, TRUE, IF hw'.dev[1] THEN {} ELSE {0})
    BY <1>1, <1>4, AfterIsNext, Zenon DEF AfterFact
  <2>2. QED
    BY <2>1, <1>1, <1>4 DEF Becomes
<1>5. CASE c = "TEST_2ND"
  <2>1. Becomes(After', ctl'.ccb, ctl'.expect, TRUE, IF hw'.dev[2] THEN {} ELSE {0})
    BY <1>1, <1>5, AfterIsNext, Zenon DEF AfterFact
  <2>2. QED
    BY <2>1, <1>1, <1>5 DEF Becomes
<1>6. CASE c = "WRITE_CCB"
  <2>1. Becomes(After', ctl'.ccb, "ccb", ctl'.full, ctl'.data)
    BY <1>1, <1>6, AfterIsNext, Zenon DEF AfterFact
  <2>2. QED
    BY <2>1, <1>1, <1>6 DEF Becomes, Becoming
<1>7. CASE c = "SEL_2ND"
  <2>1. Becomes(After', ctl'.ccb, "dev2", ctl'.full, ctl'.data)
    BY <1>1, <1>7, AfterIsNext, Zenon DEF AfterFact
  <2>2. QED
    BY <2>1, <1>1, <1>7 DEF Becomes, Becoming
<1>8. QED
  BY <1>2, <1>3, <1>4, <1>5, <1>6, <1>7, Zenon

\* What a data byte gives: the configuration, or a device's answer to its reset.
LEMMA DataGives ==
  ASSUME Machine, hw' = hw, ~missed', NEW b \in Bytes, outb("data", b)
  PROVE  /\ After.expect = "ccb" => Becoming(Ccb(b), "dev1", After.full, After.data)
         /\ After.expect = "dev1" /\ b = Reset /\ hw.dev[1] =>
              Becoming(After.ccb, "dev1", TRUE, PS2_RES_ACK)
         /\ After.expect = "dev1" /\ b = Reset /\ ~hw.dev[1] =>
              Becoming(After.ccb, "dev1", After.full, After.data)
         /\ After.expect = "dev2" /\ b = Reset /\ hw.dev[2] =>
              Becoming(After.ccb, "dev1", TRUE, PS2_RES_ACK)
         /\ After.expect = "dev2" /\ b = Reset /\ ~hw.dev[2] =>
              Becoming(After.ccb, "dev1", After.full, After.data)
<1>1. /\ HwOK' /\ ctl' \in Controllers /\ ctl'.in = <<"data", b>>
      /\ ctl'.ccb = After.ccb /\ ctl'.expect = After.expect
      /\ ctl'.full = After.full /\ ctl'.data = After.data
  BY Writes, InputFacts, Zenon DEF Machine
<1>2. /\ ctl'.expect = "ccb" => Becomes(After', Ccb(b)', "dev1", ctl'.full, ctl'.data)
      /\ ctl'.expect = "dev1" => Passed(1, b)'
      /\ ctl'.expect = "dev2" => Passed(2, b)'
  BY <1>1, AfterIsNext, Zenon DEF AfterFact
<1>3. Ccb(b)' = Ccb(b)
  BY CcbNext, Zenon
<1>4. CASE After.expect = "ccb"
  BY <1>1, <1>2, <1>3, <1>4 DEF Becomes, Becoming
<1>5. CASE After.expect = "dev1"
  BY <1>1, <1>2, <1>5 DEF Passed, Becomes, Becoming
<1>6. CASE After.expect = "dev2"
  BY <1>1, <1>2, <1>6 DEF Passed, Becomes, Becoming
<1>7. QED
  BY <1>4, <1>5, <1>6, Zenon

\* The configuration does not depend on the output buffer.
LEMMA SameInput ==
  ASSUME Machine, Machine', hw' = hw, ctl'.in = ctl.in, ctl'.ccb = ctl.ccb,
         ctl'.expect = ctl.expect
  PROVE  After'.ccb = After.ccb /\ After'.expect = After.expect
<1>1. /\ HwOK /\ ctl \in Controllers /\ HwOK' /\ ctl' \in Controllers
      /\ ctl.in \in Inputs /\ ctl.expect \in {"dev1", "dev2", "ccb"}
  BY DEF Machine, Controllers
<1>2. /\ \A x : Ccb(x)' = Ccb(x)
      /\ Ccb(ctl.ccb \cup {4})' = Ccb(ctl.ccb \cup {4})
      /\ Ccb(ctl.ccb \cup {5})' = Ccb(ctl.ccb \cup {5})
      /\ Ccb(ctl.ccb \ {4})' = Ccb(ctl.ccb \ {4})
      /\ Ccb(ctl.ccb \ {5})' = Ccb(ctl.ccb \ {5})
  BY DEF Ccb
<1>3. CASE ctl.in = <<>>
  BY <1>1, <1>3, AfterIs, AfterIsNext, Zenon DEF AfterFact
<1>4. ASSUME NEW b \in Commands, ctl.in = <<"status", b>>
      PROVE  After'.ccb = After.ccb /\ After'.expect = After.expect
  BY <1>1, <1>2, <1>4, AfterIs, AfterIsNext, Zenon DEF AfterFact, Commands, Becomes
<1>5. ASSUME NEW b \in Bytes, ctl.in = <<"data", b>>
      PROVE  After'.ccb = After.ccb /\ After'.expect = After.expect
  <2>1. /\ ctl.expect = "ccb" => Becomes(After, Ccb(b), "dev1", ctl.full, ctl.data)
        /\ ctl.expect = "dev1" => Passed(1, b)
        /\ ctl.expect = "dev2" => Passed(2, b)
    BY <1>1, <1>5, AfterIs, Zenon DEF AfterFact
  <2>2. /\ ctl'.expect = "ccb" => Becomes(After', Ccb(b)', "dev1", ctl'.full, ctl'.data)
        /\ ctl'.expect = "dev1" => Passed(1, b)'
        /\ ctl'.expect = "dev2" => Passed(2, b)'
    BY <1>1, <1>5, AfterIsNext, Zenon DEF AfterFact
  <2>3. Ccb(b)' = Ccb(b)
    BY CcbNext, Zenon
  <2>4. CASE ctl.expect = "ccb"
    BY <2>1, <2>2, <2>3, <2>4, Zenon DEF Becomes
  <2>5. CASE ctl.expect # "ccb"
    BY <1>1, <2>1, <2>2, <2>5 DEF Passed, Becomes
  <2>6. QED
    BY <2>4, <2>5
<1>6. QED
  BY <1>1, <1>3, <1>4, <1>5, InputFacts, Zenon

\* The controller, the devices and the handlers leave the configuration as it is
\* going to be; reading the output buffer does too.
LEMMA OutsideKeeps ==
  ASSUME Machine,
         \/ Take \/ (\E n \in Channels : DeviceSends(n) \/ ps2_handle_interrupt(n))
         \/ (inb /\ hw' = hw) \/ (ctl' = ctl /\ hw' = hw)
  PROVE  /\ Machine' /\ hw' = hw /\ After'.ccb = After.ccb /\ After'.expect = After.expect
         /\ SelfTestLast => SelfTestLast' /\ ctl'.ccb = ctl.ccb
<1>1. CASE Take
  <2>1. Machine' /\ ctl' = After /\ ctl'.in = <<>> /\ After' = After /\ hw' = hw
    BY <1>1, TakeTyped, Zenon DEF Take
  <2>2. ASSUME SelfTestLast PROVE ctl'.ccb = ctl.ccb
    <3>1. CASE ctl.in = <<>>
      BY <1>1, <3>1, Zenon DEF Take
    <3>2. CASE ctl.in = <<"status", "SELF_TEST">>
      <4>1. Becomes(After, ctl.ccb, ctl.expect, TRUE, IF hw.self THEN PS2_SELF_TEST_SUCCESS ELSE {})
        BY <3>2, AfterIs, Zenon DEF AfterFact, Machine
      <4>2. QED
        BY <4>1, <2>1, Zenon DEF Becomes
    <3>3. QED
      BY <3>1, <3>2, <2>2 DEF SelfTestLast
  <2>3. SelfTestLast'
    BY <2>1 DEF SelfTestLast
  <2>4. QED
    BY <2>1, <2>2, <2>3, Zenon
<1>2. ASSUME Machine', hw' = hw, ctl'.in = ctl.in, ctl'.ccb = ctl.ccb, ctl'.expect = ctl.expect
      PROVE  /\ Machine' /\ hw' = hw /\ After'.ccb = After.ccb /\ After'.expect = After.expect
             /\ SelfTestLast => SelfTestLast' /\ ctl'.ccb = ctl.ccb
  <2>1. SelfTestLast => SelfTestLast'
    BY <1>2, Zenon DEF SelfTestLast
  <2>2. QED
    BY <1>2, <2>1, SameInput, Zenon
<1>3. ASSUME NEW n \in Channels, DeviceSends(n)
      PROVE  Machine' /\ hw' = hw /\ ctl'.in = ctl.in /\ ctl'.ccb = ctl.ccb /\ ctl'.expect = ctl.expect
  <2>1. hw' = hw /\ \E b \in Bytes : ctl' = Fill(n, b)
    BY <1>3, Ps2Constants DEF DeviceSends, Bytes, BatPassed
  <2>2. QED
    BY <2>1, <1>3, FilledTyped, Zenon
<1>4. ASSUME NEW n \in Channels, ps2_handle_interrupt(n) PROVE inb /\ hw' = hw
  BY <1>4, Zenon DEF ps2_handle_interrupt
<1>5. ASSUME inb, hw' = hw
      PROVE  Machine' /\ hw' = hw /\ ctl'.in = ctl.in /\ ctl'.ccb = ctl.ccb /\ ctl'.expect = ctl.expect
  BY <1>5, ReadTyped, Zenon
<1>6. ASSUME ctl' = ctl, hw' = hw
      PROVE  Machine' /\ hw' = hw /\ ctl'.in = ctl.in /\ ctl'.ccb = ctl.ccb /\ ctl'.expect = ctl.expect
  BY <1>6, Zenon DEF Machine, HwOK
<1>7. QED
  BY <1>1, <1>2, <1>3, <1>4, <1>5, <1>6, Zenon

\* QuietInv is kept by a step that the driver takes no part in, that only polls, or
\* that reads an answer.
LEMMA QuietKept ==
  ASSUME BaseInv, QuietInv, UNCHANGED <<pc, ccb, result>>,
         \/ Take \/ (\E n \in Channels : DeviceSends(n) \/ ps2_handle_interrupt(n))
         \/ (inb /\ hw' = hw) \/ (ctl' = ctl /\ hw' = hw),
         missed => missed',
         call'.at = call.at \/ (call.at = "read" /\ call'.at = "none" /\ pc # "step4")
  PROVE  QuietInv'
<1> SUFFICES ASSUME ~missed'
             PROVE  /\ pc' = "step4" => QuietStep4'
                    /\ pc' = "step4b" => QuietStep4b'
                    /\ result' = "SELF_TEST_FAILURE" => QuietFailure'
  BY Zenon DEF QuietInv
<1>1. /\ hw' = hw /\ After'.ccb = After.ccb /\ After'.expect = After.expect
      /\ SelfTestLast => SelfTestLast' /\ ctl'.ccb = ctl.ccb
  BY OutsideKeeps, Zenon DEF BaseInv
<1>2. /\ pc = "step4" => QuietStep4
      /\ pc = "step4b" => QuietStep4b
      /\ result = "SELF_TEST_FAILURE" => QuietFailure
  BY Zenon DEF QuietInv
<1>3. Ccb(ccb)' = Ccb(ccb) /\ NoIntr(ccb)' = NoIntr(ccb)
  BY <1>1 DEF Ccb, NoIntr
<1>4. ASSUME pc' = "step4" PROVE QuietStep4'
  BY <1>1, <1>2, <1>3, <1>4 DEF QuietStep4, Settled
<1>5. ASSUME pc' = "step4b" PROVE QuietStep4b'
  BY <1>1, <1>2, <1>3, <1>5 DEF QuietStep4b, Settled
<1>6. ASSUME result' = "SELF_TEST_FAILURE" PROVE QuietFailure'
  BY <1>1, <1>2, <1>6 DEF QuietFailure, NoIntr
<1>7. QED
  BY <1>4, <1>5, <1>6

\* Elsewhere QuietInv says nothing.
LEMMA QuietElsewhere ==
  ASSUME BaseInv, QuietInv, pc' \notin {"step4", "step4b"},
         \/ result' # "SELF_TEST_FAILURE"
         \/ result' = result /\ pc \notin Ended
         \/ result' = result /\ ctl' = ctl /\ missed' = missed
  PROVE  QuietInv'
<1>1. CASE result' # "SELF_TEST_FAILURE" \/ (result' = result /\ pc \notin Ended)
  BY <1>1 DEF QuietInv, BaseInv, Outcome
<1>2. CASE result' = result /\ ctl' = ctl /\ missed' = missed
  <2>1. QuietFailure => QuietFailure'
    BY <1>2, Zenon DEF QuietFailure, SelfTestLast, NoIntr
  <2>2. QED
    BY <1>2, <2>1 DEF QuietInv
<1>3. QED
  BY <1>1, <1>2

\* The byte, the command and the answers at the steps that QuietInv speaks of.
LEMMA QuietSetting ==
  ASSUME BaseInv, QuietInv, Others, pc = "step4", SettingSent \/ SettingDone
  PROVE  QuietInv'
<1>1. Machine /\ hw' = hw /\ pc' = pc /\ ccb' = ccb /\ result' = "none" /\ ccb \in Bytes
  BY DEF BaseInv, Others, Outcome, Ended, Locals
<1> SUFFICES ASSUME ~missed' PROVE QuietStep4'
  BY <1>1 DEF QuietInv
<1>2. Ccb(ccb)' = Ccb(ccb) /\ NoIntr(ccb)' = NoIntr(ccb)
  BY <1>1 DEF Ccb, NoIntr
<1>3. CASE SettingSent
  <2>1. outb("status", "WRITE_CCB") /\ call'.at = "data"
    BY <1>3 DEF SettingSent
  <2>2. ~missed /\ Becoming(After.ccb, "ccb", After.full, After.data)
    BY <1>1, <2>1, Writes, AskGives, InputFacts, CommandFacts, Zenon
  <2>3. QED
    BY <1>1, <1>2, <2>1, <2>2 DEF QuietInv, QuietStep4, Becoming
<1>4. CASE SettingDone
  <2>1. outb("data", ccb) /\ call.at = "data" /\ call'.at = "none"
    BY <1>4, CallIsOver DEF SettingDone
  <2>2. ~missed
    BY <1>1, <2>1, Writes, InputFacts, Zenon
  <2>3. After.expect = "ccb" /\ NoIntr(ccb)
    BY <2>1, <2>2 DEF QuietInv, QuietStep4
  <2>4. Becoming(Ccb(ccb), "dev1", After.full, After.data)
    BY <1>1, <2>1, <2>3, DataGives, Zenon
  <2>5. QED
    BY <1>1, <1>2, <2>1, <2>3, <2>4 DEF QuietStep4, Becoming, Settled
<1>5. QED
  BY <1>3, <1>4

\* Sending the self test leaves the interrupts of the devices off.
LEMMA QuietQuestion ==
  ASSUME BaseInv, QuietInv, Others, pc = "step4b", QuestionSent
  PROVE  QuietInv'
<1>1. Machine /\ hw' = hw /\ pc' = pc /\ ccb' = ccb /\ result' = "none"
  BY DEF BaseInv, Others, Outcome, Ended
<1> SUFFICES ASSUME ~missed' PROVE QuietStep4b'
  BY <1>1 DEF QuietInv
<1>2. Ccb(ccb)' = Ccb(ccb) /\ NoIntr(ccb)' = NoIntr(ccb)
  BY <1>1 DEF Ccb, NoIntr
<1>3. outb("status", "SELF_TEST")
  BY DEF QuestionSent, RespAt
<1>4. ~missed /\ ctl'.in = <<"status", "SELF_TEST">>
  BY <1>1, <1>3, Writes, InputFacts, CommandFacts, Zenon
<1>5. After'.ccb = After.ccb /\ After'.expect = After.expect
  BY <1>1, <1>3, AskGives, CommandFacts, Zenon DEF Becoming
<1>6. QuietStep4b
  BY <1>4 DEF QuietInv
<1>7. SelfTestLast'
  BY <1>4 DEF SelfTestLast
<1>8. QED
  BY <1>1, <1>2, <1>5, <1>6, <1>7 DEF QuietStep4b, Settled

\* The steps of a call.
LEMMA QuietCall == ASSUME BaseInv, QuietInv, CallEffect, Others PROVE QuietInv'
<1>1. /\ pc' = pc /\ result' = result /\ ccb' = ccb /\ hw' = hw
  BY DEF Others
<1>2. CASE Answered
  <2>1. inb /\ (missed => missed') /\ call.at = "read" /\ call'.at = "none"
    BY <1>2, CallIsOver, Zenon DEF Answered
  <2>2. pc # "step4"
    BY <1>2 DEF Answered, RespAt
  <2>3. QED
    BY <1>1, <2>1, <2>2, QuietKept, Zenon
<1>3. CASE Polled
  BY <1>1, <1>3, QuietKept, Zenon DEF Polled
<1>4. CASE SettingSent \/ SettingDone
  <2>1. CASE pc = "step4"
    BY <1>4, <2>1, QuietSetting, Zenon
  <2>2. CASE pc # "step4"
    <3>1. pc = "step8"
      BY <1>4, <2>2 DEF SettingSent, SettingDone
    <3>2. QED
      BY <1>1, <3>1, QuietElsewhere DEF Ended
  <2>3. QED
    BY <2>1, <2>2
<1>5. CASE QuestionSent
  <2>1. CASE pc = "step4b"
    BY <1>5, <2>1, QuietQuestion, Zenon
  <2>2. CASE pc # "step4b"
    <3>1. pc \notin {"step4", "step4b"} \cup Ended
      BY <1>5, <2>2 DEF QuestionSent, RespAt, Ended
    <3>2. QED
      BY <1>1, <3>1, QuietElsewhere
  <2>3. QED
    BY <2>1, <2>2
<1>6. CASE CommandSent \/ Reset1Begun \/ Reset2Begun \/ Reset1Sent \/ Reset2Sent
  <2>1. pc \notin {"step4", "step4b"} \cup Ended
    BY <1>6 DEF CommandSent, CmdAt, Reset1Begun, Reset2Begun, Reset1Sent, Reset2Sent, Ended
  <2>2. QED
    BY <1>1, <2>1, QuietElsewhere
<1>7. QED
  BY <1>2, <1>3, <1>4, <1>5, <1>6 DEF CallEffect

\* The steps of ps2_init that write the configuration byte, make the self test and
\* return when it failed.
LEMMA QuietChecks ==
  ASSUME BaseInv, QuietInv, ClearsCcb \/ SelfTest \/ SelfTestFailed PROVE QuietInv'
<1>1. hw' = hw /\ ctl' = ctl /\ missed' = missed
  BY DEF ClearsCcb, SelfTest, Calls, SelfTestFailed, Still, Quiet
<1>2. Machine
  BY DEF BaseInv
<1>3. After'.ccb = After.ccb /\ After'.expect = After.expect /\ (SelfTestLast => SelfTestLast')
  BY <1>1, <1>2, OutsideKeeps, Zenon
<1>4. CASE ClearsCcb
  <2>1. pc' = "step4" /\ ccb' = resp \ {0, 1, 6} /\ result' = result /\ pc = "step3"
    BY <1>4 DEF ClearsCcb, Goto, At
  <2>2. call'.at = "first"
    BY <1>4, ChecksBase, Zenon DEF ClearsCcb, Goto, ps2_send_cmd_double, Call
  <2>3. result' = "none"
    BY <2>1 DEF BaseInv, Outcome, Ended
  <2>4. NoIntr(ccb)'
    BY <2>1, CcbFacts DEF NoIntr
  <2>5. QED
    BY <2>1, <2>2, <2>3, <2>4 DEF QuietInv, QuietStep4
<1>5. CASE SelfTest
  <2>1. /\ pc' = "step4b" /\ ccb' = ccb /\ result' = result /\ pc = "step4" /\ call = NoCall
        /\ call' = ps2_send_cmd_resp("SELF_TEST")
    BY <1>5 DEF SelfTest, Calls, Goto, At
  <2>2. call'.at = "first"
    BY <2>1 DEF ps2_send_cmd_resp, Call
  <2>3. result' = "none"
    BY <2>1 DEF BaseInv, Outcome, Ended
  <2>4. Ccb(ccb)' = Ccb(ccb) /\ NoIntr(ccb)' = NoIntr(ccb)
    BY <1>1, <2>1 DEF Ccb, NoIntr
  <2>5. ~missed => NoIntr(ccb) /\ Settled(Ccb(ccb))
    BY <2>1, CallIsOver DEF QuietInv, QuietStep4
  <2>6. QED
    BY <1>1, <1>3, <2>1, <2>2, <2>3, <2>4, <2>5 DEF QuietInv, QuietStep4b, Settled
<1>6. CASE SelfTestFailed
  <2>1. pc' = "kbd" /\ pc = "step4b" /\ call = NoCall
    BY <1>6 DEF SelfTestFailed, Returns, At
  <2>2. ~missed => NoIntr(ccb) /\ Settled(Ccb(ccb)) /\ SelfTestLast
    BY <2>1, CallIsOver DEF QuietInv, QuietStep4b
  <2>3. SelfTestLast => After.ccb = ctl.ccb
    <3>1. CASE ctl.in = <<>>
      BY <1>2, <3>1, AfterIs, Zenon DEF AfterFact, Machine
    <3>2. CASE ctl.in = <<"status", "SELF_TEST">>
      <4>1. Becomes(After, ctl.ccb, ctl.expect, TRUE, IF hw.self THEN PS2_SELF_TEST_SUCCESS ELSE {})
        BY <1>2, <3>2, AfterIs, Zenon DEF AfterFact, Machine
      <4>2. QED
        BY <4>1, Zenon DEF Becomes
    <3>3. QED
      BY <3>1, <3>2 DEF SelfTestLast
  <2>4. NoIntr(ccb) => NoIntr(Ccb(ccb))
    BY CcbFacts DEF NoIntr, Ccb
  <2>5. ~missed => QuietFailure
    BY <2>2, <2>3, <2>4 DEF QuietFailure, Settled
  <2>6. QuietFailure => QuietFailure'
    BY <1>1, Zenon DEF QuietFailure, SelfTestLast, NoIntr
  <2>7. QED
    BY <1>1, <2>1, <2>5, <2>6 DEF QuietInv
<1>7. QED
  BY <1>4, <1>5, <1>6

\* Every step preserves QuietInv.
LEMMA QuietInvStep == BaseInv /\ QuietInv /\ [Next]_vars => QuietInv'
\* The other steps of the driver.
<1>QuietOthers. ASSUME BaseInv, QuietInv,
                       \/ DisableFirst \/ DisableSecond \/ Flush \/ ReadBack \/ TestFirst \/ WriteCcb \/ ResetFirst
                       \/ SelfTestPassed \/ OneChannel \/ TwoChannels \/ TestsSecond \/ IsTested
                       \/ EnablesFirst \/ EnablesSecond \/ ResetSecond \/ EnableIrqs
                       \/ ps2_register \/ SetCallback \/ enable_int
                PROVE  QuietInv'
  <2> USE <1>QuietOthers
  <2>1. CASE \/ DisableFirst \/ DisableSecond \/ Flush \/ ReadBack \/ TestFirst \/ WriteCcb \/ ResetFirst
    BY <2>1, QuietElsewhere, Zenon
    DEF DisableFirst, DisableSecond, Flush, ReadBack, TestFirst, WriteCcb, ResetFirst, Calls, Goto, At,
        Ended
  <2>2. CASE \/ SelfTestPassed \/ OneChannel \/ TwoChannels \/ TestsSecond \/ IsTested
             \/ EnablesFirst \/ EnablesSecond \/ ResetSecond
    BY <2>2, QuietElsewhere
    DEF SelfTestPassed, OneChannel, TwoChannels, TestsSecond, IsTested, EnablesFirst, EnablesSecond,
        ResetSecond, Goto, At, Ended
  <2>3. CASE EnableIrqs
    BY <2>3, QuietElsewhere DEF EnableIrqs, Returns
  <2>4. CASE ps2_register \/ SetCallback \/ enable_int
    BY <2>4, QuietElsewhere DEF ps2_register, SetCallback, enable_int, At
  <2>5. QED
    BY <2>1, <2>2, <2>3, <2>4
<1> SUFFICES ASSUME BaseInv, QuietInv, [Next]_vars PROVE QuietInv'
  OBVIOUS
<1>1. CASE SendFirst \/ Poll \/ SendData \/ SendRead
  BY <1>1, CallSteps, QuietCall, Zenon
<1>2. CASE \/ DisableFirst \/ DisableSecond \/ Flush \/ ReadBack \/ TestFirst \/ WriteCcb \/ ResetFirst
           \/ ResetSecond \/ EnableIrqs \/ ps2_register \/ SetCallback \/ enable_int
  BY <1>2, <1>QuietOthers, Zenon
<1>3. CASE \/ ClearCcb \/ SelfTested \/ SelfTest
  BY <1>3, CheckSteps, QuietChecks, <1>QuietOthers, Zenon
<1>4. CASE CountChannels \/ TestSecond \/ Tested \/ EnableFirst \/ EnableSecond
  BY <1>4, CheckSteps, <1>QuietOthers, Zenon
<1>5. CASE Take \/ (\E n \in Channels : DeviceSends(n) \/ ps2_handle_interrupt(n))
  <2>1. pc' = pc /\ ccb' = ccb /\ result' = result /\ call' = call /\ missed' = missed
    BY <1>5 DEF Take, DeviceSends, ps2_handle_interrupt, drvvars
  <2>2. QED
    BY <1>5, <2>1, QuietKept, Zenon
<1>6. CASE UNCHANGED vars
  <2>1. /\ pc' = pc /\ ccb' = ccb /\ result' = result /\ call' = call /\ missed' = missed
        /\ ctl' = ctl /\ hw' = hw
    BY <1>6 DEF vars, drvvars
  <2>2. QED
    BY <2>1, QuietKept, Zenon
<1>7. QED
  BY <1>1, <1>2, <1>3, <1>4, <1>5, <1>6, Zenon DEF Next, Driver, Interrupts

\* ps2_init gives up only when the self test fails, and leaves a controller that kept
\* up with its interrupts off: the interrupt lines that it left without a handler are
\* silent for ever after.  This holds for any number of polls and whatever the devices
\* send in between.
THEOREM FailureIsQuietAlways == Spec => []FailureIsQuiet
<1>1. Init => QuietInv
  BY DEF Init, QuietInv
<1>2. BaseInv /\ QuietInv => FailureIsQuiet
  <2> SUFFICES ASSUME BaseInv, QuietInv PROVE FailureIsQuiet
    OBVIOUS
  <2>1. ~Failed
    BY NeverFails, Zenon DEF BaseInv
  <2>2. result \in {"none", "status", "SELF_TEST_FAILURE"}
    BY DEF BaseInv, Outcome
  <2>3. QED
    BY <2>1, <2>2, Zenon DEF FailureIsQuiet, QuietInv, QuietFailure, NoIntr
<1>3. QED
  BY <1>1, <1>2, QuietInvStep, BaseInvariant, PTL DEF Spec

-----------------------------------------------------------------------------
(* What holds when the controller keeps up and the devices are silent.      *)

\* A byte that is not taken yet finds the output buffer empty; it is empty unless an
\* answer is on its way; the answer that the call in progress waits for, or got.
Ready == ctl.in # <<>> => ~ctl.full
Drained == Ready /\ (call.at # "read" => ~After.full)
Asks(b) == (call.at = "read" => Answer(b)) /\ (call.at = "none" => resp = b)

\* What the devices answer to their resets: without a device, the byte read is the
\* one that was read before.
FirstAck == IF hw.dev[1] THEN PS2_RES_ACK ELSE {4, 5}
SecondAck == IF hw.dev[2] THEN PS2_RES_ACK ELSE FirstAck

AtStep1 == Settled(Ccb({0, 1, 6}))
AtStep1b == Settled(IF call.at = "first" THEN Ccb({0, 1, 6}) ELSE Ccb({0, 1, 4, 6}))
AtStep2 ==
  /\ Settled(IF call.at = "first" THEN Ccb({0, 1, 4, 6}) ELSE {0, 1, 4, 5, 6})
  /\ call.at = "none" => ctl.in \in {<<>>, <<"status", "DISABLE_2ND">>}
AtStep3 == Drained /\ Settled({0, 1, 4, 5, 6}) /\ Asks({0, 1, 4, 5, 6})
AtStep4 ==
  /\ Drained /\ ccb = {4, 5}
  /\ call.at = "data" => After.expect = "ccb"
  /\ call.at = "none" => Settled({4, 5})
AtStep4b == Drained /\ Settled({4, 5}) /\ Asks(IF hw.self THEN PS2_SELF_TEST_SUCCESS ELSE {})
AtStep5 == Drained /\ Settled(IF call.at = "first" THEN {4, 5} ELSE Ccb({4}))
AtStep5b == Drained /\ Settled(Ccb({4})) /\ Asks(Ccb({4}))
AtStep6 ==
  Drained /\ IF call.at = "first" THEN hw.two /\ Settled({4}) ELSE Settled({4, 5})
AtStep6bc == Drained /\ Settled({4, 5})
AtStep7 ==
  Drained /\ Settled({4, 5}) /\ Asks({4, 5}) /\ (call.at = "none" => After.data = {4, 5})
AtStep7bc == Drained /\ After.data = {4, 5} /\ After.expect = "dev1"
AtStep8 ==
  Drained /\ After.data = {4, 5} /\ After.expect = IF call.at = "data" THEN "ccb" ELSE "dev1"
AtStep8b ==
  /\ Drained /\ After.expect = "dev1"
  /\ After.data = IF call.at \in {"first", "data"} THEN {4, 5} ELSE FirstAck
  /\ call.at = "none" => resp = FirstAck
AtStep9 ==
  /\ Drained
  /\ call.at \in {"first", "data"} => After.data = FirstAck
  /\ call.at = "data" => After.expect = "dev2"
  /\ call.at = "read" => After.data = SecondAck
  /\ call.at = "none" /\ hw.two => resp = SecondAck
  /\ (channel_status[1] = {}) <=> hw.dev[1]

\* What ps2_init has found out.
Found ==
  /\ pc \in {"step1", "step1b", "step2", "step3", "step4", "step4b", "step5", "step5b"} =>
       channel_status[2] = {}
  /\ pc \in {"step6", "step6b", "step6c", "step7", "step7b", "step7c", "step8", "step8b", "step9"} =>
       (channel_status[2] = {}) <=> hw.two
  /\ pc \notin {"step1", "step1b", "step2", "step3", "step4", "step4b"} \cup Ended => hw.self

SyncAt ==
  /\ pc = "step1" => AtStep1
  /\ pc = "step1b" => AtStep1b
  /\ pc = "step2" => AtStep2
  /\ pc = "step3" => AtStep3
  /\ pc = "step4" => AtStep4
  /\ pc = "step4b" => AtStep4b
  /\ pc = "step5" => AtStep5
  /\ pc = "step5b" => AtStep5b
  /\ pc = "step6" => AtStep6
  /\ pc \in {"step6b", "step6c"} => AtStep6bc
  /\ pc = "step7" => AtStep7
  /\ pc \in {"step7b", "step7c"} => AtStep7bc
  /\ pc = "step8" => AtStep8
  /\ pc = "step8b" => AtStep8b
  /\ pc = "step9" => AtStep9

\* The driver and the controller are in step, when no wait ran out too early and
\* no device interfered.
SyncInv == ~missed /\ ~noise => SyncAt /\ Found /\ ResultIsTrue

\* The configuration bytes that ps2_init meets, and the bytes it compares.
LEMMA CcbSets ==
  /\ Ccb(Ccb({0, 1, 6}) \cup {4}) = Ccb({0, 1, 4, 6})
  /\ Ccb(Ccb({0, 1, 4, 6}) \cup {5}) = {0, 1, 4, 5, 6}
  /\ {0, 1, 4, 5, 6} \ {0, 1, 6} = {4, 5}
  /\ Ccb({4, 5}) = {4, 5}
  /\ Ccb({4, 5} \ {5}) = Ccb({4})
  /\ Ccb({4} \cup {5}) = {4, 5}
  /\ hw.two => Ccb({4}) = {4} /\ 5 \notin Ccb({4})
  /\ ~hw.two => Ccb({4}) = {4, 5} /\ 5 \in Ccb({4})
  /\ {} # PS2_SELF_TEST_SUCCESS /\ {4, 5} # PS2_RES_ACK
<1>1. /\ Ccb(Ccb({0, 1, 6}) \cup {4}) = Ccb({0, 1, 4, 6})
      /\ Ccb(Ccb({0, 1, 4, 6}) \cup {5}) = {0, 1, 4, 5, 6}
  BY DEF Ccb, CLOCK
<1>2. {0, 1, 4, 5, 6} \ {0, 1, 6} = {4, 5}
  OBVIOUS
<1>3. Ccb({4, 5}) = {4, 5} /\ Ccb({4, 5} \ {5}) = Ccb({4}) /\ Ccb({4} \cup {5}) = {4, 5}
  BY DEF Ccb, CLOCK
<1>4. /\ hw.two => Ccb({4}) = {4} /\ 5 \notin Ccb({4})
      /\ ~hw.two => Ccb({4}) = {4, 5} /\ 5 \in Ccb({4})
  BY DEF Ccb, CLOCK
<1>5. {} # PS2_SELF_TEST_SUCCESS /\ {4, 5} # PS2_RES_ACK
  BY DEF PS2_SELF_TEST_SUCCESS, PS2_RES_ACK
<1>6. QED
  BY <1>1, <1>2, <1>3, <1>4, <1>5, Zenon

\* A controller that does not change is going to be what it was going to be.
LEMMA SameAfter == ASSUME ctl' = ctl, hw' = hw PROVE After' = After /\ \A x : Ccb(x)' = Ccb(x)
BY DEF After, Obey, Ccb, Fill

\* The place that pc names, before and after a step.
LEMMA Places ==
  ASSUME SyncAt
  PROVE  /\ pc = "step1" => AtStep1
         /\ pc = "step1b" => AtStep1b
         /\ pc = "step2" => AtStep2
         /\ pc = "step3" => AtStep3
         /\ pc = "step4" => AtStep4
         /\ pc = "step4b" => AtStep4b
         /\ pc = "step5" => AtStep5
         /\ pc = "step5b" => AtStep5b
         /\ pc = "step6" => AtStep6
         /\ pc = "step6b" => AtStep6bc
         /\ pc = "step6c" => AtStep6bc
         /\ pc = "step7" => AtStep7
         /\ pc = "step7b" => AtStep7bc
         /\ pc = "step7c" => AtStep7bc
         /\ pc = "step8" => AtStep8
         /\ pc = "step8b" => AtStep8b
         /\ pc = "step9" => AtStep9
BY DEF SyncAt

Arrived ==
  \/ pc = "step1" /\ AtStep1
  \/ pc = "step1b" /\ AtStep1b
  \/ pc = "step2" /\ AtStep2
  \/ pc = "step3" /\ AtStep3
  \/ pc = "step4" /\ AtStep4
  \/ pc = "step4b" /\ AtStep4b
  \/ pc = "step5" /\ AtStep5
  \/ pc = "step5b" /\ AtStep5b
  \/ pc = "step6" /\ AtStep6
  \/ pc \in {"step6b", "step6c"} /\ AtStep6bc
  \/ pc = "step7" /\ AtStep7
  \/ pc \in {"step7b", "step7c"} /\ AtStep7bc
  \/ pc = "step8" /\ AtStep8
  \/ pc = "step8b" /\ AtStep8b
  \/ pc = "step9" /\ AtStep9
  \/ pc \in Ended

\* Between two calls, the step reached fixes what the controller holds.
LEMMA ArrivedSync == Arrived => SyncAt
BY DEF Arrived, SyncAt, Ended

\* The same of the next state.
LEMMA ArrivedSyncNext == Arrived' => SyncAt'
BY ArrivedSync, PTL

\* The controller alone, or a round of a wait.
LEMMA SyncKept ==
  ASSUME After' = After, Ready => Ready', hw' = hw, call'.at = call.at, ctl'.in \in {<<>>, ctl.in},
         UNCHANGED <<pc, resp, ccb, channel_status>>, SyncAt
  PROVE  SyncAt'
<1>1. \A x : Ccb(x)' = Ccb(x)
  BY DEF Ccb
<1>2. /\ \A x : Settled(x) => Settled(x)'
      /\ \A x : Asks(x) => Asks(x)'
      /\ Drained => Drained'
      /\ FirstAck' = FirstAck /\ SecondAck' = SecondAck
  BY DEF Settled, Asks, Answer, Drained, FirstAck, SecondAck
<1>3. AtStep1 => AtStep1'
  BY <1>1, <1>2 DEF AtStep1, Settled
<1>4. AtStep1b => AtStep1b'
  BY <1>1, <1>2 DEF AtStep1b, Settled
<1>5. AtStep2 => AtStep2'
  BY <1>1, <1>2 DEF AtStep2, Settled
<1>6. AtStep3 => AtStep3'
  BY <1>1, <1>2 DEF AtStep3
<1>7. AtStep4 => AtStep4'
  BY <1>1, <1>2 DEF AtStep4
<1>8. AtStep4b => AtStep4b'
  BY <1>1, <1>2 DEF AtStep4b, Asks, Answer
<1>9. AtStep5 => AtStep5'
  BY <1>1, <1>2 DEF AtStep5, Settled
<1>10. AtStep5b => AtStep5b'
  BY <1>1, <1>2 DEF AtStep5b, Settled, Asks, Answer
<1>11. AtStep6 => AtStep6'
  BY <1>1, <1>2 DEF AtStep6
<1>12. AtStep6bc => AtStep6bc'
  BY <1>1, <1>2 DEF AtStep6bc
<1>13. AtStep7 => AtStep7'
  BY <1>1, <1>2 DEF AtStep7
<1>14. AtStep7bc => AtStep7bc'
  BY <1>1, <1>2 DEF AtStep7bc
<1>15. AtStep8 => AtStep8'
  BY <1>1, <1>2 DEF AtStep8
<1>16. AtStep8b => AtStep8b'
  BY <1>1, <1>2 DEF AtStep8b
<1>17. AtStep9 => AtStep9'
  BY <1>1, <1>2 DEF AtStep9
<1>18. QED
  BY <1>3, <1>4, <1>5, <1>6, <1>7, <1>8, <1>9, <1>10, <1>11, <1>12, <1>13, <1>14, <1>15, <1>16,
     <1>17 DEF SyncAt

\* A command without an answer is written.
LEMMA SyncCommand ==
  ASSUME BaseInv, SyncAt, Found, Others, CommandSent, ~missed'
  PROVE  SyncAt'
\* What the commands that change the configuration byte give.
<1>SetGives. ASSUME Machine, hw' = hw, ~missed', NEW c \in Commands, outb("status", c)
             PROVE  /\ c = "DISABLE_1ST" => Becoming(Ccb(After.ccb \cup {4}), "dev1", After.full, After.data)
                    /\ c = "DISABLE_2ND" => Becoming(Ccb(After.ccb \cup {5}), "dev1", After.full, After.data)
                    /\ c = "ENABLE_1ST" => Becoming(Ccb(After.ccb \ {4}), "dev1", After.full, After.data)
                    /\ c = "ENABLE_2ND" => Becoming(Ccb(After.ccb \ {5}), "dev1", After.full, After.data)
  <2> USE <1>SetGives
  <2>1. /\ HwOK' /\ ctl' \in Controllers /\ ctl'.in = <<"status", c>>
        /\ ctl'.ccb = After.ccb /\ ctl'.full = After.full /\ ctl'.data = After.data
    BY Writes, InputFacts, Zenon DEF Machine
  <2>2. CASE c = "DISABLE_1ST"
    <3>1. Becomes(After', Ccb(ctl.ccb \cup {4})', "dev1", ctl'.full, ctl'.data)
      BY <2>1, <2>2, AfterIsNext, Zenon DEF AfterFact
    <3>2. QED
      BY <3>1, <2>1, <2>2 DEF Becomes, Becoming, Ccb
  <2>3. CASE c = "DISABLE_2ND"
    <3>1. Becomes(After', Ccb(ctl.ccb \cup {5})', "dev1", ctl'.full, ctl'.data)
      BY <2>1, <2>3, AfterIsNext, Zenon DEF AfterFact
    <3>2. QED
      BY <3>1, <2>1, <2>3 DEF Becomes, Becoming, Ccb
  <2>4. CASE c = "ENABLE_1ST"
    <3>1. Becomes(After', Ccb(ctl.ccb \ {4})', "dev1", ctl'.full, ctl'.data)
      BY <2>1, <2>4, AfterIsNext, Zenon DEF AfterFact
    <3>2. QED
      BY <3>1, <2>1, <2>4 DEF Becomes, Becoming, Ccb
  <2>5. CASE c = "ENABLE_2ND"
    <3>1. Becomes(After', Ccb(ctl.ccb \ {5})', "dev1", ctl'.full, ctl'.data)
      BY <2>1, <2>5, AfterIsNext, Zenon DEF AfterFact
    <3>2. QED
      BY <3>1, <2>1, <2>5 DEF Becomes, Becoming, Ccb
  <2>6. QED
    BY <2>2, <2>3, <2>4, <2>5
<1>1. PICK c \in Commands : /\ CmdAt(pc, c) /\ call.at = "first" /\ outb("status", c)
                            /\ call' = NoCall
  BY DEF CommandSent
<1>2. Machine /\ hw' = hw /\ pc' = pc /\ call'.at = "none"
  BY <1>1, CallIsOver DEF BaseInv, Others
<1>3. ctl'.in = <<"status", c>> /\ ctl'.full = After.full
  <2>1. <<"status", c>> \in Inputs
    BY InputFacts, Zenon
  <2>2. QED
    BY <1>1, <1>2, <2>1, Writes, Zenon
<1>4. /\ c = "DISABLE_1ST" => Becoming(Ccb(After.ccb \cup {4}), "dev1", After.full, After.data)
      /\ c = "DISABLE_2ND" => Becoming(Ccb(After.ccb \cup {5}), "dev1", After.full, After.data)
      /\ c = "ENABLE_1ST" => Becoming(Ccb(After.ccb \ {4}), "dev1", After.full, After.data)
      /\ c = "ENABLE_2ND" => Becoming(Ccb(After.ccb \ {5}), "dev1", After.full, After.data)
  BY <1>1, <1>2, <1>SetGives, Zenon
<1>5. \A x : Ccb(x)' = Ccb(x)
  BY <1>2 DEF Ccb
<1>6. Drained /\ After'.full = After.full => Drained'
  BY <1>1, <1>2, <1>3 DEF Drained, Ready
<1>7. CASE pc = "step1b"
  <2>1. c = "DISABLE_1ST"
    BY <1>1, <1>7 DEF CmdAt
  <2>2. Settled(Ccb({0, 1, 6}))
    BY <1>1, <1>7, Places, Zenon DEF AtStep1b
  <2>3. AtStep1b'
    BY <1>2, <1>4, <1>5, <2>1, <2>2, CcbSets DEF AtStep1b, Settled, Becoming
  <2>4. QED
    BY <1>2, <1>7, <2>3, ArrivedSyncNext, Zenon DEF Arrived
<1>8. CASE pc = "step2"
  <2>1. c = "DISABLE_2ND"
    BY <1>1, <1>8 DEF CmdAt
  <2>2. Settled(Ccb({0, 1, 4, 6}))
    BY <1>1, <1>8, Places, Zenon DEF AtStep2
  <2>3. AtStep2'
    BY <1>2, <1>3, <1>4, <1>5, <2>1, <2>2, CcbSets DEF AtStep2, Settled, Becoming
  <2>4. QED
    BY <1>2, <1>8, <2>3, ArrivedSyncNext, Zenon DEF Arrived
<1>9. CASE pc = "step5"
  <2>1. c = "ENABLE_2ND"
    BY <1>1, <1>9 DEF CmdAt
  <2>2. Settled({4, 5}) /\ Drained
    BY <1>1, <1>9, Places, Zenon DEF AtStep5
  <2>3. AtStep5'
    BY <1>2, <1>4, <1>5, <1>6, <2>1, <2>2, CcbSets DEF AtStep5, Settled, Becoming
  <2>4. QED
    BY <1>2, <1>9, <2>3, ArrivedSyncNext, Zenon DEF Arrived
<1>10. CASE pc = "step6"
  <2>1. c = "DISABLE_2ND"
    BY <1>1, <1>10 DEF CmdAt
  <2>2. Settled({4}) /\ Drained
    BY <1>1, <1>10, Places, Zenon DEF AtStep6
  <2>3. AtStep6'
    BY <1>2, <1>4, <1>5, <1>6, <2>1, <2>2, CcbSets DEF AtStep6, Settled, Becoming
  <2>4. QED
    BY <1>2, <1>10, <2>3, ArrivedSyncNext, Zenon DEF Arrived
<1>11. CASE pc \in {"step7b", "step7c"}
  <2>1. c = "ENABLE_1ST" \/ c = "ENABLE_2ND"
    BY <1>1, <1>11 DEF CmdAt
  <2>2. AtStep7bc
    BY <1>11, Places, Zenon
  <2>3. AtStep7bc'
    BY <1>2, <1>4, <1>6, <2>1, <2>2 DEF AtStep7bc, Becoming
  <2>4. QED
    BY <1>2, <1>11, <2>3, ArrivedSyncNext, Zenon DEF Arrived
<1>12. QED
  BY <1>1, <1>7, <1>8, <1>9, <1>10, <1>11 DEF CmdAt

\* A command with an answer is written.
LEMMA SyncQuestion ==
  ASSUME BaseInv, SyncAt, Found, Others, QuestionSent, ~missed'
  PROVE  SyncAt'
<1>1. PICK c \in Commands : /\ RespAt(pc, c) /\ call.at = "first" /\ outb("status", c)
                            /\ call'.at = "read"
  BY DEF QuestionSent
<1>2. Machine /\ hw' = hw /\ pc' = pc
  BY DEF BaseInv, Others
<1>3. ctl'.in = <<"status", c>> /\ ctl'.full = After.full
  <2>1. <<"status", c>> \in Inputs
    BY InputFacts, Zenon
  <2>2. QED
    BY <1>1, <1>2, <2>1, Writes, Zenon
<1>4. /\ c = "READ_CCB" => Becoming(After.ccb, After.expect, TRUE, After.ccb)
      /\ c = "SELF_TEST" => Becoming(After.ccb, After.expect, TRUE,
                                     IF hw.self THEN PS2_SELF_TEST_SUCCESS ELSE {})
      /\ c \in {"TEST_1ST", "TEST_2ND"} => After'.ccb = After.ccb /\ After'.expect = After.expect
  BY <1>1, <1>2, AskGives, Zenon
<1>5. \A x : Ccb(x)' = Ccb(x)
  BY <1>2 DEF Ccb
<1>6. Drained => Drained'
  BY <1>1, <1>3 DEF Drained, Ready
<1>7. ASSUME NEW b, Settled(b), c = "READ_CCB" PROVE Settled(b)' /\ Asks(b)'
  BY <1>1, <1>4, <1>7 DEF Settled, Asks, Answer, Becoming
<1>8. CASE pc = "step3"
  <2>1. c = "READ_CCB"
    BY <1>1, <1>8 DEF RespAt
  <2>2. AtStep3'
    BY <1>6, <1>7, <1>8, <2>1, Places, Zenon DEF AtStep3
  <2>3. QED
    BY <1>2, <1>8, <2>2, ArrivedSyncNext, Zenon DEF Arrived
<1>9. CASE pc = "step4b"
  <2>1. c = "SELF_TEST"
    BY <1>1, <1>9 DEF RespAt
  <2>2. AtStep4b
    BY <1>9, Places, Zenon
  <2>3. AtStep4b'
    BY <1>1, <1>2, <1>4, <1>6, <2>1, <2>2 DEF AtStep4b, Settled, Asks, Answer, Becoming
  <2>4. QED
    BY <1>2, <1>9, <2>3, ArrivedSyncNext, Zenon DEF Arrived
<1>10. CASE pc = "step5b"
  <2>1. c = "READ_CCB"
    BY <1>1, <1>10 DEF RespAt
  <2>2. Drained /\ Settled(Ccb({4}))
    BY <1>10, Places, Zenon DEF AtStep5b
  <2>3. PICK b : b = Ccb({4})
    OBVIOUS
  <2>4. Settled(b)' /\ Asks(b)' /\ Ccb({4})' = b
    BY <1>5, <1>7, <2>1, <2>2, <2>3, Zenon
  <2>5. AtStep5b'
    BY <1>6, <2>2, <2>4, Zenon DEF AtStep5b, Settled, Asks, Answer
  <2>6. QED
    BY <1>2, <1>10, <2>5, ArrivedSyncNext, Zenon DEF Arrived
<1>11. CASE pc \in {"step6b", "step6c"}
  <2>1. c \in {"TEST_1ST", "TEST_2ND"}
    BY <1>1, <1>11 DEF RespAt
  <2>2. AtStep6bc
    BY <1>11, Places, Zenon
  <2>3. AtStep6bc'
    BY <1>4, <1>6, <2>1, <2>2 DEF AtStep6bc, Settled
  <2>4. QED
    BY <1>2, <1>11, <2>3, ArrivedSyncNext, Zenon DEF Arrived
<1>12. CASE pc = "step7"
  <2>1. c = "READ_CCB"
    BY <1>1, <1>12 DEF RespAt
  <2>2. AtStep7
    BY <1>12, Places, Zenon
  <2>3. AtStep7'
    BY <1>1, <1>6, <1>7, <2>1, <2>2 DEF AtStep7
  <2>4. QED
    BY <1>2, <1>12, <2>3, ArrivedSyncNext, Zenon DEF Arrived
<1>13. QED
  BY <1>1, <1>8, <1>9, <1>10, <1>11, <1>12 DEF RespAt

\* The configuration byte is written.
LEMMA SyncSetting ==
  ASSUME BaseInv, SyncAt, Others, SettingSent \/ SettingDone, ~missed'
  PROVE  SyncAt'
<1>1. Machine /\ hw' = hw /\ pc' = pc /\ ccb' = ccb /\ ccb \in Bytes
  BY DEF BaseInv, Others, Locals
<1>2. CASE SettingSent
  <2>1. outb("status", "WRITE_CCB") /\ call.at = "first" /\ call'.at = "data" /\ pc \in {"step4", "step8"}
    BY <1>2 DEF SettingSent
  <2>2. /\ ctl'.full = After.full
        /\ Becoming(After.ccb, "ccb", After.full, After.data)
    BY <1>1, <2>1, Writes, AskGives, InputFacts, CommandFacts, Zenon
  <2>3. Drained => Drained'
    BY <2>1, <2>2 DEF Drained, Ready, Becoming
  <2>4. CASE pc = "step4"
    <3>1. AtStep4'
      BY <1>1, <2>1, <2>2, <2>3, <2>4, Places DEF AtStep4, Becoming
    <3>2. QED
      BY <1>1, <2>4, <3>1, ArrivedSyncNext, Zenon DEF Arrived
  <2>5. CASE pc = "step8"
    <3>1. AtStep8
      BY <2>5, Places, Zenon
    <3>2. AtStep8'
      BY <2>1, <2>2, <2>3, <3>1 DEF AtStep8, Becoming
    <3>3. QED
      BY <1>1, <2>5, <3>2, ArrivedSyncNext, Zenon DEF Arrived
  <2>6. QED
    BY <2>1, <2>4, <2>5
<1>3. CASE SettingDone
  <2>1. outb("data", ccb) /\ call.at = "data" /\ call'.at = "none" /\ pc \in {"step4", "step8"}
    BY <1>3, CallIsOver DEF SettingDone
  <2>2. /\ ctl'.full = After.full
        /\ After.expect = "ccb" => Becoming(Ccb(ccb), "dev1", After.full, After.data)
    BY <1>1, <2>1, Writes, DataGives, InputFacts, Zenon
  <2>3. Drained /\ After'.full = After.full => Drained'
    BY <2>1, <2>2 DEF Drained, Ready
  <2>4. CASE pc = "step4"
    <3>1. AtStep4
      BY <2>4, Places, Zenon
    <3>2. AtStep4'
      BY <1>1, <2>1, <2>2, <2>3, <3>1, CcbSets DEF AtStep4, Becoming, Settled
    <3>3. QED
      BY <1>1, <2>4, <3>2, ArrivedSyncNext, Zenon DEF Arrived
  <2>5. CASE pc = "step8"
    <3>1. AtStep8
      BY <2>5, Places, Zenon
    <3>2. AtStep8'
      BY <2>1, <2>2, <2>3, <3>1 DEF AtStep8, Becoming
    <3>3. QED
      BY <1>1, <2>5, <3>2, ArrivedSyncNext, Zenon DEF Arrived
  <2>6. QED
    BY <2>1, <2>4, <2>5
<1>4. QED
  BY <1>2, <1>3

\* The devices are reset.
LEMMA SyncResets ==
  ASSUME BaseInv, SyncAt, Others, ~missed',
         Reset1Begun \/ Reset1Sent \/ Reset2Begun \/ Reset2Sent
  PROVE  SyncAt'
<1>1. /\ Machine /\ hw' = hw /\ pc' = pc /\ channel_status' = channel_status /\ Reset \in Bytes
      /\ hw.dev[1] \in BOOLEAN /\ hw.dev[2] \in BOOLEAN
  BY CcbFacts, CallPlaces DEF BaseInv, Others, Machine, HwOK
<1>2. FirstAck' = FirstAck /\ SecondAck' = SecondAck
  BY <1>1, Zenon DEF FirstAck, SecondAck
<1>3. CASE Reset1Begun
  <2>1. ctl' = ctl /\ call.at = "first" /\ call'.at = "data" /\ pc = "step8b"
    BY <1>3 DEF Reset1Begun
  <2>2. After' = After
    BY <1>1, <2>1, SameAfter, Zenon
  <2>3. AtStep8b
    BY <2>1, Places, Zenon
  <2>4. AtStep8b'
    BY <2>1, <2>2, <2>3 DEF AtStep8b, Drained, Ready
  <2>5. QED
    BY <1>1, <2>1, <2>4, ArrivedSyncNext, Zenon DEF Arrived
<1>4. CASE Reset1Sent
  <2>1. outb("data", Reset) /\ call.at = "data" /\ call'.at = "read" /\ pc = "step8b"
    BY <1>4 DEF Reset1Sent
  <2>2. AtStep8b
    BY <2>1, Places, Zenon
  <2>3. ctl'.full = After.full
    BY <1>1, <2>1, Writes, InputFacts, Zenon
  <2>4. After.expect = "dev1" /\ Drained /\ After.data = {4, 5}
    BY <2>1, <2>2 DEF AtStep8b
  <2>5. Drained'
    BY <2>1, <2>3, <2>4 DEF Drained, Ready
  <2>6. /\ hw.dev[1] => Becoming(After.ccb, "dev1", TRUE, PS2_RES_ACK)
        /\ ~hw.dev[1] => Becoming(After.ccb, "dev1", After.full, After.data)
    BY <1>1, <2>1, <2>4, DataGives, Zenon
  <2>7. After'.expect = "dev1" /\ After'.data = FirstAck
    BY <2>4, <2>6 DEF Becoming, FirstAck
  <2>8. AtStep8b'
    BY <1>2, <2>1, <2>5, <2>7 DEF AtStep8b
  <2>9. QED
    BY <1>1, <2>1, <2>8, ArrivedSyncNext, Zenon DEF Arrived
<1>5. CASE Reset2Begun
  <2>1. outb("status", "SEL_2ND") /\ call.at = "first" /\ call'.at = "data" /\ pc = "step9"
    BY <1>5 DEF Reset2Begun
  <2>2. AtStep9
    BY <2>1, Places, Zenon
  <2>3. ctl'.full = After.full /\ Becoming(After.ccb, "dev2", After.full, After.data)
    BY <1>1, <2>1, Writes, AskGives, InputFacts, CommandFacts, Zenon
  <2>4. Drained'
    BY <2>1, <2>2, <2>3 DEF AtStep9, Drained, Ready, Becoming
  <2>5. AtStep9'
    BY <1>1, <1>2, <2>1, <2>2, <2>3, <2>4 DEF AtStep9, Becoming
  <2>6. QED
    BY <1>1, <2>1, <2>5, ArrivedSyncNext, Zenon DEF Arrived
<1>6. CASE Reset2Sent
  <2>1. outb("data", Reset) /\ call.at = "data" /\ call'.at = "read" /\ pc = "step9"
    BY <1>6 DEF Reset2Sent
  <2>2. AtStep9
    BY <2>1, Places, Zenon
  <2>3. ctl'.full = After.full
    BY <1>1, <2>1, Writes, InputFacts, Zenon
  <2>4. After.expect = "dev2" /\ Drained /\ After.data = FirstAck
    BY <2>1, <2>2 DEF AtStep9
  <2>5. Drained'
    BY <2>1, <2>3, <2>4 DEF Drained, Ready
  <2>6. /\ hw.dev[2] => Becoming(After.ccb, "dev1", TRUE, PS2_RES_ACK)
        /\ ~hw.dev[2] => Becoming(After.ccb, "dev1", After.full, After.data)
    BY <1>1, <2>1, <2>4, DataGives, Zenon
  <2>7. After'.data = SecondAck
    BY <2>4, <2>6 DEF Becoming, SecondAck
  <2>8. AtStep9'
    BY <1>1, <1>2, <2>1, <2>2, <2>5, <2>7 DEF AtStep9
  <2>9. QED
    BY <1>1, <2>1, <2>8, ArrivedSyncNext, Zenon DEF Arrived
<1>7. QED
  BY <1>3, <1>4, <1>5, <1>6

\* An answer is read.
LEMMA SyncAnswered ==
  ASSUME BaseInv, SyncAt, Others, Answered, ~missed'
  PROVE  SyncAt'
\* The answer is read.
<1>ReadGives. ASSUME Machine, hw' = hw, inb, Ready, ~missed',
                     missed' = (missed \/ (~ctl.full /\ ctl.in # <<>>))
              PROVE  /\ ~missed /\ After = ctl /\ ctl'.in = <<>>
                     /\ Becoming(After.ccb, After.expect, FALSE, After.data)
  <2> USE <1>ReadGives
  <2>1. ~missed /\ ctl.in = <<>>
    BY Zenon DEF Ready
  <2>2. After = ctl
    BY <2>1, AfterIs, Zenon DEF AfterFact, Machine
  <2>3. /\ Machine' /\ ctl'.in = <<>> /\ ctl'.ccb = ctl.ccb /\ ctl'.expect = ctl.expect
        /\ ctl'.full = FALSE /\ ctl'.data = ctl.data
    BY <2>1, ReadTyped, Zenon
  <2>4. After' = ctl'
    BY <2>3, AfterIsNext, Zenon DEF AfterFact, Machine
  <2>5. QED
    BY <2>1, <2>2, <2>3, <2>4 DEF Becoming
<1>1. /\ Machine /\ hw' = hw /\ pc' = pc /\ channel_status' = channel_status
      /\ inb /\ resp' = ctl.data /\ call.at = "read" /\ call'.at = "none"
      /\ missed' = (missed \/ (~ctl.full /\ ctl.in # <<>>))
  BY CallIsOver, Zenon DEF BaseInv, Others, Answered
<1>2. pc \in {"step3", "step4b", "step5b", "step6b", "step6c", "step7", "step8b", "step9"}
  BY DEF Answered, RespAt
<1>3. Drained
  BY <1>2, Places
  DEF AtStep3, AtStep4b, AtStep5b, AtStep6bc, AtStep7, AtStep8b, AtStep9
<1>4. Becoming(After.ccb, After.expect, FALSE, After.data) /\ After = ctl /\ ctl'.in = <<>>
  BY <1>1, <1>3, <1>ReadGives, Zenon DEF Drained
<1>5. Drained' /\ resp' = After.data
  BY <1>1, <1>4 DEF Drained, Ready, Becoming
<1>6. /\ \A x : Ccb(x)' = Ccb(x)
      /\ FirstAck' = FirstAck /\ SecondAck' = SecondAck
  BY <1>1 DEF Ccb, FirstAck, SecondAck
<1>7. ASSUME NEW b, Asks(b) PROVE Asks(b)' /\ After'.data = b
  BY <1>1, <1>4, <1>5, <1>7 DEF Asks, Answer, Becoming
<1>8. ASSUME NEW b, Settled(b) PROVE Settled(b)'
  BY <1>4, <1>8 DEF Settled, Becoming
<1>9. CASE pc = "step3"
  <2>1. AtStep3'
    BY <1>5, <1>7, <1>8, <1>9, Places, Zenon DEF AtStep3
  <2>2. QED
    BY <1>1, <1>9, <2>1, ArrivedSyncNext, Zenon DEF Arrived
<1>10. CASE pc = "step4b"
  <2>1. PICK a : a = IF hw.self THEN PS2_SELF_TEST_SUCCESS ELSE {}
    BY Zenon
  <2>2. Settled({4, 5}) /\ Asks(a)
    BY <1>10, <2>1, Places, Zenon DEF AtStep4b
  <2>3. Asks(IF hw.self THEN PS2_SELF_TEST_SUCCESS ELSE {})'
    BY <1>1, <1>7, <2>1, <2>2, Zenon DEF Asks, Answer
  <2>4. AtStep4b'
    BY <1>5, <1>8, <2>2, <2>3, Zenon DEF AtStep4b
  <2>5. QED
    BY <1>1, <1>10, <2>4, ArrivedSyncNext, Zenon DEF Arrived
<1>11. CASE pc = "step5b"
  <2>1. PICK b : b = Ccb({4})
    OBVIOUS
  <2>2. Settled(b) /\ Asks(b)
    BY <1>11, <2>1, Places, Zenon DEF AtStep5b
  <2>3. Settled(b)' /\ Asks(b)' /\ Ccb({4})' = b
    BY <1>6, <1>7, <1>8, <2>1, <2>2, Zenon
  <2>4. AtStep5b'
    BY <1>5, <2>3, Zenon DEF AtStep5b, Settled, Asks, Answer
  <2>5. QED
    BY <1>1, <1>11, <2>4, ArrivedSyncNext, Zenon DEF Arrived
<1>12. CASE pc \in {"step6b", "step6c"}
  <2>1. AtStep6bc
    BY <1>12, Places, Zenon
  <2>2. AtStep6bc'
    BY <1>5, <1>8, <2>1, Zenon DEF AtStep6bc
  <2>3. QED
    BY <1>1, <1>12, <2>2, ArrivedSyncNext, Zenon DEF Arrived
<1>13. CASE pc = "step7"
  <2>1. AtStep7'
    BY <1>5, <1>7, <1>8, <1>13, Places, Zenon DEF AtStep7
  <2>2. QED
    BY <1>1, <1>13, <2>1, ArrivedSyncNext, Zenon DEF Arrived
<1>14. CASE pc = "step8b"
  <2>1. AtStep8b
    BY <1>14, Places, Zenon
  <2>2. AtStep8b'
    BY <1>1, <1>4, <1>5, <1>6, <2>1 DEF AtStep8b, Becoming
  <2>3. QED
    BY <1>1, <1>14, <2>2, ArrivedSyncNext, Zenon DEF Arrived
<1>15. CASE pc = "step9"
  <2>1. AtStep9
    BY <1>15, Places, Zenon
  <2>2. AtStep9'
    BY <1>1, <1>4, <1>5, <1>6, <2>1 DEF AtStep9, Becoming
  <2>3. QED
    BY <1>1, <1>15, <2>2, ArrivedSyncNext, Zenon DEF Arrived
<1>16. QED
  BY <1>2, <1>9, <1>10, <1>11, <1>12, <1>13, <1>14, <1>15

\* The steps of a call.
LEMMA SyncCall ==
  ASSUME BaseInv, SyncAt, Found, CallEffect, Others, ~missed'
  PROVE  SyncAt' /\ Found'
<1>1. pc' = pc /\ channel_status' = channel_status /\ hw' = hw /\ ccb' = ccb
  BY DEF Others
<1>2. Found'
  BY <1>1, Zenon DEF Found
<1>3. CASE Polled
  <2>1. ctl' = ctl /\ call'.at = call.at /\ resp' = resp
    BY <1>3 DEF Polled
  <2>2. After' = After /\ (Ready => Ready')
    BY <1>1, <2>1, SameAfter, Zenon DEF Ready
  <2>3. QED
    BY <1>1, <1>2, <2>1, <2>2, SyncKept
<1>4. CASE ~Polled
  BY <1>2, <1>4, SyncCommand, SyncQuestion, SyncSetting, SyncResets, SyncAnswered, Zenon
  DEF CallEffect
<1>5. QED
  BY <1>3, <1>4

\* A step of ps2_init that leaves the controller alone: what the places speak of.
StaysAs ==
  /\ After' = After /\ hw' = hw /\ (Ready <=> Ready') /\ (\A x : Ccb(x)' = Ccb(x))
  /\ FirstAck' = FirstAck /\ SecondAck' = SecondAck

\* Such a step is one of those of Still.
LEMMA StillStays == ASSUME Still PROVE StaysAs /\ missed' = missed /\ noise' = noise
<1>1. ctl' = ctl /\ hw' = hw /\ missed' = missed /\ noise' = noise
  BY DEF Still, Quiet
<1>2. QED
  BY <1>1, SameAfter, Zenon DEF StaysAs, Ready, FirstAck, SecondAck

\* The output buffer stays empty when a call is made after another is over.
LEMMA StaysDrained ==
  ASSUME StaysAs, Drained, call.at # "read" PROVE Drained' /\ ~After'.full
BY DEF StaysAs, Drained

\* Steps 1 to 3 of ps2_init.
LEMMA SyncStart ==
  ASSUME BaseInv, SyncAt, Found, DisableFirst \/ DisableSecond \/ Flush
  PROVE  SyncAt' /\ Found'
<1>1. Machine /\ hw' = hw /\ call'.at = "first" /\ call.at = "none" /\ channel_status' = channel_status
  <2>1. call'.at = "first"
    <3>1. CASE DisableSecond
      BY <3>1 DEF DisableSecond, Calls, Goto, ps2_send_cmd, Call
    <3>2. CASE DisableFirst \/ Flush
      BY <3>2, StartBase, Zenon
    <3>3. QED
      BY <3>1, <3>2
  <2>2. QED
    BY <2>1, CallIsOver DEF BaseInv, DisableFirst, DisableSecond, Calls, Flush, Still, Quiet, At
<1>2. CASE DisableFirst
  <2>1. pc = "step1" /\ pc' = "step1b" /\ ctl' = ctl
    BY <1>2 DEF DisableFirst, At, Goto
  <2>2. After' = After /\ Ccb({0, 1, 6})' = Ccb({0, 1, 6})
    BY <1>1, <2>1, SameAfter, Zenon DEF Ccb
  <2>3. AtStep1
    BY <2>1, Places, Zenon
  <2>4. AtStep1b'
    BY <1>1, <2>2, <2>3 DEF AtStep1, AtStep1b, Settled
  <2>5. SyncAt'
    BY <2>1, <2>4, ArrivedSyncNext, Zenon DEF Arrived
  <2>6. QED
    BY <1>1, <2>1, <2>5 DEF Found
<1>3. CASE DisableSecond
  <2>1. pc = "step1b" /\ pc' = "step2" /\ StaysAs
    BY <1>3, StillStays, Zenon DEF DisableSecond, Calls, At, Goto
  <2>2. AtStep1b
    BY <2>1, Places, Zenon
  <2>3. AtStep2'
    BY <1>1, <2>1, <2>2 DEF AtStep1b, AtStep2, Settled, StaysAs
  <2>4. SyncAt'
    BY <2>1, <2>3, ArrivedSyncNext, Zenon DEF Arrived
  <2>5. QED
    BY <1>1, <2>1, <2>4 DEF Found
<1>4. CASE Flush
  <2>1. pc = "step2" /\ pc' = "step3" /\ inb
    BY <1>4 DEF Flush, At, Goto
  <2>2. AtStep2
    BY <2>1, Places, Zenon
  <2>3. After.ccb = {0, 1, 4, 5, 6} /\ After.expect = "dev1"
    BY <1>1, <2>2 DEF AtStep2, Settled
  <2>4. ctl.in = <<>> \/ ctl.in = <<"status", "DISABLE_2ND">>
    BY <1>1, <2>2 DEF AtStep2
  <2>5. Machine' /\ ctl'.in = ctl.in /\ ctl'.full = FALSE
    BY <1>1, <2>1, ReadTyped, Zenon
  <2>6. After'.ccb = After.ccb /\ After'.expect = After.expect
    BY <1>1, <2>1, OutsideKeeps, Zenon
  <2>7. After'.full = FALSE
    <3>1. CASE ctl.in = <<>>
      BY <2>5, <3>1, AfterIsNext, Zenon DEF AfterFact, Machine
    <3>2. CASE ctl.in = <<"status", "DISABLE_2ND">>
      <4>1. Becomes(After', Ccb(ctl.ccb \cup {5})', "dev1", ctl'.full, ctl'.data)
        BY <2>5, <3>2, AfterIsNext, Zenon DEF AfterFact, Machine
      <4>2. QED
        BY <2>5, <4>1, Zenon DEF Becomes
    <3>3. QED
      BY <2>4, <3>1, <3>2, Zenon
  <2>8. AtStep3'
    BY <1>1, <2>3, <2>5, <2>6, <2>7 DEF AtStep3, Drained, Ready, Settled, Asks
  <2>9. SyncAt'
    BY <2>1, <2>8, ArrivedSyncNext, Zenon DEF Arrived
  <2>10. QED
    BY <1>1, <2>1, <2>9 DEF Found
<1>5. QED
  BY <1>2, <1>3, <1>4

\* Steps 3 to 5 of ps2_init.
LEMMA SyncTests ==
  ASSUME BaseInv, SyncAt, Found, call'.at = "first" \/ call' = NoCall,
         \/ ClearsCcb \/ SelfTest \/ SelfTestPassed \/ ReadBack \/ OneChannel \/ TwoChannels
  PROVE  SyncAt' /\ Found'
<1>1. call.at = "none" /\ StaysAs /\ call'.at \in {"first", "none"}
  BY CallIsOver, StillStays
  DEF ClearsCcb, SelfTest, SelfTestPassed, ReadBack, OneChannel, TwoChannels, Calls, At
<1>2. hw' = hw /\ After' = After /\ (\A x : Ccb(x)' = Ccb(x)) /\ (Drained => Drained')
  BY <1>1, StaysDrained, Zenon DEF StaysAs
<1>3. CASE ClearsCcb
  <2>1. /\ pc = "step3" /\ pc' = "step4" /\ channel_status' = channel_status
        /\ ccb' = resp \ {0, 1, 6} /\ call'.at = "first"
    BY <1>3 DEF ClearsCcb, At, Goto, ps2_send_cmd_double, Call
  <2>2. AtStep3
    BY <2>1, Places, Zenon
  <2>3. AtStep4'
    BY <1>1, <1>2, <2>1, <2>2, CcbSets DEF AtStep3, AtStep4, Asks
  <2>4. SyncAt'
    BY <2>1, <2>3, ArrivedSyncNext, Zenon DEF Arrived
  <2>5. QED
    BY <1>2, <2>1, <2>4 DEF Found
<1>4. CASE SelfTest
  <2>1. pc = "step4" /\ pc' = "step4b" /\ channel_status' = channel_status /\ call'.at = "first"
    BY <1>4 DEF SelfTest, Calls, At, Goto, ps2_send_cmd_resp, Call
  <2>2. AtStep4
    BY <2>1, Places, Zenon
  <2>3. AtStep4b'
    BY <1>1, <1>2, <2>1, <2>2 DEF AtStep4, AtStep4b, Asks, Settled
  <2>4. SyncAt'
    BY <2>1, <2>3, ArrivedSyncNext, Zenon DEF Arrived
  <2>5. QED
    BY <1>2, <2>1, <2>4 DEF Found
<1>5. CASE SelfTestPassed
  <2>1. /\ pc = "step4b" /\ pc' = "step5" /\ channel_status' = channel_status /\ call'.at = "first"
        /\ resp = PS2_SELF_TEST_SUCCESS
    BY <1>5 DEF SelfTestPassed, At, Goto, ps2_send_cmd, Call
  <2>2. AtStep4b
    BY <2>1, Places, Zenon
  <2>3. AtStep5'
    BY <1>1, <1>2, <2>1, <2>2 DEF AtStep4b, AtStep5, Settled
  <2>4. SyncAt'
    BY <2>1, <2>3, ArrivedSyncNext, Zenon DEF Arrived
  <2>5. hw.self
    BY <1>1, <2>1, <2>2, CcbSets DEF AtStep4b, Asks
  <2>6. QED
    BY <1>2, <2>1, <2>4, <2>5 DEF Found
<1>6. CASE ReadBack
  <2>1. pc = "step5" /\ pc' = "step5b" /\ channel_status' = channel_status /\ call'.at = "first"
    BY <1>6 DEF ReadBack, Calls, At, Goto, ps2_send_cmd_resp, Call
  <2>2. AtStep5
    BY <2>1, Places, Zenon
  <2>3. AtStep5b'
    BY <1>1, <1>2, <2>1, <2>2 DEF AtStep5, AtStep5b, Asks, Settled
  <2>4. SyncAt'
    BY <2>1, <2>3, ArrivedSyncNext, Zenon DEF Arrived
  <2>5. QED
    BY <1>2, <2>1, <2>4 DEF Found, Ended
<1>7. CASE OneChannel
  <2>1. pc = "step5b" /\ pc' = "step6" /\ call'.at = "none" /\ 5 \in resp
    BY <1>7, CallIsOver DEF OneChannel, At, Goto
  <2>2. AtStep5b
    BY <2>1, Places, Zenon
  <2>3. ~hw.two
    BY <1>1, <2>1, <2>2, CcbSets DEF AtStep5b, Asks
  <2>4. AtStep6'
    BY <1>1, <1>2, <2>1, <2>2, <2>3, CcbSets DEF AtStep5b, AtStep6, Settled
  <2>5. SyncAt'
    BY <2>1, <2>4, ArrivedSyncNext, Zenon DEF Arrived
  <2>6. channel_status'[2] # {}
    BY <1>7, CallPlaces DEF OneChannel
  <2>7. QED
    BY <1>2, <2>1, <2>3, <2>5, <2>6 DEF Found, Ended
<1>8. CASE TwoChannels
  <2>1. /\ pc = "step5b" /\ pc' = "step6" /\ call'.at = "first" /\ 5 \notin resp
        /\ channel_status' = channel_status
    BY <1>8 DEF TwoChannels, At, Goto, ps2_send_cmd, Call
  <2>2. AtStep5b
    BY <2>1, Places, Zenon
  <2>3. hw.two
    BY <1>1, <2>1, <2>2, CcbSets DEF AtStep5b, Asks
  <2>4. AtStep6'
    BY <1>1, <1>2, <2>1, <2>2, <2>3, CcbSets DEF AtStep5b, AtStep6, Settled
  <2>5. SyncAt'
    BY <2>1, <2>4, ArrivedSyncNext, Zenon DEF Arrived
  <2>6. QED
    BY <1>2, <2>1, <2>3, <2>5 DEF Found, Ended
<1>9. QED
  BY <1>3, <1>4, <1>5, <1>6, <1>7, <1>8

\* Steps 6 to 8 of ps2_init.
LEMMA SyncEnables ==
  ASSUME BaseInv, SyncAt, Found, call'.at = "first" \/ call' = NoCall,
         \/ TestFirst \/ TestsSecond \/ IsTested \/ EnablesFirst \/ EnablesSecond
         \/ WriteCcb \/ ResetFirst
  PROVE  SyncAt' /\ Found'
<1>1. call.at = "none" /\ StaysAs /\ call'.at \in {"first", "none"} /\ channel_status' = channel_status
  BY CallIsOver, StillStays
  DEF TestFirst, TestsSecond, IsTested, EnablesFirst, EnablesSecond, WriteCcb, ResetFirst, Calls, At
<1>2. hw' = hw /\ After' = After /\ (Drained => Drained') /\ FirstAck' = FirstAck
  BY <1>1, StaysDrained, Zenon DEF StaysAs
<1>3. CASE TestFirst
  <2>1. pc = "step6" /\ pc' = "step6b"
    BY <1>3 DEF TestFirst, Calls, At, Goto
  <2>2. AtStep6
    BY <2>1, Places, Zenon
  <2>3. AtStep6bc'
    BY <1>1, <1>2, <2>2 DEF AtStep6, AtStep6bc, Settled
  <2>4. SyncAt'
    BY <2>1, <2>3, ArrivedSyncNext, Zenon DEF Arrived
  <2>5. QED
    BY <1>1, <1>2, <2>1, <2>4 DEF Found, Ended
<1>4. CASE TestsSecond
  <2>1. pc = "step6b" /\ pc' = "step6c"
    BY <1>4 DEF TestsSecond, At, Goto
  <2>2. AtStep6bc
    BY <2>1, Places, Zenon
  <2>3. AtStep6bc'
    BY <1>1, <1>2, <2>2 DEF AtStep6bc, Settled
  <2>4. SyncAt'
    BY <2>1, <2>3, ArrivedSyncNext, Zenon DEF Arrived
  <2>5. QED
    BY <1>1, <1>2, <2>1, <2>4 DEF Found, Ended
<1>5. CASE IsTested
  <2>1. pc = "step6c" /\ pc' = "step7" /\ call'.at = "first"
    BY <1>5 DEF IsTested, At, Goto, ps2_send_cmd_resp, Call
  <2>2. AtStep6bc
    BY <2>1, Places, Zenon
  <2>3. AtStep7'
    BY <1>1, <1>2, <2>1, <2>2 DEF AtStep6bc, AtStep7, Settled, Asks
  <2>4. SyncAt'
    BY <2>1, <2>3, ArrivedSyncNext, Zenon DEF Arrived
  <2>5. QED
    BY <1>1, <1>2, <2>1, <2>4 DEF Found, Ended
<1>6. CASE EnablesFirst
  <2>1. pc = "step7" /\ pc' = "step7b"
    BY <1>6 DEF EnablesFirst, At, Goto
  <2>2. AtStep7
    BY <2>1, Places, Zenon
  <2>3. AtStep7bc'
    BY <1>1, <1>2, <2>2 DEF AtStep7, AtStep7bc, Settled
  <2>4. SyncAt'
    BY <2>1, <2>3, ArrivedSyncNext, Zenon DEF Arrived
  <2>5. QED
    BY <1>1, <1>2, <2>1, <2>4 DEF Found, Ended
<1>7. CASE EnablesSecond
  <2>1. pc = "step7b" /\ pc' = "step7c"
    BY <1>7 DEF EnablesSecond, At, Goto
  <2>2. AtStep7bc
    BY <2>1, Places, Zenon
  <2>3. AtStep7bc'
    BY <1>2, <2>2 DEF AtStep7bc
  <2>4. SyncAt'
    BY <2>1, <2>3, ArrivedSyncNext, Zenon DEF Arrived
  <2>5. QED
    BY <1>1, <1>2, <2>1, <2>4 DEF Found, Ended
<1>8. CASE WriteCcb
  <2>1. pc = "step7c" /\ pc' = "step8"
    BY <1>8 DEF WriteCcb, Calls, At, Goto
  <2>2. AtStep7bc
    BY <2>1, Places, Zenon
  <2>3. AtStep8'
    BY <1>1, <1>2, <2>2 DEF AtStep7bc, AtStep8
  <2>4. SyncAt'
    BY <2>1, <2>3, ArrivedSyncNext, Zenon DEF Arrived
  <2>5. QED
    BY <1>1, <1>2, <2>1, <2>4 DEF Found, Ended
<1>9. CASE ResetFirst
  <2>1. /\ pc = "step8" /\ pc' = "step8b"
        /\ call' = IF channel_status[1] = {} THEN ps2_send_data_response(Reset) ELSE NoCall
    BY <1>9 DEF ResetFirst, Calls, At, Goto
  <2>2. channel_status[1] = {}
    BY <2>1 DEF BaseInv, Statuses, Ended
  <2>3. call'.at = "first"
    BY <2>1, <2>2 DEF ps2_send_data_response, Call
  <2>4. AtStep8
    BY <2>1, Places, Zenon
  <2>5. AtStep8b'
    BY <1>1, <1>2, <2>3, <2>4 DEF AtStep8, AtStep8b
  <2>6. SyncAt'
    BY <2>1, <2>5, ArrivedSyncNext, Zenon DEF Arrived
  <2>7. QED
    BY <1>1, <1>2, <2>1, <2>6 DEF Found, Ended
<1>10. QED
  BY <1>3, <1>4, <1>5, <1>6, <1>7, <1>8, <1>9

\* The answer to the first reset is looked at.
LEMMA SyncResetSecond ==
  ASSUME BaseInv, SyncAt, Found, ResetSecond PROVE SyncAt' /\ Found'
<1>1. /\ pc = "step8b" /\ pc' = "step9" /\ call.at = "none" /\ StaysAs
      /\ channel_status' = Acknowledged(1)
      /\ call' = IF channel_status[2] = {} THEN ps2_send_data_response_second(Reset) ELSE NoCall
  BY CallIsOver, StillStays, Zenon DEF ResetSecond, At, Goto
<1>2. /\ hw' = hw /\ After' = After /\ (Drained => Drained')
      /\ FirstAck' = FirstAck /\ SecondAck' = SecondAck
  BY <1>1, StaysDrained, Zenon DEF StaysAs
<1>3. channel_status'[2] = channel_status[2] /\ (call' = NoCall \/ call'.at = "first")
  BY ResetSecondBase, Zenon
<1>4. AtStep8b /\ ((channel_status[2] = {}) <=> hw.two) /\ hw.self
  BY <1>1, Places DEF Found, Ended
<1>5. channel_status[1] = {} /\ Low(resp) = resp /\ channel_status \in [Channels -> SUBSET (0 .. 3)]
  BY <1>1, NeverFails DEF BaseInv, Statuses, Ended
<1>6. resp = FirstAck /\ After.data = FirstAck /\ Drained
  BY <1>1, <1>4 DEF AtStep8b
<1>7. (channel_status'[1] = {}) <=> hw.dev[1]
  <2>1. (resp = PS2_RES_ACK) <=> hw.dev[1]
    BY <1>6, CcbSets DEF FirstAck
  <2>2. channel_status'[1] = IF resp # PS2_RES_ACK THEN {2} ELSE {}
    BY <1>1, <1>5, CallPlaces DEF Acknowledged
  <2>3. QED
    BY <2>1, <2>2
<1>8. CASE hw.two
  <2>1. call'.at = "first"
    BY <1>1, <1>4, <1>8 DEF ps2_send_data_response_second, Call
  <2>2. AtStep9'
    BY <1>2, <1>6, <1>7, <2>1 DEF AtStep9
  <2>3. SyncAt'
    BY <1>1, <2>2, ArrivedSyncNext, Zenon DEF Arrived
  <2>4. QED
    BY <1>1, <1>2, <1>3, <1>4, <2>3 DEF Found, Ended
<1>9. CASE ~hw.two
  <2>1. call'.at = "none"
    BY <1>1, <1>4, <1>9, CallIsOver
  <2>2. AtStep9'
    BY <1>2, <1>6, <1>7, <1>9, <2>1 DEF AtStep9
  <2>3. SyncAt'
    BY <1>1, <2>2, ArrivedSyncNext, Zenon DEF Arrived
  <2>4. QED
    BY <1>1, <1>2, <1>3, <1>4, <2>3 DEF Found, Ended
<1>10. QED
  BY <1>8, <1>9

\* ps2_init returns.
LEMMA SyncReturns ==
  ASSUME BaseInv, SyncAt, Found, SelfTestFailed \/ EnableIrqs
  PROVE  SyncAt' /\ Found' /\ ResultIsTrue'
<1>1. hw' = hw /\ call.at = "none" /\ pc' = "kbd"
  BY CallIsOver DEF SelfTestFailed, EnableIrqs, Still, Quiet, At, Returns
<1>2. SyncAt' /\ Found'
  BY <1>1, ArrivedSyncNext DEF Arrived, Found, Ended
<1>3. CASE SelfTestFailed
  <2>1. pc = "step4b" /\ resp # PS2_SELF_TEST_SUCCESS /\ result' = "SELF_TEST_FAILURE"
    BY <1>3 DEF SelfTestFailed, At, Returns
  <2>2. AtStep4b
    BY <2>1, Places, Zenon
  <2>3. ~hw.self
    BY <1>1, <2>1, <2>2 DEF AtStep4b, Asks
  <2>4. QED
    BY <1>1, <1>2, <2>1, <2>3 DEF ResultIsTrue
<1>4. CASE EnableIrqs
  <2>1. pc = "step9" /\ result' = "status" /\ channel_status' = Acknowledged(2)
    BY <1>4 DEF EnableIrqs, At, Returns
  <2>2. AtStep9
    BY <2>1, Places, Zenon
  <2>3. hw.self /\ ((channel_status[2] = {}) <=> hw.two)
    BY <2>1 DEF Found, Ended
  <2>4. Low(resp) = resp /\ channel_status \in [Channels -> SUBSET (0 .. 3)]
    BY NeverFails DEF BaseInv, Statuses
  <2>5. /\ channel_status'[1] = channel_status[1]
        /\ channel_status'[2] = IF channel_status[2] = {} /\ resp # PS2_RES_ACK
                                THEN {2} ELSE channel_status[2]
    BY <2>1, <2>4, CallPlaces DEF Acknowledged
  <2>6. hw.two => (resp = PS2_RES_ACK <=> (hw.dev[1] \/ hw.dev[2]))
    BY <1>1, <2>2, CcbSets DEF AtStep9, SecondAck, FirstAck
  <2>7. (channel_status[1] = {}) <=> hw.dev[1]
    BY <2>2 DEF AtStep9
  <2>8. (channel_status'[2] = {}) <=> (hw.two /\ (hw.dev[1] \/ hw.dev[2]))
    BY <2>3, <2>5, <2>6
  <2>9. QED
    BY <1>1, <1>2, <2>1, <2>3, <2>5, <2>7, <2>8, Zenon DEF ResultIsTrue
<1>5. QED
  BY <1>3, <1>4

\* The steps of the controller, the devices and the handlers.
LEMMA SyncOutside ==
  ASSUME BaseInv, SyncAt, Found, ~noise',
         Take \/ (\E n \in Channels : DeviceSends(n) \/ ps2_handle_interrupt(n))
  PROVE  SyncAt' /\ Found'
<1>1. /\ Machine /\ hw' = hw /\ pc' = pc /\ call' = call /\ resp' = resp /\ ccb' = ccb
      /\ channel_status' = channel_status
  BY DEF BaseInv, Take, DeviceSends, ps2_handle_interrupt, drvvars
<1>2. Found'
  BY <1>1, Zenon DEF Found
<1>3. CASE Take
  <2>1. ctl'.in = <<>> /\ After' = After
    BY <1>1, <1>3, TakeTyped, Zenon
  <2>2. Ready' /\ ctl'.in \in {<<>>, ctl.in}
    BY <2>1, Zenon DEF Ready
  <2>3. QED
    BY <1>1, <1>2, <2>1, <2>2, SyncKept, Zenon
<1>4. ASSUME NEW n \in Channels, DeviceSends(n) PROVE SyncAt'
  <2>1. pc \in {"step1", "step1b", "step2"} \cup Ended
    BY <1>4, Zenon DEF DeviceSends, Ended
  <2>2. After'.ccb = After.ccb /\ After'.expect = After.expect
    BY <1>1, <1>4, OutsideKeeps, Zenon
  <2>3. ctl'.in = ctl.in
    <3>1. \E b \in Bytes : ctl' = Fill(n, b)
      BY <1>4, Ps2Constants DEF DeviceSends, Bytes, BatPassed
    <3>2. QED
      BY <1>1, <1>4, <3>1, FilledTyped, Zenon
  <2>4. \A x : Ccb(x)' = Ccb(x)
    BY <1>1 DEF Ccb
  <2>5. CASE pc = "step1"
    <3>1. AtStep1'
      BY <2>2, <2>4, <2>5, Places DEF AtStep1, Settled
    <3>2. QED
      BY <1>1, <2>5, <3>1, ArrivedSyncNext, Zenon DEF Arrived
  <2>6. CASE pc = "step1b"
    <3>1. AtStep1b
      BY <2>6, Places, Zenon
    <3>2. AtStep1b'
      BY <1>1, <2>2, <2>4, <3>1 DEF AtStep1b, Settled
    <3>3. QED
      BY <1>1, <2>6, <3>2, ArrivedSyncNext, Zenon DEF Arrived
  <2>7. CASE pc = "step2"
    <3>1. AtStep2
      BY <2>7, Places, Zenon
    <3>2. AtStep2'
      BY <1>1, <2>2, <2>3, <2>4, <3>1 DEF AtStep2, Settled
    <3>3. QED
      BY <1>1, <2>7, <3>2, ArrivedSyncNext, Zenon DEF Arrived
  <2>8. CASE pc \in Ended
    BY <1>1, <2>8, ArrivedSyncNext, Zenon DEF Arrived
  <2>9. QED
    BY <2>1, <2>5, <2>6, <2>7, <2>8
<1>5. ASSUME NEW n \in Channels, ps2_handle_interrupt(n) PROVE SyncAt'
  <2>1. pc = "ready"
    BY <1>5 DEF ps2_handle_interrupt, BaseInv, Callbacks
  <2>2. QED
    BY <1>1, <2>1, ArrivedSyncNext DEF Arrived, Ended
<1>6. QED
  BY <1>2, <1>3, <1>4, <1>5

\* What went wrong is not forgotten.
LEMMA HistoryStays == ASSUME [Next]_vars PROVE (missed => missed') /\ (noise => noise')
<1>1. CASE SendFirst \/ Poll \/ SendData \/ SendRead
  <2>1. noise' = noise
    BY <1>1 DEF SendFirst, Poll, SendData, SendRead
  <2>2. missed => missed'
    <3>1. CASE SendFirst
      BY <3>1, Zenon DEF SendFirst, outb
    <3>2. CASE Poll
      BY <3>2 DEF Poll
    <3>3. CASE SendData
      BY <3>3, Zenon DEF SendData, outb
    <3>4. CASE SendRead
      BY <3>4, Zenon DEF SendRead
    <3>5. QED
      BY <1>1, <3>1, <3>2, <3>3, <3>4
  <2>3. QED
    BY <2>1, <2>2, Zenon
<1>2. CASE \/ DisableFirst \/ DisableSecond \/ Flush \/ ClearCcb \/ SelfTest \/ SelfTested
           \/ ReadBack \/ CountChannels \/ TestFirst \/ TestSecond \/ Tested
           \/ EnableFirst \/ EnableSecond \/ WriteCcb \/ ResetFirst \/ ResetSecond \/ EnableIrqs
  <2>1. Quiet
    BY <1>2, Zenon
    DEF DisableFirst, DisableSecond, Flush, ClearCcb, SelfTest, SelfTested, ReadBack, CountChannels,
        TestFirst, TestSecond, Tested, EnableFirst, EnableSecond, WriteCcb, ResetFirst, ResetSecond,
        EnableIrqs, Calls, Still
  <2>2. QED
    BY <2>1 DEF Quiet
<1>3. CASE ps2_register \/ SetCallback \/ enable_int
  BY <1>3 DEF ps2_register, SetCallback, enable_int
<1>4. CASE Take \/ (\E n \in Channels : DeviceSends(n) \/ ps2_handle_interrupt(n))
  <2>1. missed' = missed
    BY <1>4 DEF Take, DeviceSends, ps2_handle_interrupt
  <2>2. CASE Take \/ \E n \in Channels : ps2_handle_interrupt(n)
    BY <2>1, <2>2 DEF Take, ps2_handle_interrupt
  <2>3. CASE \E n \in Channels : DeviceSends(n)
    BY <2>1, <2>3, Zenon DEF DeviceSends
  <2>4. QED
    BY <1>4, <2>2, <2>3
<1>5. CASE UNCHANGED vars
  BY <1>5 DEF vars
<1>6. QED
  BY <1>1, <1>2, <1>3, <1>4, <1>5, Zenon DEF Next, Driver, Interrupts

\* The result of ps2_init stays what it was, or is not there yet.
LEMMA ResultKept ==
  ASSUME ResultIsTrue, ~missed, ~noise, BaseInv',
         UNCHANGED <<result, channel_status, hw>> \/ pc' \notin Ended
  PROVE  ResultIsTrue'
<1>1. CASE UNCHANGED <<result, channel_status, hw>>
  BY <1>1, Zenon DEF ResultIsTrue
<1>2. CASE pc' \notin Ended
  BY <1>2 DEF BaseInv, Outcome, ResultIsTrue
<1>3. QED
  BY <1>1, <1>2

\* Every step preserves SyncInv.
LEMMA SyncInvStep == BaseInv /\ BaseInv' /\ SyncInv /\ [Next]_vars => SyncInv'
<1> SUFFICES ASSUME BaseInv, BaseInv', SyncInv, [Next]_vars, ~missed', ~noise'
             PROVE  SyncAt' /\ Found' /\ ResultIsTrue'
  BY Zenon DEF SyncInv
<1>1. ~missed /\ ~noise /\ SyncAt /\ Found /\ ResultIsTrue
  BY HistoryStays, Zenon DEF SyncInv
<1>2. CASE SendFirst \/ Poll \/ SendData \/ SendRead
  <2>1. CallEffect /\ Others
    BY <1>2, CallSteps, Zenon
  <2>2. SyncAt' /\ Found'
    BY <1>1, <2>1, SyncCall, Zenon
  <2>3. UNCHANGED <<result, channel_status, hw>>
    BY <2>1 DEF Others
  <2>4. QED
    BY <1>1, <2>2, <2>3, ResultKept, Zenon
<1>3. CASE DisableFirst \/ DisableSecond \/ Flush
  <2>1. pc' \notin Ended
    BY <1>3 DEF DisableFirst, DisableSecond, Flush, Calls, Goto, Ended
  <2>2. QED
    BY <1>1, <1>3, <2>1, SyncStart, ResultKept, Zenon
<1>4. CASE SelfTest \/ ReadBack \/ TestFirst \/ WriteCcb \/ ResetFirst
  <2>1. pc' \notin Ended
    BY <1>4 DEF SelfTest, ReadBack, TestFirst, WriteCcb, ResetFirst, Calls, Goto, Ended
  <2>2. call' = NoCall \/ call'.at = "first"
    BY <1>4, CallsSteps, Zenon
  <2>3. SyncAt' /\ Found'
    BY <1>1, <1>4, <2>2, SyncTests, SyncEnables, Zenon
  <2>4. QED
    BY <1>1, <2>1, <2>3, ResultKept, Zenon
<1>5. CASE \/ ClearsCcb \/ SelfTestPassed \/ OneChannel \/ TwoChannels \/ TestsSecond \/ IsTested
           \/ EnablesFirst \/ EnablesSecond
  <2>1. pc' \notin Ended
    BY <1>5 DEF ClearsCcb, SelfTestPassed, OneChannel, TwoChannels, TestsSecond, IsTested,
                EnablesFirst, EnablesSecond, Goto, Ended
  <2>2. call' = NoCall \/ call'.at = "first"
    BY <1>5, ChecksBase, Zenon
  <2>3. SyncAt' /\ Found'
    BY <1>1, <1>5, <2>2, SyncTests, SyncEnables, Zenon
  <2>4. QED
    BY <1>1, <2>1, <2>3, ResultKept, Zenon
<1>6. CASE ResetSecond
  <2>1. pc' \notin Ended
    BY <1>6 DEF ResetSecond, Goto, Ended
  <2>2. QED
    BY <1>1, <1>6, <2>1, SyncResetSecond, ResultKept, Zenon
<1>7. CASE SelfTestFailed \/ EnableIrqs
  BY <1>1, <1>7, SyncReturns, Zenon
<1>8. CASE ps2_register \/ SetCallback \/ enable_int
  <2>1. pc' \in Ended /\ UNCHANGED <<result, channel_status, hw>>
    BY <1>8 DEF ps2_register, SetCallback, enable_int, Ended
  <2>2. SyncAt' /\ Found'
    BY <2>1, ArrivedSyncNext, Zenon DEF Arrived, Found, Ended
  <2>3. QED
    BY <1>1, <2>1, <2>2, ResultKept, Zenon
<1>9. CASE Take \/ (\E n \in Channels : DeviceSends(n) \/ ps2_handle_interrupt(n))
  <2>1. UNCHANGED <<result, channel_status, hw>>
    BY <1>9 DEF Take, DeviceSends, ps2_handle_interrupt, drvvars
  <2>2. QED
    BY <1>1, <1>9, <2>1, SyncOutside, ResultKept, Zenon
<1>10. CASE UNCHANGED vars
  <2>1. /\ UNCHANGED <<result, channel_status, hw>> /\ ctl' = ctl /\ call' = call
        /\ UNCHANGED <<pc, resp, ccb, channel_status>>
    BY <1>10 DEF vars, drvvars
  <2>2. After' = After /\ (Ready => Ready') /\ ctl'.in \in {<<>>, ctl.in} /\ call'.at = call.at
    BY <2>1, SameAfter, Zenon DEF Ready
  <2>3. SyncAt'
    BY <1>1, <2>1, <2>2, SyncKept, Zenon
  <2>4. Found'
    BY <1>1, <2>1, Zenon DEF Found
  <2>5. QED
    BY <1>1, <2>1, <2>3, <2>4, ResultKept, Zenon
<1>11. CASE \/ ClearCcb \/ SelfTested \/ CountChannels \/ TestSecond \/ Tested
            \/ EnableFirst \/ EnableSecond
  BY <1>5, <1>7, <1>11, CheckSteps, Zenon
<1>12. QED
  BY <1>2, <1>3, <1>4, <1>6, <1>7, <1>8, <1>9, <1>10, <1>11, Zenon DEF Next, Driver, Interrupts

\* What ps2_init returns is what the hardware is, whenever the controller kept up and
\* no device spoke out of turn: an error exactly when the self test fails, else a
\* status in which channel 1 is usable exactly when its device acknowledged its reset,
\* and channel 2 if it exists and its device did, but not when there is neither device.
THEOREM ResultIsTrueAlways == Spec => []ResultIsTrue
<1>1. Init => SyncInv
  <2> SUFFICES ASSUME Init PROVE SyncAt /\ Found /\ ResultIsTrue
    BY Zenon DEF SyncInv
  <2>1. After = ctl /\ ctl.ccb = Ccb({0, 1, 6}) /\ ctl.expect = "dev1" /\ pc = "step1"
    BY DEF Init, After, INTR, TRANS1
  <2>2. SyncAt
    BY <2>1, ArrivedSync DEF Arrived, AtStep1, Settled
  <2>3. Found /\ ResultIsTrue
    BY CallPlaces DEF Init, Found, ResultIsTrue
  <2>4. QED
    BY <2>2, <2>3
<1>2. BaseInv /\ SyncInv => ResultIsTrue
  BY Zenon DEF SyncInv, ResultIsTrue
<1>3. QED
  BY <1>1, <1>2, SyncInvStep, BaseInvariant, PTL DEF Spec

-----------------------------------------------------------------------------
(* The keyboard.                                                           *)

\* Every step leaves the keyboard driver alone or passes it one byte.
LEMMA KeyboardSteps ==
  ASSUME [Next]_vars PROVE UNCHANGED kbdvars \/ \E sc : kbd_add_scancode(sc)
<1>1. CASE SendFirst \/ Poll \/ SendData \/ SendRead
  BY <1>1 DEF SendFirst, Poll, SendData, SendRead, kbdvars
<1>2. CASE \/ DisableFirst \/ DisableSecond \/ Flush \/ ClearCcb \/ SelfTest \/ SelfTested
           \/ ReadBack \/ CountChannels \/ TestFirst \/ TestSecond \/ Tested
           \/ EnableFirst \/ EnableSecond \/ WriteCcb \/ ResetFirst \/ ResetSecond \/ EnableIrqs
  <2>1. Quiet
    BY <1>2, Zenon
    DEF DisableFirst, DisableSecond, Flush, ClearCcb, SelfTest, SelfTested, ReadBack, CountChannels,
        TestFirst, TestSecond, Tested, EnableFirst, EnableSecond, WriteCcb, ResetFirst, ResetSecond,
        EnableIrqs, Calls, Still
  <2>2. QED
    BY <2>1 DEF Quiet, kbdvars
<1>3. CASE ps2_register \/ SetCallback \/ enable_int
  BY <1>3 DEF ps2_register, SetCallback, enable_int, kbdvars
<1>4. CASE Take \/ \E n \in Channels : DeviceSends(n)
  BY <1>4 DEF Take, DeviceSends, kbdvars
<1>5. ASSUME NEW n \in Channels, ps2_handle_interrupt(n)
      PROVE  UNCHANGED kbdvars \/ \E sc : kbd_add_scancode(sc)
  BY <1>5, Zenon DEF ps2_handle_interrupt
<1>6. CASE UNCHANGED vars
  BY <1>6 DEF vars, kbdvars
<1>7. QED
  BY <1>1, <1>2, <1>3, <1>4, <1>5, <1>6, Zenon DEF Next, Driver, Interrupts

\* For every table of keys whose prefixes create_keyset.py accepts, and whatever bytes
\* the keyboard sends: the key that kbd_add_scancode prints is the key of the CSV file
\* with exactly the scan codes read since the last one, and 0 when there is none.
THEOREM KeysAreDecodedAlways == Spec => []KeysAreDecoded
<1>1. Init => KeysAreDecoded
  <2>1. Len(Heads) \in Nat
    BY PrefixTyped, Zenon
  <2>2. kbd_init => WalkFollowsHeads /\ event.codes = <<>>
    BY <2>1 DEF kbd_init, WalkFollowsHeads
  <2>3. QED
    BY <2>2, Zenon DEF Init, KeysAreDecoded
<1>2. KeysAreDecoded /\ [Next]_vars => KeysAreDecoded'
  <2> SUFFICES ASSUME KeysAreDecoded, [Next]_vars PROVE KeysAreDecoded'
    OBVIOUS
  <2>1. CASE UNCHANGED kbdvars
    <3>1. curr_map' = curr_map /\ pending' = pending /\ event' = event
      BY <2>1 DEF kbdvars
    <3>2. QED
      BY <3>1, Zenon DEF KeysAreDecoded, WalkFollowsHeads, transform_list
  <2>2. QED
    BY <2>1, KeyboardSteps, Decodes, Zenon
<1>3. QED
  BY <1>1, <1>2, PTL DEF Spec
=============================================================================
