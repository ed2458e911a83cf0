------------------------------- MODULE Printf -------------------------------
(***************************************************************************)
(* do_printf (src/lib/stdio.c), through which the kernel prints everything: *)
(* the scanner of format strings, the conversion of numbers and the layout  *)
(* of a field.  A format is a sequence of characters; a word has WORD       *)
(* values, an int argument being the word that stands for it.               *)
(***************************************************************************)
EXTENDS Integers, SequencesExt

CONSTANTS
    WORD,   \* the number of values of a machine word (2^32 in the code)
    Widths  \* the field widths tried

DigitsLower == <<"0", "1", "2", "3", "4", "5", "6", "7", "8", "9", "a", "b", "c", "d", "e", "f">>
DigitsUpper == <<"0", "1", "2", "3", "4", "5", "6", "7", "8", "9", "A", "B", "C", "D", "E", "F">>
Decimal == SubSeq(DigitsLower, 1, 10)

\* The character at a position, or the 0 that ends the format.
At(fmt, i) == IF i <= Len(fmt) THEN fmt[i] ELSE "NUL"

Repeat(c, n) == [i \in 1 .. n |-> c]

----------------------------------------------------------------------------
(* do_printf *)

\* state = flags = given_wd = 0
Reset(st) == [st EXCEPT !.state = 0, !.flags = {}, !.given_wd = 0]

Emit(st, s) == [st EXCEPT !.out = @ \o s]

\* The digits of an unsigned number, the last one computed first.
RECURSIVE Digits(_, _, _)
Digits(num, radix, chars) ==
    (IF num < radix THEN <<>> ELSE Digits(num \div radix, radix, chars))
        \o <<chars[(num % radix) + 1]>>

\* Mutant: the sign is not counted in the width.
Field_unsigned(st, body) ==
    LET sign == IF "WS" \in st.flags THEN <<"-">> ELSE <<>>
        pad  == Max({0, st.given_wd - Len(body)})
        lz   == "LZ" \in st.flags
    IN  Emit(st, (IF lz THEN sign ELSE <<>>)
                 \o Repeat(IF lz THEN "0" ELSE " ", IF "LJ" \in st.flags THEN 0 ELSE pad)
                 \o (IF lz THEN <<>> ELSE sign) \o body
                 \o Repeat(" ", IF "LJ" \in st.flags THEN pad ELSE 0))

\* The labels EMIT and EMIT2: sign and padding around what was converted.
Field(st, body) ==
    LET sign == IF "WS" \in st.flags THEN <<"-">> ELSE <<>>
        pad  == Max({0, st.given_wd - (Len(body) + Len(sign))})
        lz   == "LZ" \in st.flags
    IN  Emit(st, (IF lz THEN sign ELSE <<>>)
                 \o Repeat(IF lz THEN "0" ELSE " ", IF "LJ" \in st.flags THEN 0 ELSE pad)
                 \o (IF lz THEN <<>> ELSE sign) \o body
                 \o Repeat(" ", IF "LJ" \in st.flags THEN pad ELSE 0))

\* The label DO_NUM: the next argument, its sign taken care of, in a radix.
Number(st, signed, radix, chars) ==
    LET num == Head(st.args)
        neg == signed /\ num >= WORD \div 2
    IN  Field([st EXCEPT !.args = Tail(@), !.flags = @ \cup (IF neg THEN {"WS"} ELSE {})],
              Digits(IF neg THEN WORD - num ELSE num, radix, chars))

\* State 4: the conversion character, whatever it is, ends the directive.
Convert(fmt, st) ==
    LET c == At(fmt, st.pos)
        text == [st EXCEPT !.args = Tail(@), !.flags = @ \ {"LZ"}]
    IN  Reset(CASE c = "X" -> Number(st, FALSE, 16, DigitsUpper)
                [] c \in {"x", "p", "n"} -> Number(st, FALSE, 16, DigitsLower)
                [] c \in {"d", "i"} -> Number(st, TRUE, 10, DigitsLower)
                [] c = "u" -> Number(st, FALSE, 10, DigitsLower)
                [] c = "o" -> Number(st, FALSE, 8, DigitsLower)
                [] c = "c" -> Field(text, <<Head(st.args)>>)
                [] c = "s" -> Field(text, Head(st.args))
                [] OTHER -> st)

\* State 3: modifiers.  F, N, l and h set a flag or none and change no number: what
\* h is printed with is the whole word, although stdio.c calls it 16 bits, and no
\* property is about it.  The count of characters that is returned is left out.
Modifier(fmt, st) ==
    IF At(fmt, st.pos) \in {"F", "N", "l", "h"} THEN [st EXCEPT !.state = 3] ELSE Convert(fmt, st)

\* State 2: the digits of the width.
Width(fmt, st) ==
    LET c == At(fmt, st.pos) IN
    IF \E d \in 0 .. 9 : c = Decimal[d + 1]
    THEN [st EXCEPT !.state = 2,
                    !.given_wd = 10 * @ + (CHOOSE d \in 0 .. 9 : c = Decimal[d + 1])]
    ELSE Modifier(fmt, st)

\* State 1: another %, a flag, or the first character of the width.
Flags(fmt, st) ==
    LET c == At(fmt, st.pos) IN
    CASE c = "%" -> Reset(Emit(st, <<c>>))
      [] c = "-" -> IF "LJ" \in st.flags THEN Reset(st)
                    ELSE [st EXCEPT !.state = 1, !.flags = @ \cup {"LJ"}]
      [] c = "0" -> Width(fmt, [st EXCEPT !.flags = @ \cup {"LZ"}, !.pos = @ + 1])
      [] OTHER -> Width(fmt, st)

\* One pass of the loop.
Pass(fmt, st) ==
    CASE st.state = 0 /\ fmt[st.pos] # "%" -> Emit(st, <<fmt[st.pos]>>)
      [] st.state = 0 /\ fmt[st.pos] = "%" -> Flags(fmt, [st EXCEPT !.pos = @ + 1])
      [] st.state = 1 -> Flags(fmt, st)
      [] st.state = 2 -> Width(fmt, st)
      [] st.state = 3 -> Modifier(fmt, st)

RECURSIVE Loop(_, _)
Loop(fmt, st) ==
    IF st.pos > Len(fmt) THEN st
    ELSE Loop(fmt, LET p == Pass(fmt, st) IN [p EXCEPT !.pos = @ + 1])

do_printf(fmt, args) ==
    Loop(fmt, [pos |-> 1, state |-> 0, flags |-> {}, given_wd |-> 0, args |-> args, out |-> <<>>])

----------------------------------------------------------------------------
(* What printing promises *)

\* A directive as its parts, and the characters it is written with.
Directives == [left : BOOLEAN, zero : BOOLEAN, width : Widths, mod : {<<>>, <<"l">>},
               conv : {"d", "u", "o", "x", "X"}]

Written(d) ==
    <<"%">> \o (IF d.left THEN <<"-">> ELSE <<>>) \o (IF d.zero THEN <<"0">> ELSE <<>>)
    \o (IF d.width = 0 THEN <<>> ELSE Digits(d.width, 10, Decimal)) \o d.mod \o <<d.conv>>

Radix(d) == CASE d.conv \in {"d", "u"} -> 10 [] d.conv = "o" -> 8 [] OTHER -> 16

\* The number a sequence of digits stands for, and the word it is the int of.
RECURSIVE ReadsAs(_, _)
ReadsAs(s, d) ==
    IF s = <<>> THEN 0
    ELSE Radix(d) * ReadsAs(Front(s), d)
         + ((CHOOSE k \in 1 .. 16 :
               Last(s) = (IF d.conv = "X" THEN DigitsUpper ELSE DigitsLower)[k]) - 1)

\* r is the field that d prints for the word num: its text, with no needless
\* digit, reads back as num, and the rest of the width is padding at the right place.
IsField(r, d, num) ==
    LET neg   == d.conv = "d" /\ num >= WORD \div 2
        start == IF d.left \/ d.zero THEN 1
                 ELSE Min({ i \in 1 .. Len(r) : r[i] # " " })
        end   == Max({ i \in 1 .. Len(r) : r[i] # " " })
        text  == SubSeq(r, start, end)
        body  == IF neg THEN Tail(text) ELSE text
    IN  /\ neg => text[1] = "-"
        /\ ReadsAs(body, d) = IF neg THEN WORD - num ELSE num
        /\ ~d.left => end = Len(r)
        /\ Len(r) = Max({d.width, Len(text)})
        /\ Len(body) = 1 \/ body[1] # "0" \/ (d.zero /\ ~d.left /\ Len(r) = d.width)

\* Every field prints its argument: it reads back as the word that was passed,
\* negative numbers and the most negative one included, fills its width exactly
\* when it is shorter, and is padded on the side and with the character asked for.
NumbersReadBack(d) ==
    \A num \in 0 .. WORD - 1 : IsField(do_printf(Written(d), <<num>>).out, d, num)

\* A directive ends with its conversion character: what follows is printed as
\* if it stood alone, with the next argument, and neither flags nor width are left over.
DirectivesAreIndependent(d) ==
    \A e \in { x \in Directives : x.mod = <<>> /\ x.conv \in {"d", "x"} }, num \in {5, WORD - 1} :
        LET two == do_printf(Written(d) \o <<"%", "%", "b">> \o Written(e) \o <<"%", "3", "s">>,
                             <<num, 7, <<"z">> >>)
        IN  /\ two.out = do_printf(Written(d), <<num>>).out \o <<"%", "b">>
                         \o do_printf(Written(e), <<7>>).out \o <<" ", " ", "z">>
            /\ two.args = <<>>
=============================================================================
