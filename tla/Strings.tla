------------------------------ MODULE Strings -------------------------------
(***************************************************************************)
(* The string library (src/lib/string.c) on a small memory.  A memory maps  *)
(* addresses to bytes and a pointer is an address, so that two arguments    *)
(* may overlap; a function that writes returns the memory it leaves.  The   *)
(* byte at the last address is 0: every pointer is a string.                *)
(***************************************************************************)
EXTENDS Integers, SequencesExt

CONSTANTS
    MEM,  \* the addresses are 1 .. MEM
    Bytes \* the bytes stored, 0 among them

Null == 0
Addr == 1 .. MEM
Memories == { m \in [Addr -> Bytes] : m[MEM] = 0 }

STRING_NULL_ERROR == 3840    \* 0xF00

\* A byte read through a char pointer: char is signed on x86.
Char(b) == IF b < 128 THEN b ELSE b - 256

\* The num bytes at p.
Block(m, p, num) == [i \in 1 .. num |-> m[(p + i) - 1]]

----------------------------------------------------------------------------
(* string.c *)

strlen(m, str) == IF str = Null THEN 0
                  ELSE Min({ i \in 0 .. MEM - str : m[str + i] = 0 })

\* Byte by byte, upwards: a byte already written may be read again.
memcpy(m, dst, src, num) ==
    IF dst = Null \/ src = Null THEN m
    ELSE FoldLeft(LAMBDA mm, i : [mm EXCEPT ![dst + i] = mm[src + i]],
                  m, [j \in 1 .. num |-> j - 1])

memmove(m, dst, src, num) == memcpy(m, dst, src, num)

\* The loop of strcpy, strncpy and strncat: byte by byte until num are copied or
\* the next one of src, in the memory as it is by then, is 0.
CopyString(m, dst, src, num) ==
    FoldLeft(LAMBDA cp, i :
                 IF i > cp.len \/ cp.mem[src + i] = 0 THEN cp
                 ELSE [mem |-> [cp.mem EXCEPT ![dst + i] = cp.mem[src + i]], len |-> i + 1],
             [mem |-> m, len |-> 0], [j \in 1 .. num |-> j - 1])

\* No more bytes than there are in memory.
strcpy(m, dst, src) ==
    IF dst = Null \/ src = Null THEN m
    ELSE LET cp == CopyString(m, dst, src, MEM - Max({dst, src}))
         IN  [cp.mem EXCEPT ![dst + cp.len] = 0]

\* Mutant: the string is terminated only when src is the shorter one.
strncpy_open(m, dst, src, num) ==
    IF dst = Null \/ src = Null THEN m
    ELSE LET cp == CopyString(m, dst, src, num)
         IN  [x \in Addr |-> IF x \in dst + cp.len .. (dst + num) - 1 THEN 0 ELSE cp.mem[x]]

\* Copied, padded up to num, and the last of the num bytes cleared; with num = 0
\* that is the byte before dst.
strncpy(m, dst, src, num) ==
    IF dst = Null \/ src = Null THEN m
    ELSE LET cp == CopyString(m, dst, src, num)
         IN  [x \in Addr |->
                IF x \in dst + cp.len .. (dst + num) - 1 \/ x = (dst + num) - 1 THEN 0 ELSE cp.mem[x]]

strcat(m, dst, src) ==
    IF dst = Null \/ src = Null THEN m ELSE strcpy(m, dst + strlen(m, dst), src)

strncat(m, dst, src, num) ==
    IF dst = Null \/ src = Null THEN m
    ELSE LET end == dst + strlen(m, dst)
             cp  == CopyString(m, end, src, num)
         IN  [cp.mem EXCEPT ![end + cp.len] = 0]

memset(m, ptr, value, num) ==
    IF ptr = Null THEN m
    ELSE [x \in Addr |-> IF x \in ptr .. (ptr + num) - 1 THEN value ELSE m[x]]

memcmp(m, ptr1, ptr2, num) ==
    IF ptr1 = Null \/ ptr2 = Null THEN STRING_NULL_ERROR
    ELSE LET diff == { i \in 0 .. num - 1 : m[ptr1 + i] # m[ptr2 + i] }
         IN  IF diff = {} THEN 0 ELSE m[ptr1 + Min(diff)] - m[ptr2 + Min(diff)]

\* The first position where the strings differ or the first one ends.
StopsAt(m, str1, str2) ==
    Min({ i \in 0 .. MEM - Max({str1, str2}) :
            m[str1 + i] # m[str2 + i] \/ m[str1 + i] = 0 })

strcmp(m, str1, str2) ==
    IF str1 = Null \/ str2 = Null THEN STRING_NULL_ERROR
    ELSE LET i == StopsAt(m, str1, str2) IN Char(m[str1 + i]) - Char(m[str2 + i])

strncmp(m, str1, str2, num) ==
    IF str1 = Null \/ str2 = Null THEN STRING_NULL_ERROR
    ELSE LET i == StopsAt(m, str1, str2)
         IN  IF i >= num THEN 0 ELSE Char(m[str1 + i]) - Char(m[str2 + i])

----------------------------------------------------------------------------
(* What the library promises *)

\* The string at p, as a sequence.
Str(m, p) == Block(m, p, strlen(m, p))

\* m with the bytes s at p, and nothing else changed.
Store(m, p, s) == [x \in Addr |-> IF x - p + 1 \in DOMAIN s THEN s[x - p + 1] ELSE m[x]]

\* A copy upwards may overlap its source from below, as a copy of memory that
\* is moved down does; from above it may only touch it.
MayOverlap(dst, src, num) == dst <= src \/ dst >= src + num

\* memcpy and memmove, which is the same loop, leave at dst exactly the bytes that
\* were at src and change no byte outside, also where the blocks overlap from
\* below; a NULL argument leaves memory alone.  Blocks that overlap from above are
\* left out: see MovesAreExact.
CopiesAreExact(m, dst, src) ==
    \A num \in 0 .. MEM :
        /\ dst = Null \/ src = Null => memmove(m, dst, src, num) = m
        /\ dst # Null /\ src # Null /\ Max({dst, src}) + num <= MEM + 1
                /\ MayOverlap(dst, src, num)
             => memmove(m, dst, src, num) = Store(m, dst, Block(m, src, num))

\* strcpy, strcat, strncpy and strncat leave at dst the string they should, always
\* terminated, and write no byte beyond the room the caller gave: strncpy fills
\* exactly num bytes, one at least (see CopiesStayInside), strncat at most num and
\* the 0 after them.  That is so also where the copy is made downwards, over the
\* source.  A block that memset clears is an empty string to append to.
StringsAreBuilt(m, dst, src) ==
    LET s == Str(m, src)
        d == Str(m, dst)
        end == dst + Len(d)
        apart(p, n) == p >= src + Len(s) + 1 \/ src >= p + n
    IN
    /\ dst + Len(s) <= MEM /\ MayOverlap(dst, src, Len(s) + 1)
         => strcpy(m, dst, src) = Store(m, dst, Append(s, 0))
    /\ end + Len(s) <= MEM /\ MayOverlap(end, src, Len(s) + 1)
         => strcat(m, dst, src) = Store(m, dst, Append(d \o s, 0))
    /\ \A num \in 1 .. MEM :
         LET len == Min({num, Len(s)}) IN
         /\ dst + Max({num, Len(s) + 1}) <= MEM + 1 /\ apart(dst, Max({num, Len(s) + 1}))
              => Str(strcat(memset(m, dst, 0, num), dst, src), dst) = s
         /\ dst + num <= MEM + 1 /\ MayOverlap(dst, src, Len(s) + 1)
              => LET r == strncpy(m, dst, src, num)
                 IN  /\ Str(r, dst) = SubSeq(s, 1, Min({num - 1, Len(s)}))
                     /\ \A x \in Addr \ (dst .. (dst + num) - 1) : r[x] = m[x]
         /\ end + len <= MEM /\ MayOverlap(end, src, Len(s) + 1)
              => strncat(m, dst, src, num)
                    = Store(m, dst, Append(d \o SubSeq(s, 1, len), 0))

\* string.h says of memmove, that it is "just a wrapper to memcpy, nothing has been
\* optimized, so this is ok": it would copy blocks that overlap from above, too.
MovesAreExact(m, dst, src) ==
    \A num \in 0 .. MEM :
        dst # Null /\ src # Null /\ Max({dst, src}) + num <= MEM + 1
          => memmove(m, dst, src, num) = Store(m, dst, Block(m, src, num))

\* string.h says of strncpy that "The string is always null-terminated": with no
\* room it would at least write nothing.
CopiesStayInside(m, dst, src) ==
    dst # Null /\ src # Null => strncpy(m, dst, src, 0) = m

\* The comparisons tell equal from different, agree with each other on a common
\* length, do not depend on the order of their arguments but for the sign, and
\* return the value reserved for NULL for nothing else.
ComparisonsAgree(m, p, q) ==
    /\ (strcmp(m, p, q) = 0) <=> (Str(m, p) = Str(m, q))
    /\ strcmp(m, p, q) = -strcmp(m, q, p)
    /\ \A num \in 0 .. MEM :
         LET cut(s) == SubSeq(s, 1, Min({num, Len(s)})) IN
         /\ (strncmp(m, p, q, num) = 0) <=> (cut(Str(m, p)) = cut(Str(m, q)))
         /\ num > Min({strlen(m, p), strlen(m, q)})
              => strncmp(m, p, q, num) = strcmp(m, p, q)
         /\ Max({p, q}) + num <= MEM + 1
              => (memcmp(m, p, q, num) = 0) <=> (Block(m, p, num) = Block(m, q, num))
         /\ strncmp(m, p, q, num) # STRING_NULL_ERROR
=============================================================================
