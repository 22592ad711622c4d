------------------------------ MODULE Strings ------------------------------
(***************************************************************************)
(* The string and memory functions of lib/klib.c.  A string is the         *)
(* sequence of its characters, which are not 0; what a function stores is  *)
(* a function from the offsets it stores at to the characters stored.      *)
(***************************************************************************)
EXTENDS Format

CharAt(s, i) == IF i < Len(s) THEN s[i + 1] ELSE 0
\* The first n characters of src, and then a 0 at end.
Stored(src, n, end) == [i \in {end} \cup 0 .. n - 1 |-> IF i = end THEN 0 ELSE CharAt(src, i)]

\* The string that is at dest bounds what is copied.
kernel_strcpy(dest, src) ==
  LET n == Least(Len(dest), Len(src)) IN Stored(src, n, n)

\* The loop leaves size 0 when src has one character less than size, and -1 when
\* it ends by size: the 0 goes over the last character copied, or behind size.
kernel_strncpy(src, size) ==
  LET n == Least(size, Len(src))
  IN IF size = 0 THEN <<>> ELSE Stored(src, n, IF n = size - 1 THEN n - 1 ELSE n)

\* size is tested and never counted down.
kernel_strncmp(s1, s2, size) ==
  LET same == {i \in 0 .. Least(Len(s1), Len(s2)) : \A j \in 0 .. i - 1 : s1[j + 1] = s2[j + 1]}
      stop == IF size = 0 THEN 0 ELSE CHOOSE i \in same : \A j \in same : j <= i
  IN IF 0 \in {CharAt(s1, stop), CharAt(s2, stop)} \/ CharAt(s1, stop) = CharAt(s2, stop)
     THEN 0 ELSE 1

\* A mutant: the last byte first.
MemcpyBackward(memory, dest, src, size) ==
  LET after[n \in 0 .. size] ==
        IF n = 0 THEN memory ELSE [after[n - 1] EXCEPT ![dest + size - n] = after[n - 1][src + size - n]]
  IN after[size]

\* Byte by byte from the first on, where the ranges overlap too.
kernel_memcpy(memory, dest, src, size) ==
  LET after[n \in 0 .. size] ==
        IF n = 0 THEN memory ELSE [after[n - 1] EXCEPT ![dest + n - 1] = after[n - 1][src + n - 1]]
  IN after[size]

kernel_memset(memory, dest, v, size) ==
  [i \in DOMAIN memory |-> IF i \in dest .. dest + size - 1 THEN v ELSE memory[i]]

kernel_memcmp(s1, s2, size) == IF SubSeq(s1, 1, size) = SubSeq(s2, 1, size) THEN 0 ELSE 1

\* The remainder of a negative number is negative, as its place in num2ch is to
\* the left of the middle; its magnitude is never formed.
Quotient(n, base) == IF n < 0 THEN -((-n) \div base) ELSE n \div base
kernel_itoa(num, base) ==
  LET negative == num < 0 /\ base = 10
      num2ch(r) == Digits(FALSE)[(IF r < 0 THEN -r ELSE r) + 1]
      reversed[n \in -(2 * IntHalf) .. 2 * IntHalf] ==
        <<num2ch(n - base * Quotient(n, base))>>
          \o IF Quotient(n, base) = 0 THEN <<>> ELSE reversed[Quotient(n, base)]
  IN IF base \notin {2, 8, 10, 16} THEN <<>>
     ELSE IF negative THEN <<"-">> \o Reverse(reversed[num])
     ELSE Reverse(reversed[AsInt(num)])

\* One directive of kernel_vsprintf, which knows no flags.
kernel_directive(d) ==
  LET int == Signed(AsInt(d.arg), IntHalf)
  IN CASE d.conv = "d" -> kernel_itoa(int, 10)
       [] d.conv = "x" -> kernel_itoa(int, 16)
       [] d.conv = "c" -> <<d.text[1]>>
       [] d.conv = "s" -> d.text
       [] OTHER -> <<>>

-----------------------------------------------------------------------------
Prefix(s, t) == Len(s) <= Len(t) /\ SubSeq(t, 1, Len(s)) = s

\* The number a text of kernel_itoa denotes.
Denotes(text, base) ==
  LET figures == IF text[1] = "-" THEN Tail(text) ELSE text
      n == ValueOf(figures, base, Digits(FALSE))
  IN IF text[1] = "-" THEN -n ELSE n

\* A number is written so that it reads back, the lowest negative one in decimal
\* too, and the others as unsigned; as a width in a format it is read as itself.
ItoaReadsBack(num, base) ==
  /\ Denotes(kernel_itoa(num, base), base) = IF base = 10 THEN num ELSE AsInt(num)
  /\ base = 10 /\ num >= 0 => skip_atoi(kernel_itoa(num, base)) = num

\* Where both formatters of the kernel know a directive, they print the same.
FormattersAgree(d) ==
  d.flags = {} /\ d.width = -1 /\ d.precision = -1 /\ d.qualifier = "" =>
    /\ d.conv \in {"c", "d", "s"} => kernel_directive(d) = Directive(d)
    /\ d.conv = "X" => kernel_directive([d EXCEPT !.conv = "x"]) = Directive(d)

Bytes(memory, from, size) == [i \in 1 .. size |-> memory[from + i - 1]]

\* A copy compares equal to what was copied, also when the source has been filled
\* since, unless it is moved up onto itself; no other byte is touched.
MemcpyMoves(memory, dest, src, size) ==
  LET after == kernel_memcpy(memory, dest, src, size)
      filled == kernel_memset(after, src, 9, size)
      apart == {dest .. dest + size - 1, src .. src + size - 1}
  IN /\ dest <= src \/ dest >= src + size =>
          kernel_memcmp(Bytes(after, dest, size), Bytes(memory, src, size), size) = 0
     /\ dest + size <= src \/ dest >= src + size =>
          kernel_memcmp(Bytes(filled, dest, size), Bytes(memory, src, size), size) = 0
     /\ \A i \in DOMAIN memory \ UNION apart : filled[i] = memory[i]

\* A copy of a string stores no more than the string that was there had room for;
\* a copy of at most size characters, no further than one byte outside of size on
\* either side, and what can be read at the destination starts src.
CopiesStay(dest, src, size) ==
  /\ DOMAIN kernel_strcpy(dest, src) \subseteq 0 .. Len(dest)
  /\ LET stores == kernel_strncpy(src, size)
     IN /\ DOMAIN stores \subseteq -1 .. size
        /\ \A i \in DOMAIN stores :
             stores[i] = 0 \/ (i \in 0 .. Len(src) - 1 /\ stores[i] = src[i + 1])

\* The characters a comparison of at most size of them may look at.
Upto(s, size) == SubSeq(s, 1, Least(size, Len(s)))

\* "If one string ends first they count as equal": a string compares as equal to
\* what it starts with, and as different when the two differ in what may be
\* compared.  Of strings that differ behind size nothing is said: "at most size
\* characters" are compared, and the code compares them all.
ComparesPrefixes(s1, s2, size) ==
  /\ Prefix(s1, s2) \/ Prefix(s2, s1) => kernel_strncmp(s1, s2, size) = 0
  /\ ~Prefix(Upto(s1, size), Upto(s2, size)) /\ ~Prefix(Upto(s2, size), Upto(s1, size))
       => kernel_strncmp(s1, s2, size) # 0
=============================================================================
