-------------------------------- MODULE Tools --------------------------------
(***************************************************************************)
(* What the sequential tools compute: mycp.c, mycp2.c, split.c and merge.c *)
(* of "1_File IO", mycp3.c of chapter 5, del.c and pattern.c of chapter 8. *)
(* A file is a sequence of bytes, a loop a function of what is left to do. *)
(***************************************************************************)
EXTENDS Integers, SequencesExt

CONSTANTS MAX_BUF   \* the buffer of the copy loops

VARIABLE tool       \* what the tools are run on

\* junk: a byte of memory pattern.c has not written, "0" is the NUL.
Bytes == {"a", "b"}
Starts == [file : BoundedSeq(Bytes, 5), word : BoundedSeq(Bytes, 2) \ {<< >>},
           junk : Bytes \cup {"0"}]

Least(m, n) == IF m < n THEN m ELSE n

\* What the k bytes of s from position at on (the first is 1) are.
Part(s, at, k) == SubSeq(s, at, at + k - 1)
------------------------------------------------------------------------------
\* while((count = fread(buf,1,n,in)) > 0) fwrite(buf,1,count,out)
CopyRest(s, n) ==
    LET copy[left \in 0..Len(s)] ==
          LET count == Least(n, left)
          IN  IF count = 0 THEN << >>
              ELSE Part(s, Len(s) - left + 1, count) \o copy[left - count]
    IN  copy[Len(s)]

Mycp(s)  == CopyRest(s, 1)
Mycp2(s) == CopyRest(s, MAX_BUF)
Merge(s, t) == CopyRest(s, MAX_BUF) \o CopyRest(t, MAX_BUF)

\* lseek to the last byte fails for an empty file; memcpy of st_size bytes.
Mycp3(s) == IF Len(s) - 1 < 0 THEN << >> ELSE Part(s, 1, Len(s))

\* A faulty SplitFirst: stops when less than a buffer is left.
SplitFirstFull(s) ==
    LET half == Len(s) \div 2
        first[h_size \in 0..half] ==
          IF h_size < MAX_BUF THEN << >>
          ELSE Part(s, half - h_size + 1, MAX_BUF) \o first[h_size - MAX_BUF]
    IN  first[half]

\* The loop that copies the first h_size bytes.
SplitFirst(s) ==
    LET half == Len(s) \div 2
        first[h_size \in 0..half] ==
          LET count == IF h_size > MAX_BUF THEN MAX_BUF ELSE h_size
          IN  IF h_size > 0
              THEN Part(s, half - h_size + 1, count) \o first[h_size - count]
              ELSE << >>
    IN  first[half]
SplitSecond(s) == CopyRest(SubSeq(s, Len(s) \div 2 + 1, Len(s)), MAX_BUF)

\* del(str, c): dst, the characters kept so far, is written over str itself.
Del(str, c) ==
    LET step(dst, k) == IF str[k] # c THEN Append(dst, str[k]) ELSE dst
    IN  FoldLeft(step, << >>, [k \in DOMAIN str |-> k])

\* pattern: the k-th fread is at byte 0, 0, 1, 2, ...; a short one leaves the
\* rest of buf as it was; strstr reads on behind buf.
PatternBuf(file, word, junk) ==
    LET len == Len(word)
        buf[k \in 0 .. Len(file) + 1] ==
          IF k = 0 THEN [j \in 1..len |-> junk]
          ELSE LET idx == IF k = 1 THEN 0 ELSE k - 2
                   got == Part(file, idx + 1, Least(len, Len(file) - idx))
               IN  got \o SubSeq(buf[k - 1], Len(got) + 1, len)
    IN  buf
Pattern(file, word, junk) ==
    IF file = << >> THEN 0
    ELSE LET buf == PatternBuf(file, word, junk)
         IN  Cardinality({k \in 1 .. Len(file) + 1 :
                            \E j \in {1, 2} :
                              Part(buf[k] \o <<junk>>, j, Len(word)) = word})
Init == tool \in Starts
Spec == Init /\ [][UNCHANGED tool]_tool
------------------------------------------------------------------------------
(* Properties *)

\* The copies are copies, whatever the size is to the buffers; the halves of
\* split are halves and merge puts them together; del deletes one character;
\* and pattern misses no occurrence (it counts one at the start twice, and may
\* find more at the end of the file, where buf is not filled: pattern.c:21).
ToolsRight ==
    LET s == tool.file
        w == tool.word
        one == SplitFirst(s)
        two == SplitSecond(s)
        found == {p \in 1 .. Len(s) - Len(w) + 1 : Part(s, p, Len(w)) = w}
    IN  /\ \A copy \in {Mycp(s), Mycp2(s), Mycp3(s), Merge(one, two)} : copy = s
        /\ Len(two) - Len(one) \in {0, 1}
        /\ \A c \in Bytes : Del(s, c) = SelectSeq(s, LAMBDA b : b # c)
        /\ Pattern(s, w, tool.junk) >=
              Cardinality(found) + (IF 1 \in found THEN 1 ELSE 0)
==============================================================================
