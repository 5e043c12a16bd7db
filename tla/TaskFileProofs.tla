--------------------------- MODULE TaskFileProofs ---------------------------
(***************************************************************************)
(* What the task file keeps, for any tids, names, scores and times, any    *)
(* number of tasks and items.  The argument has four parts.                *)
(*                                                                         *)
(* 1. Types.  A reader that is given lines leaves lines, whatever is on    *)
(*    disk, so Load always makes tasks (LoadLoopType).  Its loops are      *)
(*    recursive functions; Turns and Rests give their states and those of  *)
(*    FlattenSeq by the least turn at which they would go wrong.           *)
(*                                                                         *)
(* 2. One task.  A stream is solid when it begins with a word.  In front   *)
(*    of a solid stream the blanks that fscanf skips are those it should,  *)
(*    so each reader takes the line its writer wrote (LoadTaskWhole), and  *)
(*    FinishInit finds the percents it made (FinishInitKeeps).  A stamp    *)
(*    of two words and a first item without a name break just this.        *)
(*                                                                         *)
(* 3. A whole file.  After k turns the list is the last task of each tid   *)
(*    among the first k (NewestAt), and the stream is at the next task.    *)
(*                                                                         *)
(* 4. A cut file.  CutAt says what a crash leaves.  The readers keep the   *)
(*    stream either a cut of what it should be or at its end: the tasks    *)
(*    before the cut are read as in 3, the one that is cut ends the file,  *)
(*    and nothing can be read behind it (LoadTaskCut, LoadCut).  The lines *)
(*    the crash left tell how many tasks these are (PrefixLines).          *)
(***************************************************************************)
EXTENDS TaskFile, ExamScoreProofs

-----------------------------------------------------------------------------
(* Blanks, words and lines                                                  *)

\* A stream that begins with a word, or is at its end.
Solid(in) == in = <<>> \/ Head(in) # <<>>

\* The minimum of a set of naturals.
LEMMA MinIn ==
  ASSUME NEW S \in SUBSET Nat, S # {}
  PROVE  Min(S) \in S /\ \A y \in S : Min(S) <= y
<1>1. \E x \in S : \A y \in S : x <= y
  BY LeastElement
<1> QED BY <1>1 DEF Min

\* After the blanks comes a word or the end.
LEMMA SkipType ==
  ASSUME NEW L, NEW in \in Seq(L)
  PROVE  Skip(in) \in Seq(L) /\ Solid(Skip(in))
<1> DEFINE text == {i \in DOMAIN in : in[i] # <<>>}
           n == Len(in)
<1>1. n \in Nat /\ DOMAIN in = 1..n /\ \A i \in 1..n : in[i] \in L
  BY LenProperties, ElementOfSeq
<1>2. CASE text = {}
  <2>1. Skip(in) = <<>>
    BY <1>2 DEF Skip
  <2> QED BY <2>1, EmptySeq DEF Solid
<1>3. CASE text # {}
  <2> DEFINE m == Min(text)
             s == SubSeq(in, m, n)
  <2>1. m \in text
    <3>1. text \in SUBSET Nat
      BY <1>1
    <3> HIDE DEF text
    <3> QED BY <1>3, <3>1, MinIn
  <2>2. m \in 1..n /\ in[m] # <<>>
    BY <1>1, <2>1
  <2>3. Skip(in) = s
    BY <1>3 DEF Skip
  <2> HIDE DEF n, m, text
  <2>4. s \in Seq(L) /\ Len(s) = n - m + 1 /\ s[1] = in[m]
    <3>1. m \in Int /\ n \in Int /\ \A i \in m..n : in[i] \in L
      BY <1>1, <2>2
    <3>2. /\ s \in Seq(L)
          /\ Len(s) = IF m <= n THEN n - m + 1 ELSE 0
          /\ \A i \in 1..(n - m + 1) : s[i] = in[m + i - 1]
      BY ONLY <3>1, SubSeqProperties
    <3>3. m <= n /\ 1 \in 1..(n - m + 1) /\ m + 1 - 1 = m
      BY <1>1, <2>2
    <3> HIDE DEF s
    <3> QED BY <3>2, <3>3
  <2> HIDE DEF s
  <2>5. s # <<>> /\ Head(s) = s[1]
    <3>1. Len(s) # 0
      BY <1>1, <2>2, <2>4
    <3>2. s # <<>>
      BY <3>1
    <3> QED BY <2>4, <3>2
  <2> QED BY <2>2, <2>3, <2>4, <2>5 DEF Solid
<1> QED BY <1>2, <1>3

\* A stream without blanks in front stays as it is.
LEMMA SkipSolid ==
  ASSUME NEW L, NEW in \in Seq(L), Solid(in)
  PROVE  Skip(in) = in
<1> DEFINE text == {i \in DOMAIN in : in[i] # <<>>}
<1>1. CASE in = <<>>
  <2>1. text = {}
    BY <1>1
  <2> QED BY <1>1, <2>1 DEF Skip
<1>2. CASE in # <<>>
  <2>1. Len(in) \in Nat /\ Len(in) >= 1 /\ DOMAIN in = 1..Len(in) /\ Head(in) = in[1]
    BY <1>2, EmptySeq, LenProperties
  <2>2. 1 \in text /\ \A y \in text : 1 <= y
    BY <1>2, <2>1 DEF Solid
  <2>3. text \in SUBSET Nat
    BY <2>1
  <2>4. Skip(in) = SubSeq(in, Min(text), Len(in))
    BY <2>2 DEF Skip
  <2> HIDE DEF text
  <2>5. Min(text) = 1
    <3>1. Min(text) \in text /\ Min(text) <= 1
      BY <2>2, <2>3, MinIn
    <3>2. Min(text) \in Nat /\ 1 <= Min(text)
      BY <2>2, <2>3, <3>1
    <3> QED BY <3>1, <3>2
  <2> QED BY <2>4, <2>5, SubSeqFull
<1> QED BY <1>1, <1>2

\* A line that has been read to its end is skipped.
LEMMA SkipBlank ==
  ASSUME NEW L, NEW in \in Seq(L), <<>> \in L, Solid(in)
  PROVE  Skip(<< <<>> >> \o in) = in
<1> DEFINE all == << <<>> >> \o in
           n == Len(in)
           text == {i \in DOMAIN all : all[i] # <<>>}
<1>1. n \in Nat /\ DOMAIN in = 1..n
  BY LenProperties
<1>2. << <<>> >> \in Seq(L) /\ Len(<< <<>> >>) = 1 /\ << <<>> >>[1] = <<>>
  OBVIOUS
<1>3. /\ all \in Seq(L) /\ Len(all) = n + 1 /\ DOMAIN all = 1..(n + 1)
      /\ all[1] = <<>> /\ \A i \in 1..n : all[i + 1] = in[i]
  OBVIOUS
<1>4. CASE in = <<>>
  <2>1. n = 0
    BY <1>4
  <2> HIDE DEF n, all
  <2>2. text = {}
    <3>1. DOMAIN all = {1}
      BY <1>3, <2>1
    <3> QED BY <1>3, <3>1
  <2> QED BY <1>4, <2>2 DEF Skip, all
<1>5. CASE in # <<>>
  <2>1. n >= 1 /\ Head(in) = in[1]
    BY <1>5, EmptySeq
  <2>2. in[1] # <<>>
    BY <1>5, <2>1 DEF Solid
  <2> HIDE DEF n, all
  <2>3. 2 \in text /\ 1 \notin text /\ text \in SUBSET Nat
    <3>1. 2 \in DOMAIN all /\ all[1 + 1] = in[1]
      BY <1>1, <1>3, <2>1
    <3> QED BY <1>1, <1>3, <2>2, <3>1
  <2>4. Skip(all) = SubSeq(all, Min(text), Len(all))
    BY <2>3 DEF Skip
  <2>5. \A y \in text : y \in 1..(n + 1)
    BY <1>3
  <2> HIDE DEF text
  <2>6. Min(text) = 2
    <3> DEFINE m == Min(text)
    <3>1. m \in text /\ m <= 2
      BY <2>3, MinIn
    <3> HIDE DEF m
    <3>2. m \in 1..(n + 1)
      BY <2>5, <3>1
    <3>3. m # 1
      BY <2>3, <3>1
    <3>4. m = 2
      BY <1>1, <3>1, <3>2, <3>3
    <3> QED BY <3>4 DEF m
  <2>7. SubSeq(all, 2, n + 1) = in
    <3> DEFINE k == n + 1
               s == SubSeq(all, 2, k)
    <3>1. 2 \in Int /\ k \in Int /\ \A i \in 2..k : all[i] \in L
      <4>1. \A i \in 1..Len(all) : all[i] \in L
        BY <1>3, ElementOfSeq
      <4> QED BY <1>1, <1>3, <4>1
    <3>2. /\ s \in Seq(L)
          /\ Len(s) = IF 2 <= k THEN k - 2 + 1 ELSE 0
          /\ \A i \in 1..(k - 2 + 1) : s[i] = all[2 + i - 1]
      <4> HIDE DEF k
      <4> QED BY ONLY <3>1, SubSeqProperties
    <3> HIDE DEF s
    <3>3. Len(s) = n /\ \A i \in 1..n : s[i] = in[i]
      <4>1. \A i \in 1..n : i \in 1..(k - 2 + 1) /\ 2 + i - 1 = i + 1
        BY <1>1
      <4>2. Len(s) = n
        BY <1>1, <2>1, <3>2
      <4> QED BY <1>3, <3>2, <4>1, <4>2
    <3>4. Len(in) = n /\ in \in Seq(L)
      BY DEF n
    <3>5. s = in
      BY ONLY <3>2, <3>3, <3>4, SeqEqual
    <3> QED BY <3>5 DEF s
  <2> QED BY <1>3, <2>4, <2>6, <2>7 DEF all
<1> QED BY <1>4, <1>5

\* The words a file may hold; what %d can read off one is an integer.
Kinds == {"int", "stamp", "date", "time", "tid", "cutTid", "name", "long", "remains", "junk", "cut"}
Words == {w \in [kind : Kinds, v : Int \cup Tids \cup Names] : StartsWithInt(w) => w.v \in Int}
Line == {l \in Seq(Words) : Len(l) <= WordsPerLine}
Text == Seq(Line)

\* What Save and a crash put into the file are words.
LEMMA SomeWords ==
  /\ Junk \in Words /\ Remains \in Words /\ NeverRun \in Words /\ Stub \in Words
  /\ \A n \in Int : IntWord(n) \in Words /\ Word("date", n) \in Words /\ Word("time", n) \in Words
  /\ \A tid \in Tids : Word("tid", tid) \in Words /\ Word("cutTid", tid) \in Words
  /\ \A name \in Names : Word("name", name) \in Words /\ Word("long", name) \in Words
<1>1. ASSUME NEW k \in Kinds, NEW v \in Int \cup Tids \cup Names,
             k \in {"int", "stamp", "date", "time"} => v \in Int
      PROVE  Word(k, v) \in Words
  <2> DEFINE w == [kind |-> k, v |-> v]
  <2>1. w.kind = k /\ w.v = v /\ w \in [kind : Kinds, v : Int \cup Tids \cup Names]
    OBVIOUS
  <2> HIDE DEF w
  <2>2. w \in Words
    BY <1>1, <2>1 DEF Words, StartsWithInt
  <2> QED BY <2>2 DEF w, Word
<1>2. Junk \in Words /\ Remains \in Words /\ NeverRun \in Words /\ Stub \in Words
  BY <1>1 DEF Junk, Remains, NeverRun, Stub, Kinds
<1>3. \A n \in Int : IntWord(n) \in Words /\ Word("date", n) \in Words /\ Word("time", n) \in Words
  BY <1>1 DEF IntWord, Kinds
<1>4. \A tid \in Tids : Word("tid", tid) \in Words /\ Word("cutTid", tid) \in Words
  BY <1>1 DEF Kinds
<1>5. \A name \in Names : Word("name", name) \in Words /\ Word("long", name) \in Words
  BY <1>1 DEF Kinds
<1> QED BY <1>2, <1>3, <1>4, <1>5

\* A stream with one more line in front.
LEMMA InFront ==
  ASSUME NEW L, NEW in \in Seq(L), NEW x \in L
  PROVE  /\ <<x>> \o in \in Seq(L) /\ <<x>> \o in # <<>>
         /\ Head(<<x>> \o in) = x /\ Tail(<<x>> \o in) = in
         /\ Len(<<x>> \o in) = Len(in) + 1
<1> DEFINE s == <<x>> \o in
           n == Len(in)
<1>1. n \in Nat /\ <<x>> \in Seq(L) /\ Len(<<x>>) = 1 /\ <<x>>[1] = x
  BY LenProperties
<1>2. /\ s \in Seq(L) /\ Len(s) = n + 1
      /\ s[1] = x /\ \A i \in 1..n : s[i + 1] = in[i]
  OBVIOUS
<1> HIDE DEF s, n
<1>3. s # <<>>
  <2>1. Len(s) # 0
    BY <1>1, <1>2
  <2> QED BY <2>1
<1>4. Head(s) = x
  BY <1>2, <1>3
<1>5. /\ Tail(s) \in Seq(L) /\ Len(Tail(s)) = n
      /\ \A i \in 1..n : Tail(s)[i] = s[i + 1]
  BY <1>1, <1>2, <1>3, HeadTailProperties
<1>6. Tail(s) = in
  <2>1. Len(Tail(s)) = Len(in) /\ \A i \in 1..Len(Tail(s)) : Tail(s)[i] = in[i]
    BY <1>2, <1>5 DEF n
  <2> HIDE DEF s
  <2> QED BY <1>5, <2>1, SeqEqual
<1> QED BY <1>2, <1>3, <1>4, <1>6 DEF s, n

\* %s reads a word that stands alone on its line.
LEMMA ScanSIs ==
  ASSUME NEW in \in Text, Solid(in), NEW w \in Words
  PROVE  ScanS(<< <<w>> >> \o in) = [eof |-> FALSE, word |-> w, in |-> in]
<1> DEFINE all == << <<w>> >> \o in
<1>1. <<w>> \in Line /\ <<>> \in Line /\ in \in Seq(Line)
  BY DEF Line, WordsPerLine, Text
<1>2. all \in Seq(Line) /\ all # <<>> /\ Head(all) = <<w>> /\ Tail(all) = in
  BY <1>1, InFront
<1>3. <<w>> # <<>> /\ Head(<<w>>) = w /\ Tail(<<w>>) = <<>>
  OBVIOUS
<1> HIDE DEF all
<1>4. Skip(all) = all
  BY <1>2, <1>3, SkipSolid DEF Solid
<1>5. Skip(<< Tail(Head(all)) >> \o Tail(all)) = in
  BY <1>1, <1>2, <1>3, SkipBlank
<1> QED BY <1>2, <1>3, <1>4, <1>5 DEF ScanS, all

\* %d reads an integer that stands alone on its line.
LEMMA ScanDIs ==
  ASSUME NEW in \in Text, Solid(in), NEW n \in Int, NEW old
  PROVE  ScanD(<< <<IntWord(n)>> >> \o in, old) = [v |-> n, in |-> in]
<1> DEFINE w == IntWord(n)
           all == << <<w>> >> \o in
<1>1. w \in Words /\ StartsWithInt(w) /\ LeftBehind(w) = <<>> /\ w.v = n
  BY SomeWords DEF StartsWithInt, LeftBehind, IntWord, Word
<1> HIDE DEF w
<1>2. <<w>> \in Line /\ <<>> \in Line /\ in \in Seq(Line)
  BY <1>1 DEF Line, WordsPerLine, Text
<1>3. all \in Seq(Line) /\ all # <<>> /\ Head(all) = <<w>> /\ Tail(all) = in
  BY <1>2, InFront
<1>4. <<w>> # <<>> /\ Head(<<w>>) = w /\ <<>> \o Tail(<<w>>) = <<>>
  OBVIOUS
<1> HIDE DEF all
<1>5. Skip(all) = all
  BY <1>3, <1>4, SkipSolid DEF Solid
<1>6. Skip(<< LeftBehind(w) \o Tail(Head(all)) >> \o Tail(all)) = in
  <2>1. LeftBehind(w) \o Tail(Head(all)) = <<>>
    BY <1>1, <1>3, <1>4
  <2> QED BY <1>2, <1>3, <2>1, SkipBlank
<1>7. ScanD(all, old) = [v |-> n, in |-> in]
  BY <1>1, <1>3, <1>4, <1>5, <1>6 DEF ScanD
<1> QED BY <1>7 DEF all, w

\* At the end of the file nothing is read.
LEMMA ScanEnd ==
  ASSUME NEW old
  PROVE  /\ ScanS(<<>>).eof = TRUE /\ ScanS(<<>>).in = <<>>
         /\ ScanD(<<>>, old) = [v |-> old, in |-> <<>>]
<1>1. Skip(<<>>) = <<>>
  <2>1. <<>> \in Seq(Line) /\ Solid(<<>>)
    BY EmptySeq DEF Solid
  <2> QED BY <2>1, SkipSolid
<1>2. ScanS(<<>>) = [eof |-> TRUE, word |-> Junk, in |-> <<>>]
  BY <1>1 DEF ScanS
<1>3. ScanD(<<>>, old) = [v |-> old, in |-> <<>>]
  BY <1>1 DEF ScanD
<1> QED BY <1>2, <1>3

\* %s reads a word of the file, and leaves lines.
LEMMA ScanSType ==
  ASSUME NEW in \in Text
  PROVE  /\ ScanS(in).eof \in BOOLEAN
         /\ ScanS(in).word \in Words
         /\ ScanS(in).in \in Text
<1> DEFINE s == Skip(in)
           rest == << Tail(Head(s)) >> \o Tail(s)
<1>1. s \in Seq(Line) /\ Solid(s)
  BY SkipType DEF Text
<1> HIDE DEF s
<1>2. CASE s = <<>>
  <2>1. ScanS(in) = [eof |-> TRUE, word |-> Junk, in |-> s]
    BY <1>2 DEF ScanS, s
  <2> QED BY <1>1, <2>1, SomeWords DEF Text
<1>3. CASE s # <<>>
  <2>1. Head(s) \in Line /\ Head(s) # <<>> /\ Tail(s) \in Seq(Line)
    BY <1>1, <1>3, HeadTailProperties DEF Solid
  <2>2. Head(Head(s)) \in Words /\ Tail(Head(s)) \in Line
    BY <2>1, HeadTailProperties DEF Line, WordsPerLine
  <2>3. rest \in Seq(Line)
    BY <2>1, <2>2, InFront
  <2>4. ScanS(in) = [eof |-> FALSE, word |-> Head(Head(s)), in |-> Skip(rest)]
    BY <1>3 DEF ScanS, s
  <2> HIDE DEF rest
  <2>5. Skip(rest) \in Text
    BY <2>3, SkipType DEF Text
  <2> QED BY <2>2, <2>4, <2>5
<1> QED BY <1>2, <1>3

\* %d reads an integer, and leaves lines.
LEMMA ScanDType ==
  ASSUME NEW in \in Text, NEW old \in Int
  PROVE  ScanD(in, old).v \in Int /\ ScanD(in, old).in \in Text
<1> DEFINE s == Skip(in)
           w == Head(Head(s))
           rest == << LeftBehind(w) \o Tail(Head(s)) >> \o Tail(s)
<1>1. s \in Seq(Line) /\ Solid(s)
  BY SkipType DEF Text
<1> HIDE DEF s
<1>2. CASE s # <<>> /\ StartsWithInt(w)
  <2>1. Head(s) \in Line /\ Head(s) # <<>> /\ Tail(s) \in Seq(Line)
    BY <1>1, <1>2, HeadTailProperties DEF Solid
  <2>2. w \in Words /\ Tail(Head(s)) \in Line
    BY <2>1, HeadTailProperties DEF Line, WordsPerLine
  <2>3. ScanD(in, old) = [v |-> w.v, in |-> Skip(rest)]
    BY <1>2 DEF ScanD, s
  <2> HIDE DEF w
  <2>4. w.v \in Int
    BY <1>2, <2>2 DEF Words
  <2>5. LeftBehind(w) \in Seq(Words) /\ Len(LeftBehind(w)) <= 1
    BY SomeWords DEF LeftBehind
  <2>6. LeftBehind(w) \o Tail(Head(s)) \in Line
    <3>1. /\ Tail(Head(s)) \in Seq(Words) /\ Len(Tail(Head(s))) = Len(Head(s)) - 1
          /\ Len(Head(s)) \in Nat /\ Len(Head(s)) <= 2
      BY <2>1, HeadTailProperties DEF Line, WordsPerLine
    <3> DEFINE a == LeftBehind(w)
               b == Tail(Head(s))
    <3> HIDE DEF a, b
    <3>2. a \in Seq(Words) /\ b \in Seq(Words) /\ Len(a) <= 1 /\ Len(b) <= 1
      BY <2>5, <3>1 DEF a, b
    <3>3. a \o b \in Seq(Words) /\ Len(a \o b) = Len(a) + Len(b)
      BY ONLY <3>2, ConcatProperties
    <3>4. Len(a) \in Nat /\ Len(b) \in Nat
      BY <3>2, LenProperties
    <3> QED BY <3>2, <3>3, <3>4 DEF Line, WordsPerLine, a, b
  <2>7. rest \in Seq(Line)
    BY <2>1, <2>6, InFront
  <2> HIDE DEF rest
  <2>8. Skip(rest) \in Text
    BY <2>7, SkipType DEF Text
  <2> QED BY <2>3, <2>4, <2>8
<1>3. CASE ~(s # <<>> /\ StartsWithInt(w))
  <2>1. ScanD(in, old) = [v |-> old, in |-> s]
    BY <1>3 DEF ScanD, s
  <2> QED BY <1>1, <2>1 DEF Text
<1> QED BY <1>2, <1>3

\* The first m elements of a sequence.
LEMMA PrefixIs ==
  ASSUME NEW L, NEW s \in Seq(L), NEW m \in 0..Len(s)
  PROVE  /\ SubSeq(s, 1, m) \in Seq(L) /\ Len(SubSeq(s, 1, m)) = m
         /\ \A i \in 1..m : SubSeq(s, 1, m)[i] = s[i]
<1>1. m \in Int /\ 1 \in Int /\ \A i \in 1..m : s[i] \in L
  BY ElementOfSeq, LenProperties
<1>2. /\ SubSeq(s, 1, m) \in Seq(L)
      /\ Len(SubSeq(s, 1, m)) = IF 1 <= m THEN m - 1 + 1 ELSE 0
      /\ \A i \in 1..(m - 1 + 1) : SubSeq(s, 1, m)[i] = s[1 + i - 1]
  BY ONLY <1>1, SubSeqProperties
<1>3. m \in Nat /\ m - 1 + 1 = m /\ \A i \in 1..m : 1 + i - 1 = i
  OBVIOUS
<1>4. Len(SubSeq(s, 1, m)) = m
  BY <1>2, <1>3
<1> DEFINE p == SubSeq(s, 1, m)
<1> HIDE DEF p
<1>5. \A i \in 1..m : p[i] = s[i]
  BY <1>2, <1>3 DEF p
<1> QED BY <1>2, <1>4, <1>5 DEF p

\* The sequence without its last element.
LEMMA FrontType ==
  ASSUME NEW X, NEW s \in Seq(X), Len(s) > 0
  PROVE  /\ Front(s) \in Seq(X) /\ Len(Front(s)) = Len(s) - 1
         /\ \A i \in 1..(Len(s) - 1) : Front(s)[i] = s[i]
         /\ Last(s) = s[Len(s)] /\ Last(s) \in X
<1> DEFINE n == Len(s)
<1>1. n \in Nat /\ n > 0 /\ n \in 1..n
  BY LenProperties
<1>2. s[n] \in X
  BY <1>1, ElementOfSeq
<1>3. n - 1 \in 0..Len(s)
  BY <1>1
<1>4. /\ SubSeq(s, 1, n - 1) \in Seq(X) /\ Len(SubSeq(s, 1, n - 1)) = n - 1
      /\ \A i \in 1..(n - 1) : SubSeq(s, 1, n - 1)[i] = s[i]
  BY <1>3, PrefixIs
<1> QED BY <1>2, <1>4 DEF Front, Last

\* A line that loses its last character is a line.
LEMMA TrimType ==
  ASSUME NEW line \in Line
  PROVE  Trim(line) \in Line
<1>1. CASE line = <<>>
  BY <1>1 DEF Trim
<1>2. CASE line # <<>>
  <2> DEFINE w == Last(line)
             a == Front(line)
             b == IF w.kind # "int" THEN <<Stub>>
                  ELSE IF w.v >= 10 THEN <<IntWord(w.v \div 10)>> ELSE <<>>
  <2>1. line \in Seq(Words) /\ Len(line) \in Nat /\ Len(line) > 0 /\ Len(line) <= 2
    BY <1>2, LenProperties, EmptySeq DEF Line, WordsPerLine
  <2>2. a \in Seq(Words) /\ Len(a) = Len(line) - 1 /\ w \in Words
    BY <2>1, FrontType
  <2>3. Trim(line) = a \o b
    BY <1>2 DEF Trim
  <2>4. b \in Seq(Words) /\ Len(b) <= 1 /\ Len(b) \in Nat
    <3> HIDE DEF w
    <3>1. CASE w.kind # "int"
      BY <3>1, SomeWords
    <3>2. CASE w.kind = "int"
      <4>1. w.v \in Int
        BY <2>2, <3>2 DEF Words, StartsWithInt
      <4>2. w.v \div 10 \in Int
        BY <4>1
      <4>3. IntWord(w.v \div 10) \in Words
        BY <4>2, SomeWords
      <4> QED BY <3>2, <4>3
    <3> QED BY <3>1, <3>2
  <2> HIDE DEF a, b
  <2>5. a \o b \in Seq(Words) /\ Len(a \o b) = Len(a) + Len(b)
    BY ONLY <2>2, <2>4, ConcatProperties
  <2>6. Len(a \o b) <= 2
    BY <2>1, <2>2, <2>4, <2>5
  <2> QED BY <2>3, <2>5, <2>6 DEF Line, WordsPerLine
<1> QED BY <1>1, <1>2

\* The lines got so far, of which the last is in the buffer, and the stream.
StreamState == {s \in [got : Seq(Line), in : Text] : Len(s.got) >= 1}

\* One more line got.
LEMMA GotOneMore ==
  ASSUME NEW g \in Seq(Line), NEW l \in Line, NEW in \in Text
  PROVE  /\ [got |-> Append(g, l), in |-> in] \in StreamState
         /\ Len(Append(g, l)) = Len(g) + 1 /\ Append(g, l)[Len(g) + 1] = l
         /\ \A i \in 1..Len(g) : Append(g, l)[i] = g[i]
<1> DEFINE a == Append(g, l)
<1>1. /\ a \in Seq(Line) /\ Len(a) = Len(g) + 1 /\ a[Len(g) + 1] = l
      /\ \A i \in 1..Len(g) : a[i] = g[i]
  BY AppendProperties
<1>2. Len(g) \in Nat
  BY LenProperties
<1> HIDE DEF a
<1>3. Len(a) >= 1
  BY <1>1, <1>2
<1>4. [got |-> a, in |-> in] \in StreamState
  BY <1>1, <1>3 DEF StreamState
<1> QED BY <1>1, <1>4 DEF a

\* What fgets makes of the buffer and the stream.
LineOf(s) ==
  IF s.in = <<>> THEN Trim(Last(s.got))
  ELSE IF Long(Head(s.in)) THEN <<Stub>>
  ELSE IF open /\ Len(s.in) = 1 THEN Trim(Head(s.in)) ELSE Head(s.in)
RestOf(s) ==
  IF s.in = <<>> THEN <<>>
  ELSE IF Long(Head(s.in)) THEN << <<Remains>> >> \o Tail(s.in)
  ELSE Tail(s.in)

\* fgets in these terms.
LEMMA GetLineIs ==
  ASSUME NEW s
  PROVE  GetLine(s) = [got |-> Append(s.got, LineOf(s)), in |-> RestOf(s)]
<1>1. CASE s.in = <<>>
  BY <1>1 DEF GetLine, LineOf, RestOf
<1>2. CASE s.in # <<>> /\ Long(Head(s.in))
  BY <1>2 DEF GetLine, LineOf, RestOf
<1>3. CASE s.in # <<>> /\ ~Long(Head(s.in))
  BY <1>3 DEF GetLine, LineOf, RestOf
<1> QED BY <1>1, <1>2, <1>3

\* fgets gets a line, and leaves lines.
LEMMA GetLineType ==
  ASSUME NEW s \in StreamState
  PROVE  /\ GetLine(s) \in StreamState
         /\ Len(GetLine(s).got) = Len(s.got) + 1 /\ GetLine(s).got[Len(s.got) + 1] = LineOf(s)
         /\ \A i \in 1..Len(s.got) : GetLine(s).got[i] = s.got[i]
         /\ GetLine(s).in = RestOf(s)
<1> DEFINE in == s.in
           g == s.got
           l == LineOf(s)
           x == RestOf(s)
<1>1. g \in Seq(Line) /\ in \in Text /\ Len(g) \in Nat /\ Len(g) > 0
  BY LenProperties DEF StreamState
<1>2. Last(g) \in Line
  BY <1>1, FrontType
<1>3. l \in Line /\ x \in Text
  <2>1. CASE in = <<>>
    <3>1. Trim(Last(g)) \in Line /\ <<>> \in Text
      BY <1>2, TrimType, EmptySeq DEF Text
    <3> QED BY <2>1, <3>1 DEF LineOf, RestOf
  <2>2. CASE in # <<>>
    <3>1. Head(in) \in Line /\ Tail(in) \in Text
      BY <1>1, <2>2, HeadTailProperties DEF Text
    <3>2. <<Stub>> \in Line /\ <<Remains>> \in Line
      BY SomeWords DEF Line, WordsPerLine
    <3>3. << <<Remains>> >> \o Tail(in) \in Text
      BY <3>1, <3>2, InFront DEF Text
    <3>4. Trim(Head(in)) \in Line
      BY <3>1, TrimType
    <3> QED BY <2>2, <3>1, <3>2, <3>3, <3>4 DEF LineOf, RestOf
  <2> QED BY <2>1, <2>2
<1>4. GetLine(s) = [got |-> Append(g, l), in |-> x]
  BY GetLineIs
<1> HIDE DEF g, in, l, x
<1>5. /\ [got |-> Append(g, l), in |-> x] \in StreamState
      /\ Len(Append(g, l)) = Len(g) + 1 /\ Append(g, l)[Len(g) + 1] = l
      /\ \A i \in 1..Len(g) : Append(g, l)[i] = g[i]
  BY <1>1, <1>3, GotOneMore
<1> QED BY <1>4, <1>5 DEF g, l, x

\* atoi always gives an integer.
LEMMA atoiType ==
  ASSUME NEW line \in Line
  PROVE  atoi(line) \in Int
<1>1. line # <<>> => Head(line) \in Words
  BY HeadTailProperties DEF Line, WordsPerLine
<1>2. \A w \in Words : StartsWithInt(w) => w.v \in Int
  BY DEF Words
<1> QED BY <1>1, <1>2 DEF atoi

-----------------------------------------------------------------------------
(* Loops and concatenations                                                 *)

\* f[k] is what k turns of F make of a.
Turns(f, F, a, X, n) ==
  /\ f \in [0..n -> X]
  /\ f[0] = a
  /\ \A k \in 1..n : f[k] = F[<<k, f[k - 1]>>]

\* A loop of n turns has a result.
LEMMA TurnsExist ==
  ASSUME NEW n \in Nat, NEW X, NEW a \in X, NEW F \in [(1..n) \X X -> X]
  PROVE  \E f : Turns(f, F, a, X, n)
<1> DEFINE G == {k \in 0..n : \E f : Turns(f, F, a, X, k)}
<1>1. 0 \in G
  <2> DEFINE f == [k \in 0..0 |-> a]
  <2>1. Turns(f, F, a, X, 0)
    BY DEF Turns
  <2> HIDE DEF f
  <2> QED BY <2>1
<1>2. ASSUME NEW k \in 1..n, k - 1 \in G PROVE k \in G
  <2>1. PICK f : Turns(f, F, a, X, k - 1)
    BY <1>2
  <2>2. /\ f \in [0..(k - 1) -> X] /\ f[0] = a
        /\ \A j \in 1..(k - 1) : f[j] = F[<<j, f[j - 1]>>]
    BY <2>1 DEF Turns
  <2>3. f[k - 1] \in X
    BY <2>2
  <2> DEFINE x == F[<<k, f[k - 1]>>]
             g == [j \in 0..k |-> IF j = k THEN x ELSE f[j]]
  <2>4. x \in X
    BY <2>3
  <2> HIDE DEF x
  <2>5. g \in [0..k -> X] /\ g[0] = a /\ g[k] = x /\ \A j \in 0..(k - 1) : g[j] = f[j]
    BY <2>2, <2>4
  <2> HIDE DEF g
  <2>6. ASSUME NEW j \in 1..k PROVE g[j] = F[<<j, g[j - 1]>>]
    <3>1. g[j - 1] = f[j - 1]
      BY <2>5
    <3>2. CASE j = k
      BY <2>5, <3>1, <3>2 DEF x
    <3>3. CASE j # k
      <4>1. j \in 1..(k - 1) /\ j \in 0..(k - 1)
        BY <3>3
      <4> QED BY <2>2, <2>5, <3>1, <4>1
    <3> QED BY <3>2, <3>3
  <2>7. Turns(g, F, a, X, k)
    BY <2>5, <2>6 DEF Turns
  <2> QED BY <2>7
<1> HIDE DEF G
<1>3. \A k \in 0..n : k \in G
  BY <1>1, <1>2, Reaches
<1> QED BY <1>3 DEF G

\* R[k] is the concatenation of what comes behind the first k sequences.
Rests(R, ss, X) ==
  /\ R \in [0..Len(ss) -> Seq(X)]
  /\ R[Len(ss)] = <<>>
  /\ \A k \in 1..Len(ss) : R[k - 1] = ss[k] \o R[k]

\* FlattenSeq, which adds at the end, read from the front.
LEMMA FlattenRests ==
  ASSUME NEW X, NEW ss \in Seq(Seq(X))
  PROVE  \E R : Rests(R, ss, X) /\ R[0] = FlattenSeq(ss)
<1> DEFINE n == Len(ss)
<1>1. n \in Nat /\ \A k \in 1..n : ss[k] \in Seq(X)
  BY LenProperties, ElementOfSeq
<1>2. CASE n = 0
  <2> DEFINE R == [k \in 0..0 |-> <<>>]
  <2>1. R \in [0..0 -> Seq(X)] /\ R[0] = <<>>
    BY EmptySeq
  <2> HIDE DEF R
  <2>2. ss = <<>>
    BY <1>2, EmptySeq
  <2>3. FlattenSeq(ss) = <<>>
    BY <1>2, <2>2 DEF FlattenSeq
  <2>4. Rests(R, ss, X)
    BY <1>2, <2>1 DEF Rests
  <2> QED BY <2>1, <2>3, <2>4
<1>3. CASE n # 0
  <2> DEFINE Q == Seq(X)
             F == [p \in (1..n) \X Q |-> p[2] \o ss[p[1]]]
             B == [p \in (1..n) \X Q |-> ss[n + 1 - p[1]] \o p[2]]
  <2>1. \A s, t \in Q : s \o t \in Q
    BY ConcatProperties
  <2>2. \A k \in 1..n : n + 1 - k \in 1..n
    BY <1>1
  <2>3. <<>> \in Q
    BY EmptySeq
  <2> HIDE DEF n, Q
  <2>4. \A k \in 1..n : ss[k] \in Q
    BY <1>1 DEF Q
  <2>5. F \in [(1..n) \X Q -> Q] /\ B \in [(1..n) \X Q -> Q]
    BY <2>1, <2>2, <2>4
  <2>6. /\ \A k \in 1..n, s \in Q : F[<<k, s>>] = s \o ss[k]
        /\ \A k \in 1..n, s \in Q : B[<<k, s>>] = ss[n + 1 - k] \o s
    OBVIOUS
  <2> HIDE DEF F, B
  <2>7. PICK P : Turns(P, F, <<>>, Q, n)
    BY <1>1, <2>3, <2>5, TurnsExist
  <2>8. PICK T : Turns(T, B, <<>>, Q, n)
    BY <1>1, <2>3, <2>5, TurnsExist
  <2>9. /\ P \in [0..n -> Q] /\ P[0] = <<>>
        /\ \A k \in 1..n : P[k] = P[k - 1] \o ss[k]
    <3>1. P \in [0..n -> Q] /\ P[0] = <<>> /\ \A k \in 1..n : P[k] = F[<<k, P[k - 1]>>]
      BY <2>7 DEF Turns
    <3>2. \A k \in 1..n : P[k - 1] \in Q
      BY <1>1, <3>1
    <3> QED BY <2>6, <3>1, <3>2
  <2>10. /\ T \in [0..n -> Q] /\ T[0] = <<>>
         /\ \A k \in 1..n : T[k] = ss[n + 1 - k] \o T[k - 1]
    <3>1. T \in [0..n -> Q] /\ T[0] = <<>> /\ \A k \in 1..n : T[k] = B[<<k, T[k - 1]>>]
      BY <2>8 DEF Turns
    <3>2. \A k \in 1..n : T[k - 1] \in Q
      BY <1>1, <3>1
    <3> QED BY <2>6, <3>1, <3>2
  <2> DEFINE R == [k \in 0..n |-> T[n - k]]
  <2>11. R \in [0..n -> Q] /\ R[n] = <<>>
    <3>1. \A k \in 0..n : n - k \in 0..n
      BY <1>1
    <3>2. n - n = 0 /\ n \in 0..n
      BY <1>1
    <3> QED BY <2>10, <3>1, <3>2
  <2>12. ASSUME NEW k \in 1..n PROVE R[k - 1] = ss[k] \o R[k]
    <3>1. n - (k - 1) \in 1..n /\ n + 1 - (n - (k - 1)) = k /\ n - (k - 1) - 1 = n - k
      BY <1>1
    <3>2. T[n - (k - 1)] = ss[k] \o T[n - k]
      BY <2>10, <3>1
    <3>3. k \in 0..n /\ k - 1 \in 0..n
      BY <1>1
    <3> QED BY <3>2, <3>3
  <2> HIDE DEF R
  <2>13. P[n] = R[0]
    <3> DEFINE G == {k \in 0..n : P[k] \o R[k] = R[0]}
    <3>1. 0 \in G
      <4>1. R[0] \in Q /\ 0 \in 0..n
        BY <1>1, <2>11
      <4>2. <<>> \o R[0] = R[0]
        BY <4>1, ConcatEmptySeq DEF Q
      <4> QED BY <2>9, <4>1, <4>2
    <3>2. ASSUME NEW k \in 1..n, k - 1 \in G PROVE k \in G
      <4>1. k \in 0..n /\ k - 1 \in 0..n
        BY <1>1
      <4>2. P[k - 1] \in Q /\ R[k] \in Q /\ ss[k] \in Q
        BY <2>4, <2>9, <2>11, <4>1
      <4>3. (P[k - 1] \o ss[k]) \o R[k] = P[k - 1] \o (ss[k] \o R[k])
        <5> DEFINE a == P[k - 1]  b == ss[k]  c == R[k]
        <5> HIDE DEF a, b, c
        <5>1. a \in Seq(X) /\ b \in Seq(X) /\ c \in Seq(X)
          BY <4>2 DEF Q, a, b, c
        <5>2. (a \o b) \o c = a \o (b \o c)
          BY ONLY <5>1
        <5> QED BY <5>2 DEF a, b, c
      <4>4. P[k] = P[k - 1] \o ss[k] /\ R[k - 1] = ss[k] \o R[k] /\ P[k - 1] \o R[k - 1] = R[0]
        BY <2>9, <2>12, <3>2
      <4>5. P[k] \o R[k] = R[0]
        BY <4>3, <4>4
      <4> QED BY <4>1, <4>5
    <3> HIDE DEF G
    <3>3. \A k \in 0..n : k \in G
      BY <1>1, <3>1, <3>2, Reaches
    <3>4. P[n] \o R[n] = R[0] /\ P[n] \in Q
      BY <1>1, <2>9, <3>3 DEF G
    <3>5. P[n] \o <<>> = P[n]
      BY <3>4, ConcatEmptySeq DEF Q
    <3> QED BY <2>11, <3>4, <3>5
  <2> DEFINE flatten == CHOOSE flatten : flatten = [i \in 1..n |->
                           IF i = 1 THEN ss[i] ELSE flatten[i - 1] \o ss[i]]
             H == [i \in 1..n |-> P[i]]
  <2>14. FlattenSeq(ss) = flatten[n]
    BY <1>3 DEF FlattenSeq, n
  <2>15. H = [i \in 1..n |-> IF i = 1 THEN ss[i] ELSE H[i - 1] \o ss[i]]
    <3>1. ASSUME NEW i \in 1..n PROVE P[i] = IF i = 1 THEN ss[i] ELSE H[i - 1] \o ss[i]
      <4>1. CASE i = 1
        <5>1. 1 \in 1..n /\ 1 - 1 = 0
          BY <4>1
        <5>2. P[1] = <<>> \o ss[1] /\ ss[1] \in Q
          <6>1. P[1] = P[1 - 1] \o ss[1] /\ ss[1] \in Q
            BY <2>4, <2>9, <5>1
          <6> QED BY <2>9, <5>1, <6>1
        <5>3. <<>> \o ss[1] = ss[1]
          BY <5>2, ConcatEmptySeq DEF Q
        <5> QED BY <4>1, <5>2, <5>3
      <4>2. CASE i # 1
        <5>1. i - 1 \in 1..n
          BY <1>1, <4>2
        <5>2. H[i - 1] = P[i - 1]
          BY <5>1
        <5> QED BY <2>9, <4>2, <5>2
      <4> QED BY <4>1, <4>2
    <3> QED BY <3>1
  <2> HIDE DEF H
  <2>16. flatten = [i \in 1..n |-> IF i = 1 THEN ss[i] ELSE flatten[i - 1] \o ss[i]]
    BY <2>15
  <2> HIDE DEF flatten
  <2>17. flatten[n] = P[n]
    <3> DEFINE G == {k \in 0..n : k = 0 \/ flatten[k] = P[k]}
    <3>1. 0 \in G
      BY <1>1
    <3>2. ASSUME NEW k \in 1..n, k - 1 \in G PROVE k \in G
      <4>1. flatten[k] = IF k = 1 THEN ss[k] ELSE flatten[k - 1] \o ss[k]
        BY <2>16
      <4>2. CASE k = 1
        <5>1. 1 \in 1..n /\ 1 - 1 = 0
          BY <4>2
        <5>2. P[1] = <<>> \o ss[1] /\ ss[1] \in Q
          <6>1. P[1] = P[1 - 1] \o ss[1] /\ ss[1] \in Q
            BY <2>4, <2>9, <5>1
          <6> QED BY <2>9, <5>1, <6>1
        <5>3. <<>> \o ss[1] = ss[1]
          BY <5>2, ConcatEmptySeq DEF Q
        <5> QED BY <1>1, <4>1, <4>2, <5>2, <5>3
      <4>3. CASE k # 1
        <5>1. flatten[k - 1] = P[k - 1]
          BY <1>1, <3>2, <4>3
        <5>2. P[k] = P[k - 1] \o ss[k]
          BY <2>9
        <5>3. flatten[k] = P[k]
          BY <4>1, <4>3, <5>1, <5>2
        <5>4. k \in 0..n
          BY <1>1
        <5> QED BY <5>3, <5>4
      <4> QED BY <4>2, <4>3
    <3> HIDE DEF G
    <3>3. \A k \in 0..n : k \in G
      BY <1>1, <3>1, <3>2, Reaches
    <3> QED BY <1>1, <1>3, <3>3 DEF G
  <2>18. Rests(R, ss, X)
    BY <2>11, <2>12 DEF Rests, Q, n
  <2> QED BY <2>13, <2>14, <2>17, <2>18
<1> QED BY <1>2, <1>3

\* A check item, of any score.
CheckItem == [name : Line, path : Line, desc : Line, score : Int, method : Line,
              percent : Int, type : Int, methodValue : Line]

\* What FinishInit makes of one item.
PercentOf(items, i) ==
  LET nPad == 100 - Total([k \in DOMAIN items |-> Share(items, k)])
      nLoop == IF nPad < 0 THEN -nPad ELSE nPad
      pad == IF Rank(items, i) >= nLoop THEN 0 ELSE IF nPad < 0 THEN -1 ELSE 1
  IN IF TotalScore(items) <= 0 THEN Undefined ELSE Share(items, i) + pad

\* FinishInit changes nothing but the percents.
LEMMA FinishInitEach ==
  ASSUME NEW items
  PROVE  FinishInit(items) = [i \in DOMAIN items |-> [items[i] EXCEPT !.percent = PercentOf(items, i)]]
BY DEF FinishInit, PercentOf

\* The percents follow from the scores.
LEMMA PercentOfScores ==
  ASSUME NEW a, NEW b, DOMAIN a = DOMAIN b, \A i \in DOMAIN a : a[i].score = b[i].score,
         NEW i \in DOMAIN a
  PROVE  PercentOf(a, i) = PercentOf(b, i)
<1> DEFINE fa == [k \in DOMAIN a |-> a[k].score]
           fb == [k \in DOMAIN b |-> b[k].score]
<1>1. fa = fb
  OBVIOUS
<1>2. TotalScore(a) = TotalScore(b)
  BY <1>1 DEF TotalScore
<1>3. \A k \in DOMAIN a : Share(a, k) = Share(b, k)
  BY <1>2 DEF Share
<1>4. [k \in DOMAIN a |-> Share(a, k)] = [k \in DOMAIN b |-> Share(b, k)]
  BY <1>3
<1>5. Rank(a, i) = Rank(b, i)
  <2>1. {j \in DOMAIN a : a[j].score > a[i].score \/ (a[j].score = a[i].score /\ j < i)}
        = {j \in DOMAIN b : b[j].score > b[i].score \/ (b[j].score = b[i].score /\ j < i)}
    OBVIOUS
  <2> QED BY <2>1 DEF Rank
<1>6. Total([k \in DOMAIN a |-> Share(a, k)]) = Total([k \in DOMAIN b |-> Share(b, k)])
  BY <1>4
<1>7. Share(a, i) = Share(b, i)
  BY <1>3
<1> QED BY <1>2, <1>5, <1>6, <1>7 DEF PercentOf

\* A sequence is a function on 1..n.
LEMMA SeqIs ==
  ASSUME NEW X, NEW s, NEW n \in Nat, s \in [1..n -> X]
  PROVE  s \in Seq(X) /\ Len(s) = n
OBVIOUS

\* A share is an integer when there is something to share.
LEMMA ShareType ==
  ASSUME NEW items \in Seq(CheckItem), NEW i \in DOMAIN items, TotalScore(items) \in Int, TotalScore(items) > 0
  PROVE  Share(items, i) \in Int
<1> DEFINE t == TotalScore(items)
           s == items[i].score * 100
<1>1. t \in Int /\ t > 0
  OBVIOUS
<1>2. s \in Int
  <2>1. items[i] \in CheckItem
    BY ElementOfSeq, LenProperties
  <2>2. items[i].score \in Int
    BY <2>1 DEF CheckItem
  <2> QED BY <2>2
<1>3. Share(items, i) = IF s \div t = 0 THEN 1 ELSE s \div t
  BY DEF Share
<1> HIDE DEF t, s
<1>4. s \div t \in Int
  BY <1>1, <1>2
<1> QED BY <1>3, <1>4

\* FinishInit keeps the number of items, their names and their scores, and a
\* second FinishInit changes nothing.
LEMMA FinishInitKeeps ==
  ASSUME NEW items \in Seq(CheckItem)
  PROVE  /\ FinishInit(items) \in Seq(CheckItem)
         /\ Len(FinishInit(items)) = Len(items)
         /\ \A i \in 1..Len(items) : FinishInit(items)[i].name = items[i].name
         /\ FinishInit(FinishInit(items)) = FinishInit(items)
<1> DEFINE n == Len(items)
           new == FinishInit(items)
           p(i) == PercentOf(items, i)
<1>1. n \in Nat /\ DOMAIN items = 1..n /\ \A i \in 1..n : items[i] \in CheckItem
  BY LenProperties, ElementOfSeq
<1>2. new = [i \in 1..n |-> [items[i] EXCEPT !.percent = p(i)]]
  BY <1>1, FinishInitEach
<1>3. TotalScore(items) \in Int
  <2> DEFINE w == [i \in DOMAIN items |-> items[i].score]
  <2>1. \A i \in 1..n : items[i].score \in Int
    BY <1>1 DEF CheckItem
  <2>2. w \in [1..n -> Int]
    BY <1>1, <2>1
  <2> HIDE DEF w, n
  <2>3. Total(w) \in Int
    BY <1>1, <2>2, TotalType
  <2> QED BY <2>3 DEF TotalScore, w
<1>4. ASSUME NEW i \in 1..n PROVE p(i) \in Int
  <2>1. CASE TotalScore(items) <= 0
    BY <2>1 DEF PercentOf, Undefined
  <2>2. CASE ~(TotalScore(items) <= 0)
    <3>1. Share(items, i) \in Int
      BY <1>1, <1>3, <2>2, ShareType
    <3> DEFINE nPad == 100 - Total([k \in DOMAIN items |-> Share(items, k)])
               nLoop == IF nPad < 0 THEN -nPad ELSE nPad
               pad == IF Rank(items, i) >= nLoop THEN 0 ELSE IF nPad < 0 THEN -1 ELSE 1
    <3>2. p(i) = Share(items, i) + pad
      BY <2>2 DEF PercentOf
    <3>3. pad \in Int
      OBVIOUS
    <3> HIDE DEF pad, p
    <3> QED BY <3>1, <3>2, <3>3
  <2> QED BY <2>1, <2>2
<1> HIDE DEF n, p
<1>5. ASSUME NEW i \in 1..n
      PROVE  /\ new[i] \in CheckItem /\ new[i].name = items[i].name /\ new[i].score = items[i].score
             /\ new[i] = [items[i] EXCEPT !.percent = p(i)]
             /\ new[i] = [new[i] EXCEPT !.percent = p(i)]
  <2> DEFINE x == items[i]
             q == p(i)
  <2>1. /\ x \in [name : Line, path : Line, desc : Line, score : Int, method : Line,
                 percent : Int, type : Int, methodValue : Line]
        /\ q \in Int
    BY <1>1, <1>4 DEF CheckItem
  <2>2. new[i] = [x EXCEPT !.percent = q]
    BY <1>2
  <2> HIDE DEF x, q, new
  <2>3. new[i] \in CheckItem
    BY <2>1, <2>2 DEF CheckItem
  <2>4. new[i].name = x.name /\ new[i].score = x.score
    BY <2>1, <2>2
  <2>5. new[i] = [new[i] EXCEPT !.percent = q]
    BY <2>1, <2>2
  <2> QED BY <2>2, <2>3, <2>4, <2>5 DEF x, q
<1>6. DOMAIN new = 1..n
  BY <1>2
<1>7. new = [i \in 1..n |-> new[i]]
  BY <1>2
<1> HIDE DEF new
<1>8. new \in Seq(CheckItem) /\ Len(new) = n
  <2>1. new \in [1..n -> CheckItem]
    BY <1>5, <1>7
  <2> QED BY <1>1, <2>1, SeqIs
<1>9. FinishInit(new) = new
  <2>1. FinishInit(new) = [i \in 1..n |-> [new[i] EXCEPT !.percent = PercentOf(new, i)]]
    BY <1>6, FinishInitEach
  <2>2. ASSUME NEW i \in 1..n PROVE PercentOf(new, i) = p(i)
    <3>1. \A k \in DOMAIN new : new[k].score = items[k].score
      BY <1>5, <1>6
    <3>2. DOMAIN new = DOMAIN items /\ i \in DOMAIN new
      BY <1>1, <1>6
    <3>3. PercentOf(new, i) = PercentOf(items, i)
      BY <3>1, <3>2, PercentOfScores
    <3> QED BY <3>3 DEF p
  <2>3. FinishInit(new) = [i \in 1..n |-> [new[i] EXCEPT !.percent = p(i)]]
    BY <2>1, <2>2
  <2>4. \A i \in 1..n : [new[i] EXCEPT !.percent = p(i)] = new[i]
    BY <1>5
  <2> QED BY <1>7, <2>3, <2>4
<1> QED BY <1>5, <1>8, <1>9 DEF new, n

\* The loop of fgets in LoadExamTask, for any number of turns.
Reading(read, a, n) ==
  /\ read \in [0..n -> StreamState]
  /\ read[0] = a
  /\ \A k \in 1..n : read[k] = GetLine(read[k - 1])

\* The states of that loop exist.
LEMMA ReadingExists ==
  ASSUME NEW n \in Nat, NEW a \in StreamState
  PROVE  \E read : Reading(read, a, n)
<1> DEFINE F == [p \in (1..n) \X StreamState |-> GetLine(p[2])]
<1>1. F \in [(1..n) \X StreamState -> StreamState]
  BY GetLineType
<1>2. \A i \in 1..n, s \in StreamState : F[<<i, s>>] = GetLine(s)
  OBVIOUS
<1> HIDE DEF F
<1>3. PICK read : Turns(read, F, a, StreamState, n)
  BY <1>1, TurnsExist
<1>4. /\ read \in [0..n -> StreamState] /\ read[0] = a
      /\ \A i \in 1..n : read[i] = F[<<i, read[i - 1]>>]
  BY <1>3 DEF Turns
<1>5. \A i \in 1..n : read[i - 1] \in StreamState
  BY <1>4
<1> QED BY <1>2, <1>4, <1>5 DEF Reading

\* A turn gets one line.
LEMMA ReadingLen ==
  ASSUME NEW n \in Nat, NEW a, NEW read, Reading(read, a, n), Len(a.got) = 1
  PROVE  \A k \in 0..n : read[k] \in StreamState /\ Len(read[k].got) = k + 1
<1> DEFINE G == {k \in 0..n : Len(read[k].got) = k + 1}
<1>1. /\ read \in [0..n -> StreamState] /\ read[0] = a
      /\ \A k \in 1..n : read[k] = GetLine(read[k - 1])
  BY DEF Reading
<1>2. 0 \in G
  BY <1>1
<1>3. ASSUME NEW k \in 1..n, k - 1 \in G PROVE k \in G
  <2>1. k - 1 \in 0..n /\ k \in 0..n
    OBVIOUS
  <2>2. read[k - 1] \in StreamState /\ Len(read[k - 1].got) = k - 1 + 1
    BY <1>1, <1>3, <2>1
  <2>3. Len(read[k].got) = Len(read[k - 1].got) + 1
    BY <1>1, <2>2, GetLineType
  <2> QED BY <2>1, <2>2, <2>3
<1> HIDE DEF G
<1>4. \A k \in 0..n : k \in G
  BY <1>2, <1>3, Reaches
<1> QED BY <1>1, <1>4 DEF G

\* A negative number of items is none.
LEMMA AtLeastZero ==
  ASSUME NEW v \in Int
  PROVE  Max({0, v}) \in Nat /\ (v >= 0 => Max({0, v}) = v)
<1>1. CASE v >= 0
  <2>1. Max({0, v}) = v
    BY <1>1, MaxIs
  <2> QED BY <1>1, <2>1
<1>2. CASE v < 0
  <2>1. Max({0, v}) = 0
    BY <1>2, MaxIs
  <2> QED BY <1>2, <2>1
<1> QED BY <1>1, <1>2

\* The i-th item of the lines got.
ItemAt(g, i) == ItemOf(SubSeq(g, LinesPerItem * (i - 1) + 2, LinesPerItem * i + 1))

\* The lines of an item are eight of the lines got.
LEMMA ItemAtIs ==
  ASSUME NEW n \in Nat, NEW g \in Seq(Line), Len(g) = 8 * n + 1, NEW i \in 1..n
  PROVE  /\ \A q \in 1..8 : g[8 * (i - 1) + 1 + q] \in Line
         /\ ItemAt(g, i) =
              [name |-> g[8 * (i - 1) + 2], path |-> g[8 * (i - 1) + 3],
               desc |-> g[8 * (i - 1) + 4], score |-> atoi(g[8 * (i - 1) + 5]),
               method |-> g[8 * (i - 1) + 6], percent |-> atoi(g[8 * (i - 1) + 7]),
               type |-> atoi(g[8 * (i - 1) + 8]), methodValue |-> g[8 * (i - 1) + 9]]
<1> DEFINE m == 8 * (i - 1) + 2
           e == 8 * i + 1
           s == SubSeq(g, m, e)
<1>1. m \in Int /\ e \in Int /\ m >= 2 /\ e = m + 7 /\ e <= Len(g)
  OBVIOUS
<1>2. \A q \in m..e : q \in 1..Len(g)
  BY <1>1
<1>3. \A q \in m..e : g[q] \in Line
  BY <1>2, ElementOfSeq
<1> HIDE DEF m, e
<1>4. /\ s \in Seq(Line)
      /\ \A q \in 1..(e - m + 1) : s[q] = g[m + q - 1]
  BY ONLY <1>1, <1>3, SubSeqProperties
<1> HIDE DEF s
<1>5. \A q \in 1..8 : s[q] = g[m + q - 1] /\ m + q - 1 \in m..e
  BY <1>1, <1>4
<1>6. /\ s[1] = g[m] /\ s[2] = g[m + 1] /\ s[3] = g[m + 2] /\ s[4] = g[m + 3]
      /\ s[5] = g[m + 4] /\ s[6] = g[m + 5] /\ s[7] = g[m + 6] /\ s[8] = g[m + 7]
  BY <1>1, <1>5
<1>7. ItemAt(g, i) =
        [name |-> g[m], path |-> g[m + 1], desc |-> g[m + 2], score |-> atoi(g[m + 3]),
         method |-> g[m + 4], percent |-> atoi(g[m + 5]), type |-> atoi(g[m + 6]),
         methodValue |-> g[m + 7]]
  BY <1>6, Zenon DEF ItemAt, ItemOf, s, m, e, LinesPerItem
<1>8. \A q \in 1..8 : g[8 * (i - 1) + 1 + q] \in Line
  <2>1. \A q \in 1..8 : 8 * (i - 1) + 1 + q = m + q - 1
    BY DEF m
  <2> QED BY <1>3, <1>5, <2>1
<1>9. /\ m + 1 = 8 * (i - 1) + 3 /\ m + 2 = 8 * (i - 1) + 4 /\ m + 3 = 8 * (i - 1) + 5
      /\ m + 4 = 8 * (i - 1) + 6 /\ m + 5 = 8 * (i - 1) + 7 /\ m + 6 = 8 * (i - 1) + 8
      /\ m + 7 = 8 * (i - 1) + 9
  BY DEF m
<1> QED BY <1>7, <1>8, <1>9, Zenon DEF m

\* An item is read from them.
LEMMA ItemAtType ==
  ASSUME NEW n \in Nat, NEW g \in Seq(Line), Len(g) = 8 * n + 1, NEW i \in 1..n
  PROVE  ItemAt(g, i) \in CheckItem
<1> DEFINE m == 8 * (i - 1)
<1>1. /\ g[m + 2] \in Line /\ g[m + 3] \in Line /\ g[m + 4] \in Line /\ g[m + 5] \in Line
      /\ g[m + 6] \in Line /\ g[m + 7] \in Line /\ g[m + 8] \in Line /\ g[m + 9] \in Line
  <2>1. \A q \in 1..8 : g[m + 1 + q] \in Line
    BY ItemAtIs
  <2>2. /\ m + 1 + 1 = m + 2 /\ m + 1 + 2 = m + 3 /\ m + 1 + 3 = m + 4 /\ m + 1 + 4 = m + 5
        /\ m + 1 + 5 = m + 6 /\ m + 1 + 6 = m + 7 /\ m + 1 + 7 = m + 8 /\ m + 1 + 8 = m + 9
    OBVIOUS
  <2> HIDE DEF m
  <2>3. /\ g[m + 1 + 1] \in Line /\ g[m + 1 + 2] \in Line /\ g[m + 1 + 3] \in Line
        /\ g[m + 1 + 4] \in Line /\ g[m + 1 + 5] \in Line /\ g[m + 1 + 6] \in Line
        /\ g[m + 1 + 7] \in Line /\ g[m + 1 + 8] \in Line
    BY <2>1
  <2> QED BY <2>2, <2>3
<1>2. /\ atoi(g[m + 5]) \in Int /\ atoi(g[m + 7]) \in Int /\ atoi(g[m + 8]) \in Int
  BY <1>1, atoiType
<1>3. ItemAt(g, i) =
        [name |-> g[m + 2], path |-> g[m + 3], desc |-> g[m + 4], score |-> atoi(g[m + 5]),
         method |-> g[m + 6], percent |-> atoi(g[m + 7]), type |-> atoi(g[m + 8]),
         methodValue |-> g[m + 9]]
  BY ItemAtIs
<1> HIDE DEF m
<1> QED BY <1>1, <1>2, <1>3 DEF CheckItem

\* The stream behind the number of items, and that number.
Start0(in) == [got |-> <<left>>, in |-> ScanD(in, 0).in]
Number(in) == Max({0, ScanD(in, 0).v})

\* The items a health check reads are in the lines of eight times that many turns.
LEMMA LoadExamTaskReads ==
  ASSUME NEW in \in Text, left \in Line
  PROVE  /\ Number(in) \in Nat
         /\ \E read : /\ Reading(read, Start0(in), 8 * Number(in))
                      /\ LoadExamTask(in) =
                           [items |-> [i \in 1..Number(in) |-> ItemAt(read[8 * Number(in)].got, i)],
                            in |-> read[8 * Number(in)].in]
<1> DEFINE n == Number(in)
           a == Start0(in)
           m == 8 * n
           IsRead(f) == f = [k \in 0..m |-> IF k = 0 THEN a ELSE GetLine(f[k - 1])]
           read == CHOOSE f : IsRead(f)
<1>1. ScanD(in, 0).v \in Int /\ ScanD(in, 0).in \in Text
  BY ScanDType
<1>2. n \in Nat
  BY <1>1, AtLeastZero DEF Number
<1>3. a \in StreamState
  <2>1. <<left>> \in Seq(Line) /\ Len(<<left>>) = 1
    OBVIOUS
  <2> DEFINE g == <<left>>
             x == ScanD(in, 0).in
  <2>2. g \in Seq(Line) /\ Len(g) >= 1 /\ x \in Text
    BY <1>1, <2>1
  <2>3. a = [got |-> g, in |-> x]
    BY DEF Start0
  <2> HIDE DEF g, x, a
  <2> QED BY <2>2, <2>3 DEF StreamState
<1>4. LoadExamTask(in) = [items |-> [i \in 1..n |-> ItemAt(read[m].got, i)], in |-> read[m].in]
  BY DEF LoadExamTask, ItemAt, Number, Start0, LinesPerItem
<1>5. m \in Nat
  BY <1>2
<1> HIDE DEF n, a, m
<1>6. IsRead(read)
  <2>1. PICK f : Reading(f, a, m)
    BY <1>3, <1>5, ReadingExists
  <2>2. /\ f \in [0..m -> StreamState] /\ f[0] = a
        /\ \A k \in 1..m : f[k] = GetLine(f[k - 1])
    BY <2>1 DEF Reading
  <2>3. \A k \in 0..m : f[k] = IF k = 0 THEN a ELSE GetLine(f[k - 1])
    BY <1>5, <2>2
  <2>4. f = [k \in 0..m |-> f[k]]
    BY <2>2
  <2>5. IsRead(f)
    BY <2>3, <2>4
  <2> QED BY <2>5
<1> HIDE DEF read
<1>7. /\ read[0] = a
      /\ \A k \in 1..m : read[k] = GetLine(read[k - 1])
  <2>1. \A k \in 0..m : read[k] = IF k = 0 THEN a ELSE GetLine(read[k - 1])
    BY <1>6
  <2>2. 0 \in 0..m /\ \A k \in 1..m : k \in 0..m /\ k # 0
    BY <1>5
  <2> QED BY <2>1, <2>2
<1>8. \A k \in 0..m : read[k] \in StreamState
  <2> DEFINE G == {k \in 0..m : read[k] \in StreamState}
  <2>1. 0 \in G
    BY <1>3, <1>5, <1>7
  <2>2. ASSUME NEW k \in 1..m, k - 1 \in G PROVE k \in G
    <3>1. GetLine(read[k - 1]) \in StreamState
      BY <2>2, GetLineType
    <3>2. k \in 0..m
      BY <1>5
    <3> QED BY <1>7, <3>1, <3>2
  <2> HIDE DEF G
  <2>3. \A k \in 0..m : k \in G
    BY <1>5, <2>1, <2>2, Reaches
  <2> QED BY <2>3 DEF G
<1>9. Reading(read, a, m)
  <2>1. read = [k \in 0..m |-> IF k = 0 THEN a ELSE GetLine(read[k - 1])]
    BY <1>6
  <2>2. read = [k \in 0..m |-> read[k]]
    <3> DEFINE h == [k \in 0..m |-> IF k = 0 THEN a ELSE GetLine(read[k - 1])]
    <3>1. h = [k \in 0..m |-> h[k]]
      OBVIOUS
    <3>2. read = h
      BY <2>1
    <3> HIDE DEF h
    <3> QED BY <3>1, <3>2
  <2>3. read \in [0..m -> StreamState]
    BY <1>8, <2>2
  <2> QED BY <1>7, <2>3 DEF Reading
<1> QED BY <1>2, <1>4, <1>9 DEF n, a, m

\* What a body leaves.
BodyState == [items : Seq(CheckItem), in : Text]

\* A check is read with as many items as its number says.
LEMMA LoadExamTaskType ==
  ASSUME NEW in \in Text, left \in Line
  PROVE  LoadExamTask(in) \in BodyState
<1> DEFINE n == Number(in)
           m == 8 * n
           a == Start0(in)
<1>1. n \in Nat
  BY LoadExamTaskReads
<1>2. PICK read : /\ Reading(read, a, m)
                  /\ LoadExamTask(in) = [items |-> [i \in 1..n |-> ItemAt(read[m].got, i)],
                                        in |-> read[m].in]
  BY LoadExamTaskReads
<1>3. Len(a.got) = 1
  BY DEF Start0
<1> HIDE DEF n, a
<1>4. m \in Nat /\ m \in 0..m
  BY <1>1
<1>5. read[m] \in StreamState /\ Len(read[m].got) = m + 1
  <2> HIDE DEF m
  <2> QED BY <1>2, <1>3, <1>4, ReadingLen
<1> DEFINE g == read[m].got
           items == [i \in 1..n |-> ItemAt(g, i)]
<1>6. g \in Seq(Line) /\ read[m].in \in Text /\ Len(g) = 8 * n + 1
  BY <1>5 DEF StreamState
<1> HIDE DEF g
<1>7. \A i \in 1..n : ItemAt(g, i) \in CheckItem
  BY <1>1, <1>6, ItemAtType
<1>8. items \in [1..n -> CheckItem]
  BY <1>7
<1>9. LoadExamTask(in) = [items |-> items, in |-> read[m].in]
  BY <1>2 DEF g
<1> HIDE DEF items
<1>10. items \in Seq(CheckItem)
  BY <1>1, <1>8, SeqIs
<1> DEFINE x == read[m].in
<1>11. x \in Text /\ LoadExamTask(in) = [items |-> items, in |-> x]
  BY <1>6, <1>9
<1> HIDE DEF x
<1> QED BY <1>10, <1>11 DEF BodyState

\* What is left of a stream behind its first k lines.
Behind(S, k) == SubSeq(S, k + 1, Len(S))

\* One line is read off what is left.
LEMMA BehindIs ==
  ASSUME NEW L, NEW S \in Seq(L), NEW k \in 0..Len(S)
  PROVE  /\ Behind(S, k) \in Seq(L) /\ Len(Behind(S, k)) = Len(S) - k
         /\ \A i \in 1..(Len(S) - k) : Behind(S, k)[i] = S[k + i]
         /\ k < Len(S) => /\ Behind(S, k) # <<>> /\ Head(Behind(S, k)) = S[k + 1]
                          /\ Tail(Behind(S, k)) = Behind(S, k + 1)
         /\ k = Len(S) => Behind(S, k) = <<>>
         /\ Behind(S, 0) = S
<1> DEFINE n == Len(S)
<1>1. n \in Nat /\ k \in Int /\ \A i \in 1..n : S[i] \in L
  BY LenProperties, ElementOfSeq
<1>2. ASSUME NEW j \in 0..n
      PROVE  /\ Behind(S, j) \in Seq(L) /\ Len(Behind(S, j)) = n - j
             /\ \A i \in 1..(n - j) : Behind(S, j)[i] = S[j + i]
  <2> DEFINE m == j + 1
             b == SubSeq(S, m, n)
  <2>1. m \in Int /\ n \in Int /\ \A i \in m..n : S[i] \in L
    BY <1>1
  <2>2. m <= n => n - m + 1 = n - j
    BY <1>1
  <2>3. m > n => n - j = 0
    BY <1>1
  <2> HIDE DEF m, n
  <2>4. /\ b \in Seq(L) /\ Len(b) = IF m <= n THEN n - m + 1 ELSE 0
        /\ \A i \in 1..(n - m + 1) : b[i] = S[m + i - 1]
    BY ONLY <2>1, SubSeqProperties
  <2> HIDE DEF b
  <2>5. Len(b) = n - j
    BY <1>1, <2>1, <2>2, <2>3, <2>4
  <2>6. \A i \in 1..(n - j) : b[i] = S[j + i]
    <3>1. m = j + 1 /\ j \in Int
      BY <1>1 DEF m
    <3>2. \A i \in 1..(n - j) : i \in 1..(n - m + 1) /\ m + i - 1 = j + i
      BY <1>1, <3>1
    <3> QED BY <2>4, <3>2
  <2> QED BY <2>4, <2>5, <2>6 DEF Behind, b, m, n
<1> HIDE DEF n
<1>3. k \in 0..n
  BY DEF n
<1>4. ASSUME k < n
      PROVE  /\ Behind(S, k) # <<>> /\ Head(Behind(S, k)) = S[k + 1]
             /\ Tail(Behind(S, k)) = Behind(S, k + 1)
  <2> DEFINE b == Behind(S, k)
             c == Behind(S, k + 1)
  <2>1. k + 1 \in 0..n
    BY <1>1, <1>3, <1>4
  <2>2. /\ b \in Seq(L) /\ Len(b) = n - k /\ \A i \in 1..(n - k) : b[i] = S[k + i]
    BY <1>2, <1>3
  <2>3. /\ c \in Seq(L) /\ Len(c) = n - (k + 1)
        /\ \A i \in 1..(n - (k + 1)) : c[i] = S[k + 1 + i]
    BY <1>2, <2>1
  <2> HIDE DEF b, c
  <2>4. n - k \in Nat /\ n - k >= 1
    BY <1>1, <1>3, <1>4
  <2>5. b # <<>>
    BY <2>2, <2>4
  <2>6. Head(b) = S[k + 1]
    <3>1. 1 \in 1..(n - k)
      BY <2>4
    <3> QED BY <2>2, <2>5, <3>1
  <2>7. /\ Tail(b) \in Seq(L) /\ Len(Tail(b)) = Len(b) - 1
        /\ \A i \in 1..Len(Tail(b)) : Tail(b)[i] = b[i + 1]
    BY ONLY <2>2, <2>5, HeadTailProperties
  <2>8. Len(Tail(b)) = Len(c)
    BY <1>1, <2>2, <2>3, <2>7
  <2>9. \A i \in 1..Len(Tail(b)) : Tail(b)[i] = c[i]
    <3> SUFFICES ASSUME NEW i \in 1..Len(Tail(b)) PROVE Tail(b)[i] = c[i]
      OBVIOUS
    <3>1. i \in Int /\ i >= 1 /\ i <= n - k - 1
      BY <1>1, <2>2, <2>7
    <3>2. i + 1 \in 1..(n - k) /\ i \in 1..(n - (k + 1)) /\ k + (i + 1) = k + 1 + i
      BY <1>1, <3>1
    <3>3. b[i + 1] = S[k + (i + 1)] /\ c[i] = S[k + 1 + i]
      BY <2>2, <2>3, <3>2
    <3> QED BY <2>7, <3>2, <3>3
  <2>10. Tail(b) = c
    BY ONLY <2>3, <2>7, <2>8, <2>9, SeqEqual
  <2> QED BY <2>5, <2>6, <2>10 DEF b, c
<1>5. ASSUME k = n PROVE Behind(S, k) = <<>>
  <2>1. Len(Behind(S, k)) = 0 /\ Behind(S, k) \in Seq(L)
    BY <1>1, <1>2, <1>3, <1>5
  <2> QED BY <2>1, EmptySeq
<1>6. Behind(S, 0) = S
  <2> DEFINE b == Behind(S, 0)
  <2>1. 0 \in 0..n
    BY <1>1
  <2>2. b \in Seq(L) /\ Len(b) = n - 0 /\ \A i \in 1..(n - 0) : b[i] = S[0 + i]
    BY <1>2, <2>1
  <2> HIDE DEF b
  <2>3. Len(b) = Len(S) /\ \A i \in 1..Len(b) : b[i] = S[i]
    BY <1>1, <2>2 DEF n
  <2>4. S \in Seq(L)
    OBVIOUS
  <2>5. b = S
    BY ONLY <2>2, <2>3, <2>4, SeqEqual
  <2> QED BY <2>5 DEF b
<1> QED BY <1>2, <1>3, <1>4, <1>5, <1>6 DEF n

-----------------------------------------------------------------------------
(* What LoadTask reads, line by line                                        *)
TidOf(in) == ScanS(in)
CycleOf(in) == ScanD(TidOf(in).in, 0)
TypeOf(in) == ScanD(CycleOf(in).in, 0)
TimeOf(in) == ScanS(TypeOf(in).in)
InvalidOf(in) == ScanD(TimeOf(in).in, 0)
FtimeOf(in) == ScanD(InvalidOf(in).in, 0)
BodyOf(in) == IF TypeOf(in).v = TYPE_EXAM_HEALTH THEN LoadExamTask(FtimeOf(in).in)
                                                 ELSE [items |-> <<>>, in |-> FtimeOf(in).in]
TaskOf(in) ==
  [tid |-> TidOf(in).word, cycle |-> CycleOf(in).v, type |-> TypeOf(in).v,
   lasttime |-> IF TimeOf(in).eof THEN <<NeverRun>> ELSE <<TimeOf(in).word>>,
   invalid |-> IF InvalidOf(in).v = Running THEN Enabled ELSE InvalidOf(in).v,
   ftime |-> FtimeOf(in).v, items |-> FinishInit(BodyOf(in).items)]

\* LoadTask in terms of its stages.
LEMMA LoadTaskIs ==
  ASSUME NEW in
  PROVE  LoadTask(in) =
           IF TidOf(in).eof THEN [err |-> -1, task |-> TaskOf(in), in |-> TidOf(in).in]
           ELSE IF ~checkTid(TidOf(in).word) THEN [err |-> 1, task |-> TaskOf(in), in |-> TidOf(in).in]
           ELSE [err |-> 0, task |-> TaskOf(in), in |-> BodyOf(in).in]
BY DEF LoadTask, TidOf, CycleOf, TypeOf, TimeOf, InvalidOf, FtimeOf, BodyOf, TaskOf

\* The tasks a list may hold: their percents are what FinishInit made of them.
Task ==
  {t \in [tid : Words, cycle : Int, type : Int, lasttime : Line, invalid : Int,
          ftime : Int, items : Seq(CheckItem)] :
     /\ checkTid(t.tid)
     /\ Len(t.lasttime) >= 1
     /\ FinishInit(t.items) = t.items}

\* Each stage reads what it should, whatever the file holds.
LEMMA StagesType ==
  ASSUME NEW in \in Text, left \in Line
  PROVE  /\ TidOf(in).eof \in BOOLEAN /\ TidOf(in).word \in Words /\ TidOf(in).in \in Text
         /\ CycleOf(in).v \in Int /\ CycleOf(in).in \in Text
         /\ TypeOf(in).v \in Int /\ TypeOf(in).in \in Text
         /\ TimeOf(in).word \in Words /\ TimeOf(in).in \in Text
         /\ InvalidOf(in).v \in Int /\ InvalidOf(in).in \in Text
         /\ FtimeOf(in).v \in Int /\ FtimeOf(in).in \in Text
         /\ BodyOf(in) \in BodyState
<1>1. TidOf(in).eof \in BOOLEAN /\ TidOf(in).word \in Words /\ TidOf(in).in \in Text
  BY ScanSType DEF TidOf
<1>2. CycleOf(in).v \in Int /\ CycleOf(in).in \in Text
  BY <1>1, ScanDType DEF CycleOf
<1>3. TypeOf(in).v \in Int /\ TypeOf(in).in \in Text
  BY <1>2, ScanDType DEF TypeOf
<1>4. TimeOf(in).word \in Words /\ TimeOf(in).in \in Text
  BY <1>3, ScanSType DEF TimeOf
<1>5. InvalidOf(in).v \in Int /\ InvalidOf(in).in \in Text
  BY <1>4, ScanDType DEF InvalidOf
<1>6. FtimeOf(in).v \in Int /\ FtimeOf(in).in \in Text
  BY <1>5, ScanDType DEF FtimeOf
<1>7. BodyOf(in) \in BodyState
  <2>1. CASE TypeOf(in).v = TYPE_EXAM_HEALTH
    BY <1>6, <2>1, LoadExamTaskType DEF BodyOf
  <2>2. CASE TypeOf(in).v # TYPE_EXAM_HEALTH
    <3>1. <<>> \in Seq(CheckItem) /\ Len(<<>>) = 0
      BY EmptySeq
    <3> QED BY <1>6, <2>2, <3>1 DEF BodyOf, BodyState
  <2> QED BY <2>1, <2>2
<1> QED BY <1>1, <1>2, <1>3, <1>4, <1>5, <1>6, <1>7

\* Whatever the file holds, LoadTask makes a task of it or refuses; a task that
\* was running when it was saved is enabled again.
LEMMA LoadTaskType ==
  ASSUME NEW in \in Text, left \in Line
  PROVE  /\ LoadTask(in).err \in {-1, 0, 1}
         /\ LoadTask(in).in \in Text
         /\ LoadTask(in).err = 0 => LoadTask(in).task \in Task /\ LoadTask(in).task.invalid # Running
<1> DEFINE r == LoadTask(in)
           t == TaskOf(in)
<1>1. r = IF TidOf(in).eof THEN [err |-> -1, task |-> t, in |-> TidOf(in).in]
          ELSE IF ~checkTid(TidOf(in).word) THEN [err |-> 1, task |-> t, in |-> TidOf(in).in]
          ELSE [err |-> 0, task |-> t, in |-> BodyOf(in).in]
  BY LoadTaskIs
<1>2. TidOf(in).in \in Text /\ BodyOf(in).in \in Text
  BY StagesType DEF BodyState
<1>3. r.err \in {-1, 0, 1} /\ r.in \in Text
  <2> HIDE DEF r, t
  <2>1. CASE TidOf(in).eof
    BY <1>1, <1>2, <2>1
  <2>2. CASE ~TidOf(in).eof /\ ~checkTid(TidOf(in).word)
    BY <1>1, <1>2, <2>2
  <2>3. CASE ~TidOf(in).eof /\ checkTid(TidOf(in).word)
    BY <1>1, <1>2, <2>3
  <2> QED BY <2>1, <2>2, <2>3
<1>4. ASSUME r.err = 0 PROVE r.task = t /\ checkTid(TidOf(in).word)
  <2> HIDE DEF r, t
  <2>1. CASE TidOf(in).eof
    BY <1>1, <1>4, <2>1
  <2>2. CASE ~TidOf(in).eof /\ ~checkTid(TidOf(in).word)
    BY <1>1, <1>4, <2>2
  <2>3. CASE ~TidOf(in).eof /\ checkTid(TidOf(in).word)
    BY <1>1, <2>3
  <2> QED BY <2>1, <2>2, <2>3
<1>5. ASSUME checkTid(TidOf(in).word) PROVE t \in Task /\ t.invalid # Running
  <2> DEFINE items == FinishInit(BodyOf(in).items)
             time == IF TimeOf(in).eof THEN <<NeverRun>> ELSE <<TimeOf(in).word>>
             inv == IF InvalidOf(in).v = Running THEN Enabled ELSE InvalidOf(in).v
  <2>1. items \in Seq(CheckItem) /\ FinishInit(items) = items
    BY StagesType, FinishInitKeeps DEF BodyState
  <2>2. time \in Line /\ Len(time) = 1
    <3>1. NeverRun \in Words /\ TimeOf(in).word \in Words
      BY SomeWords, StagesType
    <3>2. \A w \in Words : <<w>> \in Line /\ Len(<<w>>) = 1
      BY DEF Line, WordsPerLine
    <3> QED BY <3>1, <3>2
  <2>3. inv \in Int /\ inv # Running
    BY StagesType DEF Running, Enabled
  <2>4. t = [tid |-> TidOf(in).word, cycle |-> CycleOf(in).v, type |-> TypeOf(in).v,
             lasttime |-> time, invalid |-> inv, ftime |-> FtimeOf(in).v, items |-> items]
    BY DEF TaskOf
  <2>5. /\ TidOf(in).word \in Words /\ CycleOf(in).v \in Int /\ TypeOf(in).v \in Int
        /\ FtimeOf(in).v \in Int
    BY StagesType
  <2> HIDE DEF t, items, time, inv
  <2>6. t \in [tid : Words, cycle : Int, type : Int, lasttime : Line, invalid : Int,
               ftime : Int, items : Seq(CheckItem)]
    BY <2>1, <2>2, <2>3, <2>4, <2>5
  <2>7. t.tid = TidOf(in).word /\ t.lasttime = time /\ t.invalid = inv /\ t.items = items
    BY <2>4
  <2>8. Len(t.lasttime) >= 1
    <3>1. Len(t.lasttime) = Len(time)
      BY <2>7
    <3>2. Len(time) >= 1
      BY <2>2
    <3> QED BY <3>1, <3>2
  <2> QED BY <1>5, <2>1, <2>3, <2>6, <2>7, <2>8 DEF Task
<1> HIDE DEF r, t
<1> QED BY <1>3, <1>4, <1>5 DEF r, t

\* A line in front of the lines behind it.
LEMMA Joins ==
  ASSUME NEW L, NEW x \in L, NEW s \in Seq(L), NEW t \in Seq(L)
  PROVE  (<<x>> \o s) \o t = <<x>> \o (s \o t)
OBVIOUS

\* Two lines are one line and another.
LEMMA Pair ==
  ASSUME NEW L, NEW f \in L, NEW g \in L
  PROVE  <<f, g>> = <<f>> \o <<g>>
<1> DEFINE a == <<f, g>>
           b == <<f>> \o <<g>>
<1>1. a \in Seq(L) /\ Len(a) = 2 /\ a[1] = f /\ a[2] = g
  OBVIOUS
<1>2. b \in Seq(L) /\ Len(b) = 2 /\ b[1] = f /\ b[2] = g
  OBVIOUS
<1> HIDE DEF a, b
<1>3. \A i \in 1..2 : a[i] = b[i]
  <2>1. \A i \in 1..2 : i = 1 \/ i = 2
    OBVIOUS
  <2> QED BY <1>1, <1>2, <2>1
<1>4. a = b
  BY <1>1, <1>2, <1>3, SeqEqual
<1> QED BY <1>4 DEF a, b

\* The loop gets the lines of the stream one after the other, as long as none of
\* them is long, and stays at its end.
LEMMA LinesRead ==
  ASSUME NEW S \in Text, NEW n \in Nat, NEW a, NEW read, Reading(read, a, n), Len(a.got) = 1,
         a.in = S, \A j \in 1..Len(S) : j <= n => ~Long(S[j])
  PROVE  \A k \in 0..n :
           /\ k <= Len(S) => read[k].in = Behind(S, k)
           /\ k > Len(S) => read[k].in = <<>>
           /\ \A j \in 1..k : j < Len(S) \/ (j = Len(S) /\ ~open) => read[k].got[j + 1] = S[j]
<1> DEFINE m == Len(S)
<1>1. m \in Nat /\ S \in Seq(Line)
  BY LenProperties DEF Text
<1>2. /\ read[0] = a
      /\ \A k \in 1..n : read[k] = GetLine(read[k - 1])
  BY DEF Reading
<1>3. \A k \in 0..n : read[k] \in StreamState /\ Len(read[k].got) = k + 1
  BY ReadingLen
<1> HIDE DEF m
<1> DEFINE G == {k \in 0..n :
                   /\ k <= m => read[k].in = Behind(S, k)
                   /\ k > m => read[k].in = <<>>
                   /\ \A j \in 1..k : j < m \/ (j = m /\ ~open) => read[k].got[j + 1] = S[j]}
<1>4. 0 \in G
  <2>1. Behind(S, 0) = S
    BY <1>1, BehindIs DEF m
  <2> QED BY <1>1, <1>2, <2>1
<1>5. ASSUME NEW k \in 1..n, k - 1 \in G PROVE k \in G
  <2> DEFINE s == read[k - 1]
             h == k - 1
  <2>1. h \in 0..n /\ k \in 0..n /\ h + 1 = k /\ h \in Nat /\ k \in Nat
    OBVIOUS
  <2>2. s \in StreamState /\ Len(s.got) = k
    BY <1>3, <2>1
  <2>3. /\ h <= m => s.in = Behind(S, h)
        /\ h > m => s.in = <<>>
        /\ \A j \in 1..h : j < m \/ (j = m /\ ~open) => s.got[j + 1] = S[j]
    BY <1>5
  <2>4. read[k] = GetLine(s)
    BY <1>2
  <2> HIDE DEF s
  <2>5. /\ read[k].got[k + 1] = LineOf(s) /\ read[k].in = RestOf(s)
        /\ \A i \in 1..k : read[k].got[i] = s.got[i]
    <3>1. /\ GetLine(s).got[Len(s.got) + 1] = LineOf(s)
          /\ \A i \in 1..Len(s.got) : GetLine(s).got[i] = s.got[i]
          /\ GetLine(s).in = RestOf(s)
      BY <2>2, GetLineType
    <3> QED BY <2>2, <2>4, <3>1
  <2> HIDE DEF h
  <2>6. \A j \in 1..h : j < m \/ (j = m /\ ~open) => read[k].got[j + 1] = S[j]
    <3>1. \A j \in 1..h : j + 1 \in 1..k
      BY <2>1
    <3> QED BY <2>3, <2>5, <3>1
  <2>7. CASE h < m
    <3>1. h \in 0..m
      BY <1>1, <2>1, <2>7
    <3>2. /\ Behind(S, h) # <<>> /\ Head(Behind(S, h)) = S[k] /\ Tail(Behind(S, h)) = Behind(S, k)
          /\ Len(Behind(S, h)) = m - h
      BY <1>1, <2>1, <2>7, <3>1, BehindIs DEF m
    <3>3. s.in = Behind(S, h)
      BY <1>1, <2>1, <2>3, <2>7
    <3>4. ~Long(S[k])
      <4>1. k \in 1..Len(S) /\ k <= n
        BY <1>1, <2>1, <2>7 DEF m
      <4> QED BY <4>1
    <3>5. read[k].in = Behind(S, k)
      BY <2>5, <3>2, <3>3, <3>4 DEF RestOf
    <3>6. k < m \/ (k = m /\ ~open) => ~(open /\ Len(s.in) = 1)
      BY <1>1, <2>1, <3>2, <3>3
    <3>7. k < m \/ (k = m /\ ~open) => read[k].got[k + 1] = S[k]
      BY <2>5, <3>2, <3>3, <3>4, <3>6 DEF LineOf
    <3>8. \A j \in 1..k : j < m \/ (j = m /\ ~open) => read[k].got[j + 1] = S[j]
      <4> SUFFICES ASSUME NEW j \in 1..k, j < m \/ (j = m /\ ~open)
                   PROVE  read[k].got[j + 1] = S[j]
        OBVIOUS
      <4>1. CASE j = k
        BY <3>7, <4>1
      <4>2. CASE j # k
        <5>1. j \in 1..h
          BY <2>1, <4>2
        <5> QED BY <2>6, <5>1
      <4> QED BY <4>1, <4>2
    <3>9. k <= m
      BY <1>1, <2>1, <2>7
    <3>10. ~(k > m)
      BY <1>1, <2>1, <3>9
    <3> QED BY <2>1, <3>5, <3>8, <3>10
  <2>8. CASE h >= m
    <3>1. s.in = <<>>
      <4>1. CASE h = m
        <5>1. Behind(S, h) = <<>>
          <6>1. h \in 0..Len(S) /\ h = Len(S)
            BY <1>1, <4>1 DEF m
          <6> QED BY <1>1, <6>1, BehindIs
        <5> QED BY <1>1, <2>3, <4>1, <5>1
      <4>2. CASE h # m
        BY <1>1, <2>1, <2>3, <2>8, <4>2
      <4> QED BY <4>1, <4>2
    <3>2. read[k].in = <<>>
      BY <2>5, <3>1 DEF RestOf
    <3>3. k > m /\ ~(k <= m) /\ ~(k < m) /\ k # m
      BY <1>1, <2>1, <2>8
    <3>4. \A j \in 1..k : j < m \/ (j = m /\ ~open) => read[k].got[j + 1] = S[j]
      <4> SUFFICES ASSUME NEW j \in 1..k, j < m \/ (j = m /\ ~open)
                   PROVE  read[k].got[j + 1] = S[j]
        OBVIOUS
      <4>1. j # k
        BY <3>3
      <4>2. j \in 1..h
        BY <2>1, <4>1
      <4> QED BY <2>6, <4>2
    <3> QED BY <2>1, <3>2, <3>3, <3>4
  <2> QED BY <1>1, <2>1, <2>7, <2>8
<1> HIDE DEF G
<1>6. \A k \in 0..n : k \in G
  BY <1>4, <1>5, Reaches
<1> QED BY <1>6 DEF G, m

\* Seven lines, and what they are in front of s.
Seven(h, L) == h = <<h[1], h[2], h[3], h[4], h[5], h[6], h[7]>> /\ \A k \in 1..7 : h[k] \in L

SevenThen(h, s) ==
  <<h[1]>> \o (<<h[2]>> \o (<<h[3]>> \o (<<h[4]>> \o (<<h[5]>> \o (<<h[6]>> \o (<<h[7]>> \o s))))))

\* The seven lines in front of the items, one by one.
LEMMA SevenLines ==
  ASSUME NEW L, NEW h, Seven(h, L), NEW s \in Seq(L)
  PROVE  h \o s = SevenThen(h, s)
<1> DEFINE a == h[1]
           b == h[2]
           c == h[3]
           d == h[4]
           e == h[5]
           f == h[6]
           g == h[7]
<1>0. a \in L /\ b \in L /\ c \in L /\ d \in L /\ e \in L /\ f \in L /\ g \in L
  BY DEF Seven
<1>8. h = <<a, b, c, d, e, f, g>>
  BY DEF Seven
<1> HIDE DEF a, b, c, d, e, f, g
<1>1. <<a, b, c, d, e, f, g>> \o s = <<a>> \o (<<b, c, d, e, f, g>> \o s)
  <2> DEFINE u == <<b, c, d, e, f, g>>
  <2>1. u \in Seq(L)
    BY <1>0
  <2>2. <<a, b, c, d, e, f, g>> = <<a>> \o u
    BY <1>0
  <2> HIDE DEF u
  <2>3. (<<a>> \o u) \o s = <<a>> \o (u \o s)
    BY <1>0, <2>1, Joins
  <2> QED BY <2>2, <2>3 DEF u
<1>2. <<b, c, d, e, f, g>> \o s = <<b>> \o (<<c, d, e, f, g>> \o s)
  <2> DEFINE u == <<c, d, e, f, g>>
  <2>1. u \in Seq(L)
    BY <1>0
  <2>2. <<b, c, d, e, f, g>> = <<b>> \o u
    BY <1>0
  <2> HIDE DEF u
  <2>3. (<<b>> \o u) \o s = <<b>> \o (u \o s)
    BY <1>0, <2>1, Joins
  <2> QED BY <2>2, <2>3 DEF u
<1>3. <<c, d, e, f, g>> \o s = <<c>> \o (<<d, e, f, g>> \o s)
  <2> DEFINE u == <<d, e, f, g>>
  <2>1. u \in Seq(L)
    BY <1>0
  <2>2. <<c, d, e, f, g>> = <<c>> \o u
    BY <1>0
  <2> HIDE DEF u
  <2>3. (<<c>> \o u) \o s = <<c>> \o (u \o s)
    BY <1>0, <2>1, Joins
  <2> QED BY <2>2, <2>3 DEF u
<1>4. <<d, e, f, g>> \o s = <<d>> \o (<<e, f, g>> \o s)
  <2> DEFINE u == <<e, f, g>>
  <2>1. u \in Seq(L)
    BY <1>0
  <2>2. <<d, e, f, g>> = <<d>> \o u
    BY <1>0
  <2> HIDE DEF u
  <2>3. (<<d>> \o u) \o s = <<d>> \o (u \o s)
    BY <1>0, <2>1, Joins
  <2> QED BY <2>2, <2>3 DEF u
<1>5. <<e, f, g>> \o s = <<e>> \o (<<f, g>> \o s)
  <2> DEFINE u == <<f, g>>
  <2>1. u \in Seq(L)
    BY <1>0
  <2>2. <<e, f, g>> = <<e>> \o u
    BY <1>0
  <2> HIDE DEF u
  <2>3. (<<e>> \o u) \o s = <<e>> \o (u \o s)
    BY <1>0, <2>1, Joins
  <2> QED BY <2>2, <2>3 DEF u
<1>6. <<f, g>> \o s = <<f>> \o (<<g>> \o s)
  <2> DEFINE u == <<g>>
  <2>1. u \in Seq(L)
    BY <1>0
  <2>2. <<f, g>> = <<f>> \o u
    BY <1>0, Pair
  <2> HIDE DEF u
  <2>3. (<<f>> \o u) \o s = <<f>> \o (u \o s)
    BY <1>0, <2>1, Joins
  <2> QED BY <2>2, <2>3 DEF u
<1>7. <<a, b, c, d, e, f, g>> \o s
      = <<a>> \o (<<b>> \o (<<c>> \o (<<d>> \o (<<e>> \o (<<f>> \o (<<g>> \o s))))))
  BY ONLY <1>1, <1>2, <1>3, <1>4, <1>5, <1>6
<1> QED BY <1>7, <1>8 DEF SevenThen, a, b, c, d, e, f, g

\* Concatenation is associative.
LEMMA Assoc ==
  ASSUME NEW L, NEW a \in Seq(L), NEW b \in Seq(L), NEW c \in Seq(L)
  PROVE  (a \o b) \o c = a \o (b \o c)
OBVIOUS

\* atoi reads back what %d wrote.
LEMMA atoiIs ==
  ASSUME NEW n \in Int
  PROVE  <<IntWord(n)>> \in Line /\ atoi(<<IntWord(n)>>) = n
<1> DEFINE w == IntWord(n)
<1>1. w \in Words /\ StartsWithInt(w) /\ w.v = n
  BY SomeWords DEF StartsWithInt, IntWord, Word
<1> HIDE DEF w
<1>2. <<w>> \in Line /\ <<w>> # <<>> /\ Head(<<w>>) = w
  BY <1>1 DEF Line, WordsPerLine
<1> QED BY <1>1, <1>2 DEF atoi, w

\* The eight lines of an item.
LEMMA SaveItemType ==
  ASSUME NEW it \in CheckItem
  PROVE  /\ SaveItem(it) \in Text /\ Len(SaveItem(it)) = 8
         /\ SaveItem(it)[1] = it.name /\ SaveItem(it)[2] = it.path /\ SaveItem(it)[3] = it.desc
         /\ SaveItem(it)[4] = <<IntWord(it.score)>> /\ SaveItem(it)[5] = it.method
         /\ SaveItem(it)[6] = <<IntWord(it.percent)>> /\ SaveItem(it)[7] = <<IntWord(it.type)>>
         /\ SaveItem(it)[8] = it.methodValue
<1> DEFINE a == it.name
           b == it.path
           c == it.desc
           d == <<IntWord(it.score)>>
           e == it.method
           f == <<IntWord(it.percent)>>
           g == <<IntWord(it.type)>>
           h == it.methodValue
<1>1. /\ it.name \in Line /\ it.path \in Line /\ it.desc \in Line /\ it.score \in Int
      /\ it.method \in Line /\ it.percent \in Int /\ it.type \in Int /\ it.methodValue \in Line
  BY DEF CheckItem
<1>2. /\ a \in Line /\ b \in Line /\ c \in Line /\ d \in Line /\ e \in Line /\ f \in Line
      /\ g \in Line /\ h \in Line
  BY <1>1, atoiIs
<1>3. SaveItem(it) = <<a, b, c, d, e, f, g, h>>
  BY DEF SaveItem
<1> HIDE DEF a, b, c, d, e, f, g, h
<1> DEFINE l == <<a, b, c, d, e, f, g, h>>
<1>4. /\ l \in Seq(Line) /\ Len(l) = 8 /\ l[1] = a /\ l[2] = b /\ l[3] = c /\ l[4] = d
      /\ l[5] = e /\ l[6] = f /\ l[7] = g /\ l[8] = h
  BY <1>2
<1> HIDE DEF l
<1>5. SaveItem(it) = l
  BY <1>3 DEF l
<1> QED BY <1>4, <1>5 DEF Text, a, b, c, d, e, f, g, h

\* The items of a check on disk, one after the other.
ItemLines(items) == [i \in DOMAIN items |-> SaveItem(items[i])]

\* What is left of the items' lines behind each item.
LEMMA ItemLinesRest ==
  ASSUME NEW items \in Seq(CheckItem)
  PROVE  \E R : /\ R \in [0..Len(items) -> Text] /\ R[Len(items)] = <<>>
                /\ R[0] = FlattenSeq(ItemLines(items))
                /\ \A i \in 1..Len(items) : R[i - 1] = SaveItem(items[i]) \o R[i]
<1> DEFINE n == Len(items)
           ss == ItemLines(items)
<1>1. n \in Nat /\ DOMAIN items = 1..n /\ \A i \in 1..n : items[i] \in CheckItem
  BY LenProperties, ElementOfSeq
<1>2. \A i \in 1..n : SaveItem(items[i]) \in Text
  BY <1>1, SaveItemType
<1>3. ss \in [1..n -> Text] /\ \A i \in 1..n : ss[i] = SaveItem(items[i])
  BY <1>1, <1>2 DEF ItemLines
<1> HIDE DEF ss, n
<1>4. ss \in Seq(Text) /\ Len(ss) = n
  BY <1>1, <1>3, SeqIs
<1>5. ss \in Seq(Seq(Line))
  BY <1>4 DEF Text
<1>6. PICK R : Rests(R, ss, Line) /\ R[0] = FlattenSeq(ss)
  BY <1>5, FlattenRests
<1>7. /\ R \in [0..n -> Seq(Line)] /\ R[n] = <<>>
      /\ \A i \in 1..n : R[i - 1] = ss[i] \o R[i]
  BY <1>4, <1>6 DEF Rests
<1> QED BY <1>3, <1>6, <1>7 DEF ss, n, Text

\* Where the lines of each item stand.
LEMMA ItemLinesAt ==
  ASSUME NEW items \in Seq(CheckItem)
  PROVE  /\ FlattenSeq(ItemLines(items)) \in Text
         /\ Len(FlattenSeq(ItemLines(items))) = 8 * Len(items)
         /\ \A i \in 1..Len(items), q \in 1..8 :
              FlattenSeq(ItemLines(items))[8 * (i - 1) + q] = SaveItem(items[i])[q]
<1> DEFINE n == Len(items)
<1>1. n \in Nat /\ \A i \in 1..n : items[i] \in CheckItem
  BY LenProperties, ElementOfSeq
<1>2. PICK R : /\ R \in [0..n -> Text] /\ R[n] = <<>>
               /\ R[0] = FlattenSeq(ItemLines(items))
               /\ \A i \in 1..n : R[i - 1] = SaveItem(items[i]) \o R[i]
  BY ItemLinesRest
<1> HIDE DEF n
<1> DEFINE G == {k \in 0..n :
                   /\ Len(R[n - k]) = 8 * k
                   /\ \A i \in 1..k, q \in 1..8 :
                        R[n - k][8 * (i - 1) + q] = SaveItem(items[n - k + i])[q]}
<1>3. 0 \in G
  <2>1. n - 0 = n /\ Len(<<>>) = 0 /\ 0 \in 0..n
    BY <1>1
  <2> QED BY <1>2, <2>1
<1>4. ASSUME NEW k \in 1..n, k - 1 \in G PROVE k \in G
  <2> DEFINE m == n - k
             s == SaveItem(items[m + 1])
             x == R[m + 1]
  <2>1. /\ m \in Nat /\ m + 1 \in 1..n /\ m + 1 \in 0..n /\ m \in 0..n /\ (m + 1) - 1 = m
        /\ n - (k - 1) = m + 1 /\ k \in 0..n /\ k \in Nat
    BY <1>1
  <2>2. /\ Len(x) = 8 * (k - 1)
        /\ \A i \in 1..(k - 1), q \in 1..8 :
             x[8 * (i - 1) + q] = SaveItem(items[m + 1 + i])[q]
    <3>1. /\ Len(R[n - (k - 1)]) = 8 * (k - 1)
          /\ \A i \in 1..(k - 1), q \in 1..8 :
               R[n - (k - 1)][8 * (i - 1) + q] = SaveItem(items[n - (k - 1) + i])[q]
      BY <1>4
    <3> QED BY <2>1, <3>1
  <2>3. R[m] = s \o x
    BY <1>2, <2>1
  <2>4. s \in Seq(Line) /\ Len(s) = 8 /\ x \in Seq(Line)
    BY <1>1, <1>2, <2>1, SaveItemType DEF Text
  <2> HIDE DEF s, x
  <2>5. /\ Len(s \o x) = Len(s) + Len(x)
        /\ \A i \in 1..(Len(s) + Len(x)) : (s \o x)[i] = IF i <= Len(s) THEN s[i] ELSE x[i - Len(s)]
    BY ONLY <2>4, ConcatProperties
  <2>6. Len(R[m]) = 8 * k
    BY <2>1, <2>2, <2>3, <2>4, <2>5
  <2>7. ASSUME NEW i \in 1..k, NEW q \in 1..8
        PROVE  R[m][8 * (i - 1) + q] = SaveItem(items[m + i])[q]
    <3>1. CASE i = 1
      <4>1. 8 * (i - 1) + q = q /\ q \in 1..(Len(s) + Len(x)) /\ q <= Len(s) /\ m + i = m + 1
        BY <2>1, <2>2, <2>4, <3>1
      <4>2. (s \o x)[q] = s[q]
        BY <2>5, <4>1
      <4> QED BY <2>3, <4>1, <4>2 DEF s
    <3>2. CASE i # 1
      <4> DEFINE p == 8 * (i - 1) + q
      <4>1. /\ i - 1 \in 1..(k - 1) /\ p \in 1..(Len(s) + Len(x)) /\ ~(p <= Len(s))
            /\ p - Len(s) = 8 * ((i - 1) - 1) + q /\ m + 1 + (i - 1) = m + i
        <5> DEFINE y == Len(x)
        <5>1. y = 8 * (k - 1) /\ i \in 2..k /\ Len(s) = 8
          BY <2>1, <2>2, <2>4, <3>2
        <5> HIDE DEF y
        <5>2. i - 1 \in 1..(k - 1) /\ p >= 9 /\ p <= 8 + y /\ p \in Int
          BY <2>1, <5>1
        <5>3. p - 8 = 8 * ((i - 1) - 1) + q /\ m + 1 + (i - 1) = m + i
          BY <2>1, <5>1
        <5> QED BY <5>1, <5>2, <5>3 DEF y
      <4>2. (s \o x)[p] = x[p - Len(s)]
        <5> HIDE DEF p
        <5> QED BY <2>5, <4>1
      <4>3. x[8 * ((i - 1) - 1) + q] = SaveItem(items[m + 1 + (i - 1)])[q]
        <5> DEFINE j == i - 1
        <5>1. j \in 1..(k - 1)
          BY <4>1
        <5> HIDE DEF j
        <5>2. x[8 * (j - 1) + q] = SaveItem(items[m + 1 + j])[q]
          BY <2>2, <5>1
        <5> QED BY <5>2 DEF j
      <4> QED BY <2>3, <4>1, <4>2, <4>3
    <3> QED BY <3>1, <3>2
  <2> QED BY <2>1, <2>6, <2>7
<1> HIDE DEF G
<1>5. \A k \in 0..n : k \in G
  BY <1>1, <1>3, <1>4, Reaches
<1>6. n \in 0..n /\ n - n = 0 /\ 0 \in 0..n
  BY <1>1
<1>7. /\ Len(R[n - n]) = 8 * n
      /\ \A i \in 1..n, q \in 1..8 : R[n - n][8 * (i - 1) + q] = SaveItem(items[n - n + i])[q]
  BY <1>5, <1>6 DEF G
<1>8. ASSUME NEW i \in 1..n, NEW q \in 1..8
      PROVE  R[0][8 * (i - 1) + q] = SaveItem(items[i])[q]
  <2>1. n - n + i = i
    BY <1>1
  <2>2. R[n - n][8 * (i - 1) + q] = SaveItem(items[n - n + i])[q]
    BY <1>7
  <2> QED BY <1>6, <2>1, <2>2
<1>9. /\ Len(R[0]) = 8 * n
      /\ \A i \in 1..n, q \in 1..8 : R[0][8 * (i - 1) + q] = SaveItem(items[i])[q]
  BY <1>6, <1>7, <1>8
<1> QED BY <1>2, <1>6, <1>9 DEF n

\* Every line of the items is one of some item.
LEMMA WhichItem ==
  ASSUME NEW n \in Nat, NEW j \in 1..(8 * n)
  PROVE  \E i \in 1..n, q \in 1..8 : j = 8 * (i - 1) + q
<1> DEFINE d == (j - 1) \div 8
           m == (j - 1) % 8
<1>1. j - 1 \in Nat /\ j - 1 = 8 * d + m /\ m \in 0..7 /\ d \in Nat
  OBVIOUS
<1> HIDE DEF d, m
<1>2. d + 1 \in 1..n /\ m + 1 \in 1..8 /\ j = 8 * ((d + 1) - 1) + (m + 1)
  BY <1>1
<1> QED BY <1>2

\* fgets gets every line of the item in one piece.
FitsItem(it) == /\ ~Long(it.name) /\ ~Long(it.path) /\ ~Long(it.desc)
                /\ ~Long(it.method) /\ ~Long(it.methodValue)

\* Fits, item by item.
LEMMA FitsEach ==
  ASSUME NEW t, t.items \in Seq(CheckItem), Fits(t), NEW i \in 1..Len(t.items)
  PROVE  FitsItem(t.items[i])
<1>1. i \in DOMAIN t.items
  BY LenProperties
<1>2. t.items[i] \in ToSet(t.items)
  BY <1>1 DEF ToSet
<1> DEFINE it == t.items[i]
<1>3. \A text \in {it.name, it.path, it.desc, it.method, it.methodValue} : ~Long(text)
  BY <1>2 DEF Fits
<1> HIDE DEF it
<1>4. FitsItem(it)
  BY <1>3 DEF FitsItem
<1> QED BY <1>4 DEF it

\* Then none of its lines is long.
LEMMA ItemNotLong ==
  ASSUME NEW it \in CheckItem, FitsItem(it), NEW q \in 1..8
  PROVE  ~Long(SaveItem(it)[q])
<1>1. \A n : ~Long(<<IntWord(n)>>)
  <2> TAKE n
  <2> DEFINE w == IntWord(n)
  <2>1. w.kind = "int"
    BY DEF IntWord, Word
  <2> HIDE DEF w
  <2>2. Head(<<w>>) = w
    OBVIOUS
  <2>3. ~Long(<<w>>)
    BY <2>1, <2>2 DEF Long
  <2> QED BY <2>3 DEF w
<1>2. /\ ~Long(it.name) /\ ~Long(it.path) /\ ~Long(it.desc)
      /\ ~Long(it.method) /\ ~Long(it.methodValue)
  BY DEF FitsItem
<1> DEFINE s == SaveItem(it)
<1>3. /\ s[1] = it.name /\ s[2] = it.path /\ s[3] = it.desc
      /\ s[4] = <<IntWord(it.score)>> /\ s[5] = it.method
      /\ s[6] = <<IntWord(it.percent)>> /\ s[7] = <<IntWord(it.type)>>
      /\ s[8] = it.methodValue
  BY SaveItemType
<1> HIDE DEF s
<1>4. q = 1 \/ q = 2 \/ q = 3 \/ q = 4 \/ q = 5 \/ q = 6 \/ q = 7 \/ q = 8
  OBVIOUS
<1>5. ~Long(s[q])
  BY <1>1, <1>2, <1>3, <1>4, Zenon
<1> QED BY <1>5 DEF s

\* Nor is any line of items that fit.
LEMMA LinesNotLong ==
  ASSUME NEW items \in Seq(CheckItem), \A i \in 1..Len(items) : FitsItem(items[i]),
         NEW j \in 1..(8 * Len(items))
  PROVE  ~Long(FlattenSeq(ItemLines(items))[j])
<1> DEFINE n == Len(items)
           s == FlattenSeq(ItemLines(items))
<1>1. n \in Nat /\ j \in 1..(8 * n) /\ \A i \in 1..n : items[i] \in CheckItem /\ FitsItem(items[i])
  BY LenProperties, ElementOfSeq
<1>2. \A i \in 1..n, q \in 1..8 : s[8 * (i - 1) + q] = SaveItem(items[i])[q]
  BY ItemLinesAt
<1> HIDE DEF n, s
<1>3. PICK i \in 1..n, q \in 1..8 : j = 8 * (i - 1) + q
  BY <1>1, WhichItem
<1>4. ~Long(SaveItem(items[i])[q])
  BY <1>1, ItemNotLong
<1>5. s[j] = SaveItem(items[i])[q]
  BY <1>2, <1>3
<1>6. ~Long(s[j])
  BY <1>4, <1>5
<1> QED BY <1>6 DEF s

\* What an item was, read back from its lines.
LEMMA ItemBack ==
  ASSUME NEW it \in CheckItem, NEW n \in Nat, NEW g \in Seq(Line), Len(g) = 8 * n + 1, NEW i \in 1..n,
         \A q \in 1..8 : g[8 * (i - 1) + 1 + q] = SaveItem(it)[q]
  PROVE  ItemAt(g, i) = it
<1> DEFINE m == 8 * (i - 1)
           s == SaveItem(it)
<1>1. /\ s[1] = it.name /\ s[2] = it.path /\ s[3] = it.desc
      /\ s[4] = <<IntWord(it.score)>> /\ s[5] = it.method
      /\ s[6] = <<IntWord(it.percent)>> /\ s[7] = <<IntWord(it.type)>>
      /\ s[8] = it.methodValue
  BY SaveItemType
<1>2. ItemAt(g, i) =
        [name |-> g[m + 2], path |-> g[m + 3], desc |-> g[m + 4], score |-> atoi(g[m + 5]),
         method |-> g[m + 6], percent |-> atoi(g[m + 7]), type |-> atoi(g[m + 8]),
         methodValue |-> g[m + 9]]
  BY ItemAtIs
<1>3. /\ m + 1 + 1 = m + 2 /\ m + 1 + 2 = m + 3 /\ m + 1 + 3 = m + 4 /\ m + 1 + 4 = m + 5
      /\ m + 1 + 5 = m + 6 /\ m + 1 + 6 = m + 7 /\ m + 1 + 7 = m + 8 /\ m + 1 + 8 = m + 9
  OBVIOUS
<1>4. \A q \in 1..8 : g[m + 1 + q] = s[q]
  OBVIOUS
<1> HIDE DEF m, s
<1>5. /\ g[m + 1 + 1] = s[1] /\ g[m + 1 + 2] = s[2] /\ g[m + 1 + 3] = s[3] /\ g[m + 1 + 4] = s[4]
      /\ g[m + 1 + 5] = s[5] /\ g[m + 1 + 6] = s[6] /\ g[m + 1 + 7] = s[7] /\ g[m + 1 + 8] = s[8]
  BY <1>4
<1>6. /\ g[m + 2] = it.name /\ g[m + 3] = it.path /\ g[m + 4] = it.desc
      /\ g[m + 5] = <<IntWord(it.score)>> /\ g[m + 6] = it.method
      /\ g[m + 7] = <<IntWord(it.percent)>> /\ g[m + 8] = <<IntWord(it.type)>>
      /\ g[m + 9] = it.methodValue
  BY <1>1, <1>3, <1>5, Zenon
<1>7. it.score \in Int /\ it.percent \in Int /\ it.type \in Int
  BY DEF CheckItem
<1>8. /\ atoi(<<IntWord(it.score)>>) = it.score /\ atoi(<<IntWord(it.percent)>>) = it.percent
      /\ atoi(<<IntWord(it.type)>>) = it.type
  BY <1>7, atoiIs
<1>9. it = [name |-> it.name, path |-> it.path, desc |-> it.desc, score |-> it.score,
            method |-> it.method, percent |-> it.percent, type |-> it.type,
            methodValue |-> it.methodValue]
  BY DEF CheckItem
<1> QED BY <1>2, <1>6, <1>8, <1>9, Zenon

\* A buffer and a stream that holds the items and then x, of which the loop takes
\* the last line for whole.
ItemsThen(a, items, x) ==
  /\ Len(a.got) = 1
  /\ a.in = FlattenSeq(ItemLines(items)) \o x
  /\ x \in Text /\ (x = <<>> => ~open)
  /\ \A i \in 1..Len(items) : FitsItem(items[i])

\* Eight turns for each item read them all.
LEMMA ItemsRead ==
  ASSUME NEW items \in Seq(CheckItem), NEW x, NEW a, ItemsThen(a, items, x), NEW read,
         Reading(read, a, 8 * Len(items))
  PROVE  /\ read[8 * Len(items)].in = x
         /\ \A i \in 1..Len(items) : ItemAt(read[8 * Len(items)].got, i) = items[i]
<1> DEFINE n == Len(items)
           m == 8 * n
           s == FlattenSeq(ItemLines(items))
           S == s \o x
           g == read[m].got
<1>1. n \in Nat /\ m \in Nat /\ m \in 0..m /\ \A i \in 1..n : items[i] \in CheckItem
  BY LenProperties, ElementOfSeq
<1>2. x \in Seq(Line) /\ (x = <<>> => ~open) /\ Len(a.got) = 1 /\ a.in = S
  BY DEF ItemsThen, Text
<1>3. s \in Seq(Line) /\ Len(s) = m
  BY ItemLinesAt DEF Text
<1>4. \A i \in 1..n, q \in 1..8 : s[8 * (i - 1) + q] = SaveItem(items[i])[q]
  BY ItemLinesAt
<1>5. \A j \in 1..m : ~Long(s[j])
  BY LinesNotLong DEF ItemsThen
<1>6. Reading(read, a, m)
  OBVIOUS
<1> HIDE DEF s, n, m
<1>7. /\ S \in Seq(Line) /\ Len(S) = m + Len(x) /\ Len(x) \in Nat
      /\ \A j \in 1..(m + Len(x)) : S[j] = IF j <= m THEN s[j] ELSE x[j - m]
  <2>1. /\ S \in Seq(Line) /\ Len(S) = Len(s) + Len(x)
        /\ \A j \in 1..(Len(s) + Len(x)) : S[j] = IF j <= Len(s) THEN s[j] ELSE x[j - Len(s)]
    BY ONLY <1>2, <1>3, ConcatProperties
  <2>2. Len(x) \in Nat
    BY <1>2, LenProperties
  <2> QED BY <1>3, <2>1, <2>2
<1> HIDE DEF S
<1>8. \A j \in 1..Len(S) : j <= m => ~Long(S[j])
  <2> SUFFICES ASSUME NEW j \in 1..Len(S), j <= m PROVE ~Long(S[j])
    OBVIOUS
  <2>1. j \in 1..m /\ j \in 1..(m + Len(x))
    BY <1>1, <1>7
  <2> QED BY <1>5, <1>7, <2>1
<1>9. /\ m <= Len(S) => read[m].in = Behind(S, m)
      /\ \A j \in 1..m : j < Len(S) \/ (j = Len(S) /\ ~open) => read[m].got[j + 1] = S[j]
  <2>1. S \in Text
    BY <1>7 DEF Text
  <2> QED BY <1>1, <1>2, <1>6, <1>8, <2>1, LinesRead
<1>10. read[m].in = x
  <2>1. m \in 0..Len(S) /\ m <= Len(S) /\ Len(S) - m = Len(x)
    BY <1>1, <1>7
  <2> DEFINE b == Behind(S, m)
  <2>2. b \in Seq(Line) /\ Len(b) = Len(x) /\ \A i \in 1..Len(x) : b[i] = S[m + i]
    <3>1. /\ Behind(S, m) \in Seq(Line) /\ Len(Behind(S, m)) = Len(S) - m
          /\ \A i \in 1..(Len(S) - m) : Behind(S, m)[i] = S[m + i]
      <4>1. S \in Seq(Line) /\ m \in 0..Len(S)
        BY <1>7, <2>1
      <4> QED BY ONLY <4>1, BehindIs
    <3> QED BY <2>1, <3>1
  <2> HIDE DEF b
  <2>3. \A i \in 1..Len(b) : b[i] = x[i]
    <3> SUFFICES ASSUME NEW i \in 1..Len(b) PROVE b[i] = x[i]
      OBVIOUS
    <3>1. i \in 1..Len(x)
      BY <2>2
    <3>2. m + i \in 1..(m + Len(x)) /\ ~(m + i <= m) /\ (m + i) - m = i
      BY <1>1, <1>7, <3>1
    <3>3. S[m + i] = x[(m + i) - m]
      BY <1>7, <3>2
    <3> QED BY <2>2, <3>1, <3>2, <3>3
  <2>4. b = x
    BY ONLY <1>2, <2>2, <2>3, SeqEqual
  <2> QED BY <1>9, <2>1, <2>4 DEF b
<1>11. \A j \in 1..m : g[j + 1] = s[j]
  <2> SUFFICES ASSUME NEW j \in 1..m PROVE g[j + 1] = s[j]
    OBVIOUS
  <2>1. j \in 1..(m + Len(x)) /\ j <= m
    BY <1>1, <1>7
  <2>2. S[j] = s[j]
    BY <1>7, <2>1
  <2>3. j < Len(S) \/ (j = Len(S) /\ ~open)
    <3>1. CASE x = <<>>
      <4>1. j <= Len(S) /\ ~open
        BY <1>1, <1>2, <1>7, <3>1
      <4>2. j \in Int /\ Len(S) \in Int
        BY <1>1, <1>7
      <4> QED BY <4>1, <4>2
    <3>2. CASE x # <<>>
      <4>1. Len(x) > 0
        BY <1>2, <1>7, <3>2, EmptySeq
      <4> QED BY <1>1, <1>7, <4>1
    <3> QED BY <3>1, <3>2
  <2> QED BY <1>9, <2>2, <2>3
<1>12. g \in Seq(Line) /\ Len(g) = 8 * n + 1
  <2>1. read[m] \in StreamState /\ Len(read[m].got) = m + 1
    BY <1>1, <1>2, <1>6, ReadingLen
  <2> QED BY <2>1 DEF StreamState, m
<1> HIDE DEF g
<1>13. ASSUME NEW i \in 1..n PROVE ItemAt(g, i) = items[i]
  <2>1. ASSUME NEW q \in 1..8 PROVE g[8 * (i - 1) + 1 + q] = SaveItem(items[i])[q]
    <3> DEFINE j == 8 * (i - 1) + q
    <3>0. i \in Int /\ i >= 1 /\ i <= n /\ q \in Int /\ q >= 1 /\ q <= 8 /\ m = 8 * n
      BY <1>1 DEF m
    <3>1. j \in 1..m /\ 8 * (i - 1) + 1 + q = j + 1
      BY <1>1, <3>0
    <3>2. s[j] = SaveItem(items[i])[q]
      BY <1>4
    <3> HIDE DEF j
    <3> QED BY <1>11, <3>1, <3>2
  <2> DEFINE it == items[i]
  <2>2. it \in CheckItem
    BY <1>1
  <2>3. \A q \in 1..8 : g[8 * (i - 1) + 1 + q] = SaveItem(it)[q]
    BY <2>1
  <2> HIDE DEF it
  <2>4. ItemAt(g, i) = it
    BY <1>1, <1>12, <2>2, <2>3, ItemBack
  <2> QED BY <2>4 DEF it
<1> QED BY <1>10, <1>13 DEF n, m, g

\* The lines of the items, and the file from each line of a task's header on; x is what follows the task.
Body(t) == FlattenSeq(ItemLines(t.items))

\* The file from the n-th line of the task t on, when x follows the task.
From7(t, x) == << <<IntWord(Len(t.items))>> >> \o (Body(t) \o x)
From6(t, x) == << <<IntWord(t.ftime)>> >> \o From7(t, x)
From5(t, x) == << <<IntWord(t.invalid)>> >> \o From6(t, x)
From4(t, x) == <<t.lasttime>> \o From5(t, x)
From3(t, x) == << <<IntWord(t.type)>> >> \o From4(t, x)
From2(t, x) == << <<IntWord(t.cycle)>> >> \o From3(t, x)
From1(t, x) == << <<t.tid>> >> \o From2(t, x)

\* The items on disk are lines.
LEMMA BodyType ==
  ASSUME NEW items \in Seq(CheckItem)
  PROVE  FlattenSeq(ItemLines(items)) \in Text
<1>1. PICK R : R \in [0..Len(items) -> Text] /\ R[0] = FlattenSeq(ItemLines(items))
  BY ItemLinesRest
<1>2. 0 \in 0..Len(items)
  BY LenProperties
<1> QED BY <1>1, <1>2

\* The fields of a task.
LEMMA TaskFields ==
  ASSUME NEW t \in Task
  PROVE  /\ t.tid \in Words /\ t.cycle \in Int /\ t.type \in Int /\ t.lasttime \in Line
         /\ t.invalid \in Int /\ t.ftime \in Int /\ t.items \in Seq(CheckItem)
         /\ checkTid(t.tid) /\ Len(t.lasttime) >= 1
         /\ FinishInit(t.items) = t.items
BY DEF Task

\* A line of one word.
LEMMA OneWord ==
  ASSUME NEW w \in Words
  PROVE  <<w>> \in Line /\ <<w>> # <<>> /\ Len(<<w>>) = 1 /\ Head(<<w>>) = w
BY DEF Line, WordsPerLine

\* A line that is not empty makes a stream solid.
LEMMA LineInFront ==
  ASSUME NEW l \in Line, l # <<>>, NEW x \in Text
  PROVE  <<l>> \o x \in Text /\ Solid(<<l>> \o x)
<1>1. <<l>> \o x \in Seq(Line) /\ Head(<<l>> \o x) = l
  BY InFront DEF Text
<1> QED BY <1>1 DEF Solid, Text

\* Every place in front of a line of the header is solid.
LEMMA HeaderType ==
  ASSUME NEW t \in Task, NEW x \in Text
  PROVE  /\ Body(t) \in Text /\ Body(t) \o x \in Text
         /\ From7(t, x) \in Text /\ Solid(From7(t, x))
         /\ From6(t, x) \in Text /\ Solid(From6(t, x))
         /\ From5(t, x) \in Text /\ Solid(From5(t, x))
         /\ From4(t, x) \in Text /\ Solid(From4(t, x))
         /\ From3(t, x) \in Text /\ Solid(From3(t, x))
         /\ From2(t, x) \in Text /\ Solid(From2(t, x))
         /\ From1(t, x) \in Text /\ Solid(From1(t, x))
<1>1. \A n \in Int : <<IntWord(n)>> \in Line /\ <<IntWord(n)>> # <<>>
  BY SomeWords, OneWord
<1>2. Body(t) \in Text
  BY TaskFields, BodyType DEF Body
<1>3. Body(t) \o x \in Text
  BY <1>2, ConcatProperties DEF Text
<1>4. Len(t.items) \in Int
  BY TaskFields, LenProperties
<1>5. From7(t, x) \in Text /\ Solid(From7(t, x))
  BY <1>1, <1>3, <1>4, LineInFront DEF From7
<1>6. From6(t, x) \in Text /\ Solid(From6(t, x))
  BY <1>1, <1>5, TaskFields, LineInFront DEF From6
<1>7. From5(t, x) \in Text /\ Solid(From5(t, x))
  BY <1>1, <1>6, TaskFields, LineInFront DEF From5
<1>8. From4(t, x) \in Text /\ Solid(From4(t, x))
  <2>1. t.lasttime \in Line /\ t.lasttime # <<>>
    <3>1. Len(t.lasttime) >= 1
      BY TaskFields
    <3> QED BY <3>1, TaskFields
  <2> QED BY <1>7, <2>1, LineInFront DEF From4
<1>9. From3(t, x) \in Text /\ Solid(From3(t, x))
  BY <1>1, <1>8, TaskFields, LineInFront DEF From3
<1>10. From2(t, x) \in Text /\ Solid(From2(t, x))
  BY <1>1, <1>9, TaskFields, LineInFront DEF From2
<1>11. From1(t, x) \in Text /\ Solid(From1(t, x))
  BY <1>10, TaskFields, OneWord, LineInFront DEF From1
<1> QED BY <1>2, <1>3, <1>5, <1>6, <1>7, <1>8, <1>9, <1>10, <1>11

\* Save writes the lines of a task one after the other.
LEMMA SaveIs ==
  ASSUME NEW t \in Task
  PROVE  /\ SaveExamTask(t) \in Text
         /\ SaveExamTask(t) = From1(t, <<>>)
         /\ \A x \in Text : SaveExamTask(t) \o x = From1(t, x)
<1> DEFINE a == <<t.tid>>
           b == <<IntWord(t.cycle)>>
           c == <<IntWord(t.type)>>
           d == t.lasttime
           e == <<IntWord(t.invalid)>>
           f == <<IntWord(t.ftime)>>
           g == <<IntWord(Len(t.items))>>
           h == <<a, b, c, d, e, f, g>>
           s == Body(t)
<1>1. a \in Line /\ b \in Line /\ c \in Line /\ d \in Line /\ e \in Line /\ f \in Line /\ g \in Line
  <2>1. \A n \in Int : <<IntWord(n)>> \in Line
    BY SomeWords, OneWord
  <2>2. Len(t.items) \in Int
    BY TaskFields, LenProperties
  <2> QED BY <2>1, <2>2, TaskFields, OneWord
<1>2. s \in Seq(Line) /\ <<>> \in Text
  BY TaskFields, BodyType, EmptySeq DEF Body, Text
<1>3. SaveExamTask(t) = h \o s
  BY DEF SaveExamTask, Body, ItemLines
<1>4. \A y \in Seq(Line) :
        From1(t, y) = <<a>> \o (<<b>> \o (<<c>> \o (<<d>> \o (<<e>> \o (<<f>> \o (<<g>> \o (s \o y)))))))
  BY DEF From1, From2, From3, From4, From5, From6, From7
<1> HIDE DEF a, b, c, d, e, f, g, s
<1>5. h \in Seq(Line)
  BY <1>1
<1>6. ASSUME NEW y \in Seq(Line) PROVE h \o (s \o y) = From1(t, y)
  <2> DEFINE z == s \o y
  <2>1. z \in Seq(Line)
    BY <1>2, ConcatProperties
  <2> HIDE DEF z
  <2>2. h \o z = <<a>> \o (<<b>> \o (<<c>> \o (<<d>> \o (<<e>> \o (<<f>> \o (<<g>> \o z))))))
    <3>1. h = <<h[1], h[2], h[3], h[4], h[5], h[6], h[7]>>
      OBVIOUS
    <3>2. h[1] = a /\ h[2] = b /\ h[3] = c /\ h[4] = d /\ h[5] = e /\ h[6] = f /\ h[7] = g
      OBVIOUS
    <3> HIDE DEF h
    <3>3. \A k \in 1..7 : h[k] \in Line
      <4>1. \A k \in 1..7 : k = 1 \/ k = 2 \/ k = 3 \/ k = 4 \/ k = 5 \/ k = 6 \/ k = 7
        OBVIOUS
      <4> QED BY <1>1, <3>2, <4>1
    <3>4. Seven(h, Line)
      BY <3>1, <3>3 DEF Seven
    <3>5. h \o z = SevenThen(h, z)
      BY ONLY <2>1, <3>4, SevenLines
    <3> QED BY ONLY <3>2, <3>5 DEF SevenThen
  <2> HIDE DEF h
  <2> QED BY <1>4, <2>2 DEF z
<1> HIDE DEF h
<1>7. h \o s \in Seq(Line)
  BY <1>2, <1>5, ConcatProperties
<1>8. ASSUME NEW y \in Seq(Line) PROVE (h \o s) \o y = From1(t, y)
  <2>1. (h \o s) \o y = h \o (s \o y)
    BY ONLY <1>2, <1>5, y \in Seq(Line), Assoc
  <2> QED BY <1>6, <2>1
<1>9. h \o s = From1(t, <<>>)
  <2>1. s \o <<>> = s
    BY <1>2
  <2>2. h \o (s \o <<>>) = From1(t, <<>>)
    BY <1>2, <1>6 DEF Text
  <2> QED BY <2>1, <2>2
<1> QED BY <1>3, <1>7, <1>8, <1>9 DEF Text

\* What Save keeps: enabled health checks; and those that it writes so that they can be read back.
Health(t) == t \in Task /\ t.invalid = Enabled /\ t.type = TYPE_EXAM_HEALTH

Plain(t) == ~Stamped(t) /\ Readable(t) /\ Fits(t)

\* What follows the number of items does not begin with an empty line.
LEMMA BodySolid ==
  ASSUME NEW t \in Task, Readable(t), NEW x \in Text, Solid(x)
  PROVE  Body(t) \o x \in Text /\ Solid(Body(t) \o x)
<1> DEFINE items == t.items
           n == Len(items)
           s == Body(t)
<1>1. items \in Seq(CheckItem) /\ n \in Nat
  BY TaskFields, LenProperties
<1>2. /\ s \in Seq(Line) /\ Len(s) = 8 * n
      /\ \A i \in 1..n, q \in 1..8 : s[8 * (i - 1) + q] = SaveItem(items[i])[q]
  BY <1>1, ItemLinesAt DEF Body, Text
<1>3. s \o x \in Text /\ x \in Seq(Line)
  BY HeaderType DEF Text
<1>4. CASE n = 0
  <2>1. s = <<>>
    BY <1>2, <1>4, EmptySeq
  <2>2. s \o x = x
    BY <1>3, <2>1, ConcatEmptySeq
  <2> QED BY <2>2
<1>5. CASE n # 0
  <2> DEFINE it == items[1]
  <2>1. 1 \in 1..n /\ 1 \in 1..8 /\ 8 * (1 - 1) + 1 = 1
    BY <1>1, <1>5
  <2>2. it \in CheckItem
    BY <1>1, <2>1, ElementOfSeq
  <2>3. s[1] = it.name
    <3>1. s[8 * (1 - 1) + 1] = SaveItem(it)[1]
      BY <1>2, <2>1
    <3>2. SaveItem(it)[1] = it.name
      BY <2>2, SaveItemType
    <3> QED BY <2>1, <3>1, <3>2
  <2>4. it.name # <<>>
    <3>1. items # <<>>
      BY <1>5
    <3> QED BY <3>1 DEF Readable
  <2> HIDE DEF it, s, n, items
  <2>5. Len(s) >= 1 /\ Len(s) \in Nat /\ Len(x) \in Nat
    BY <1>1, <1>2, <1>3, <1>5, LenProperties
  <2>6. /\ Len(s \o x) = Len(s) + Len(x)
        /\ \A j \in 1..(Len(s) + Len(x)) : (s \o x)[j] = IF j <= Len(s) THEN s[j] ELSE x[j - Len(s)]
    BY ONLY <1>2, <1>3, ConcatProperties
  <2> DEFINE S == s \o x
  <2>7. S[1] = s[1] /\ Len(S) >= 1
    <3>1. 1 \in 1..(Len(s) + Len(x)) /\ 1 <= Len(s)
      BY <2>5
    <3>2. (s \o x)[1] = s[1]
      BY <2>6, <3>1
    <3> QED BY <2>5, <2>6, <3>2
  <2>8. S \in Seq(Line)
    BY <1>3 DEF Text
  <2> HIDE DEF S
  <2>9. Head(S) = S[1]
    BY <2>7, <2>8
  <2>10. Head(S) # <<>>
    BY <2>3, <2>4, <2>7, <2>9
  <2>11. Solid(S)
    BY <2>10 DEF Solid
  <2> QED BY <1>3, <2>11 DEF S, s
<1> QED BY <1>3, <1>4, <1>5

\* An unstamped task has one word for lasttime.
LEMMA TimeWord ==
  ASSUME NEW t \in Task, ~Stamped(t)
  PROVE  \E w \in Words : t.lasttime = <<w>>
<1>1. t.lasttime \in Seq(Words) /\ Len(t.lasttime) >= 1 /\ Len(t.lasttime) <= 2
  BY TaskFields DEF Line, WordsPerLine
<1>2. Len(t.lasttime) = 1
  <2>1. Len(t.lasttime) \in Nat /\ Len(t.lasttime) # 2
    BY <1>1, LenProperties DEF Stamped
  <2> DEFINE k == Len(t.lasttime)
  <2>2. k \in Nat /\ k # 2 /\ k >= 1 /\ k <= 2
    BY <1>1, <2>1
  <2> HIDE DEF k
  <2>3. k = 1
    BY ONLY <2>2
  <2> QED BY <2>3 DEF k
<1> DEFINE w == t.lasttime[1]
<1>3. w \in Words
  BY <1>1, <1>2, ElementOfSeq
<1>4. t.lasttime = <<w>>
  <2> DEFINE l == t.lasttime
             m == <<w>>
  <2>1. m \in Seq(Words) /\ Len(m) = 1 /\ m[1] = w
    BY <1>3
  <2>2. l \in Seq(Words) /\ Len(l) = 1 /\ l[1] = w
    BY <1>1, <1>2
  <2> HIDE DEF l, m, w
  <2>3. \A i \in 1..1 : l[i] = m[i]
    BY <2>1, <2>2
  <2>4. l = m
    BY <2>1, <2>2, <2>3, SeqEqual
  <2> QED BY <2>4 DEF l, m
<1> QED BY <1>3, <1>4

\* The items of a task that fits are read back.
LEMMA BodyWhole ==
  ASSUME NEW t \in Task, Readable(t), Fits(t), left \in Line, NEW x \in Text, Solid(x),
         x = <<>> => ~open
  PROVE  LoadExamTask(From7(t, x)) = [items |-> t.items, in |-> x]
<1> DEFINE s == From7(t, x)
           y == Body(t) \o x
           items == t.items
           n == Len(items)
           a == Start0(s)
<1>1. n \in Nat /\ items \in Seq(CheckItem)
  BY TaskFields, LenProperties
<1>2. y \in Text /\ Solid(y)
  BY BodySolid
<1>3. s \in Text /\ s = << <<IntWord(n)>> >> \o y
  BY HeaderType DEF From7
<1>4. y = FlattenSeq(ItemLines(items)) \o x
  BY DEF Body
<1>5. \A i \in 1..n : FitsItem(items[i])
  BY <1>1, FitsEach
<1> HIDE DEF s, n, y
<1>6. ScanD(s, 0) = [v |-> n, in |-> y]
  <2>1. n \in Int
    BY <1>1
  <2> QED BY <1>2, <1>3, <2>1, ScanDIs
<1>7. Number(s) = n
  <2>1. ScanD(s, 0).v = n
    BY <1>6
  <2>2. Max({0, n}) = n
    BY <1>1, AtLeastZero
  <2> QED BY <2>1, <2>2 DEF Number
<1>8. a = [got |-> <<left>>, in |-> y]
  <2>1. ScanD(s, 0).in = y
    BY <1>6
  <2> QED BY <2>1 DEF Start0
<1> HIDE DEF a
<1>9. ItemsThen(a, items, x)
  <2>1. Len(a.got) = 1 /\ a.in = y
    BY <1>8
  <2> QED BY <1>4, <1>5, <2>1 DEF ItemsThen, n
<1>10. PICK read : /\ Reading(read, a, 8 * Number(s))
                   /\ LoadExamTask(s) =
                        [items |-> [i \in 1..Number(s) |-> ItemAt(read[8 * Number(s)].got, i)],
                         in |-> read[8 * Number(s)].in]
  BY <1>3, LoadExamTaskReads DEF a
<1> DEFINE m == 8 * n
           g == read[m].got
<1>11. /\ Reading(read, a, m)
       /\ LoadExamTask(s) = [items |-> [i \in 1..n |-> ItemAt(g, i)], in |-> read[m].in]
  BY <1>7, <1>10
<1>12. read[m].in = x /\ \A i \in 1..n : ItemAt(g, i) = items[i]
  <2>1. Reading(read, a, 8 * Len(items))
    BY <1>11 DEF n
  <2> HIDE DEF items, a
  <2>2. /\ read[8 * Len(items)].in = x
        /\ \A i \in 1..Len(items) : ItemAt(read[8 * Len(items)].got, i) = items[i]
    BY <1>1, <1>9, <2>1, ItemsRead
  <2> QED BY <2>2 DEF n
<1> HIDE DEF g, m
<1>13. [i \in 1..n |-> ItemAt(g, i)] = items
  <2>1. [i \in 1..n |-> ItemAt(g, i)] = [i \in 1..n |-> items[i]]
    BY <1>12
  <2>2. items = [i \in 1..n |-> items[i]]
    BY <1>1 DEF n
  <2> QED BY <2>1, <2>2
<1> QED BY <1>11, <1>12, <1>13 DEF s

\* What Save wrote of a task is what LoadTask reads.
LEMMA LoadTaskWhole ==
  ASSUME NEW t, Health(t), Plain(t), left \in Line, NEW x \in Text, Solid(x), x = <<>> => ~open
  PROVE  LoadTask(SaveExamTask(t) \o x) = [err |-> 0, task |-> t, in |-> x]
<1> DEFINE in == SaveExamTask(t) \o x
<1>1. t \in Task /\ t.invalid = Enabled /\ t.type = TYPE_EXAM_HEALTH /\ ~Stamped(t) /\ Readable(t)
      /\ Fits(t)
  BY DEF Health, Plain
<1>2. in = << <<t.tid>> >> \o From2(t, x)
  BY <1>1, SaveIs DEF From1
<1> HIDE DEF in
<1>3. TidOf(in) = [eof |-> FALSE, word |-> t.tid, in |-> From2(t, x)]
  BY <1>1, <1>2, HeaderType, TaskFields, ScanSIs DEF TidOf
<1>4. CycleOf(in) = [v |-> t.cycle, in |-> From3(t, x)]
  <2>1. ScanD(From2(t, x), 0) = [v |-> t.cycle, in |-> From3(t, x)]
    BY <1>1, HeaderType, TaskFields, ScanDIs DEF From2
  <2>2. TidOf(in).in = From2(t, x)
    BY <1>3
  <2> QED BY <2>1, <2>2 DEF CycleOf
<1>5. TypeOf(in) = [v |-> t.type, in |-> From4(t, x)]
  <2>1. ScanD(From3(t, x), 0) = [v |-> t.type, in |-> From4(t, x)]
    BY <1>1, HeaderType, TaskFields, ScanDIs DEF From3
  <2>2. CycleOf(in).in = From3(t, x)
    BY <1>4
  <2> QED BY <2>1, <2>2 DEF TypeOf
<1>6. PICK w \in Words : t.lasttime = <<w>>
  BY <1>1, TimeWord
<1>7. TimeOf(in) = [eof |-> FALSE, word |-> w, in |-> From5(t, x)]
  <2>1. ScanS(From4(t, x)) = [eof |-> FALSE, word |-> w, in |-> From5(t, x)]
    BY <1>1, <1>6, HeaderType, ScanSIs DEF From4
  <2>2. TypeOf(in).in = From4(t, x)
    BY <1>5
  <2> QED BY <2>1, <2>2 DEF TimeOf
<1>8. InvalidOf(in) = [v |-> t.invalid, in |-> From6(t, x)]
  <2>1. ScanD(From5(t, x), 0) = [v |-> t.invalid, in |-> From6(t, x)]
    BY <1>1, HeaderType, TaskFields, ScanDIs DEF From5
  <2>2. TimeOf(in).in = From5(t, x)
    BY <1>7
  <2> QED BY <2>1, <2>2 DEF InvalidOf
<1>9. FtimeOf(in) = [v |-> t.ftime, in |-> From7(t, x)]
  <2>1. ScanD(From6(t, x), 0) = [v |-> t.ftime, in |-> From7(t, x)]
    BY <1>1, HeaderType, TaskFields, ScanDIs DEF From6
  <2>2. InvalidOf(in).in = From6(t, x)
    BY <1>8
  <2> QED BY <2>1, <2>2 DEF FtimeOf
<1>10. BodyOf(in) = [items |-> t.items, in |-> x]
  <2>1. TypeOf(in).v = TYPE_EXAM_HEALTH /\ FtimeOf(in).in = From7(t, x)
    BY <1>1, <1>5, <1>9
  <2>2. BodyOf(in) = LoadExamTask(From7(t, x))
    BY <2>1 DEF BodyOf
  <2> QED BY <1>1, <2>2, BodyWhole
<1>11. TaskOf(in) = t
  <2>1. TaskOf(in) = [tid |-> t.tid, cycle |-> t.cycle, type |-> t.type, lasttime |-> t.lasttime,
                      invalid |-> t.invalid, ftime |-> t.ftime, items |-> t.items]
    <3>1. TidOf(in).word = t.tid /\ CycleOf(in).v = t.cycle /\ TypeOf(in).v = t.type
      BY <1>3, <1>4, <1>5
    <3>2. (IF TimeOf(in).eof THEN <<NeverRun>> ELSE <<TimeOf(in).word>>) = t.lasttime
      BY <1>6, <1>7
    <3>3. (IF InvalidOf(in).v = Running THEN Enabled ELSE InvalidOf(in).v) = t.invalid
      BY <1>1, <1>8 DEF Running, Enabled
    <3>4. FtimeOf(in).v = t.ftime /\ FinishInit(BodyOf(in).items) = t.items
      BY <1>1, <1>9, <1>10, TaskFields
    <3> QED BY <3>1, <3>2, <3>3, <3>4 DEF TaskOf
  <2> QED BY <1>1, <2>1 DEF Task
<1>12. ~TidOf(in).eof /\ checkTid(TidOf(in).word)
  BY <1>1, <1>3, TaskFields
<1>13. LoadTask(in) = [err |-> 0, task |-> TaskOf(in), in |-> BodyOf(in).in]
  BY <1>12, LoadTaskIs
<1> QED BY <1>10, <1>11, <1>13 DEF in

\* vector::erase: the elements behind the erased one move one place down.
LEMMA RemoveAtShifts ==
  ASSUME NEW T, NEW s \in Seq(T), NEW i \in 1..Len(s)
  PROVE  /\ RemoveAt(s, i) \in Seq(T)
         /\ Len(RemoveAt(s, i)) = Len(s) - 1
         /\ \A k \in 1..(Len(s) - 1) :
               RemoveAt(s, i)[k] = IF k < i THEN s[k] ELSE s[k + 1]
<1> DEFINE l == SubSeq(s, 1, i - 1)
           r == SubSeq(s, i + 1, Len(s))
<1>1. /\ l \in Seq(T)
      /\ Len(l) = i - 1
      /\ \A k \in 1..(i - 1) : l[k] = s[k]
  BY SubSeqProperties
<1>2. /\ r \in Seq(T)
      /\ Len(r) = Len(s) - i
      /\ \A k \in 1..(Len(s) - i) : r[k] = s[i + k]
  BY SubSeqProperties
<1>3. RemoveAt(s, i) = l \o r
  BY DEF RemoveAt
<1> HIDE DEF l, r
<1>4. /\ l \o r \in Seq(T)
      /\ Len(l \o r) = Len(l) + Len(r)
      /\ \A k \in 1..(Len(l) + Len(r)) :
            (l \o r)[k] = IF k <= Len(l) THEN l[k] ELSE r[k - Len(l)]
  BY <1>1, <1>2, ConcatProperties
<1>5. Len(s) \in Nat /\ i \in Int
  BY LenProperties
<1>6. RemoveAt(s, i) \in Seq(T) /\ Len(RemoveAt(s, i)) = Len(s) - 1
  BY <1>1, <1>2, <1>3, <1>4, <1>5
<1>7. ASSUME NEW k \in 1..(Len(s) - 1)
      PROVE  RemoveAt(s, i)[k] = IF k < i THEN s[k] ELSE s[k + 1]
  <2>1. k \in 1..(Len(l) + Len(r))
    BY <1>1, <1>2, <1>5
  <2>2. (l \o r)[k] = IF k <= Len(l) THEN l[k] ELSE r[k - Len(l)]
    BY <1>4, <2>1
  <2>3. CASE k < i
    <3>1. k \in 1..(i - 1) /\ k <= Len(l)
      BY <1>1, <1>5, <2>3
    <3> QED BY <1>1, <1>3, <2>2, <2>3, <3>1
  <2>4. CASE ~(k < i)
    <3>1. ~(k <= Len(l)) /\ k - Len(l) = k - i + 1 /\ i + (k - i + 1) = k + 1
      BY <1>1, <1>5, <2>4
    <3>2. k - i + 1 \in 1..(Len(s) - i)
      BY <1>5, <2>4
    <3>3. r[k - i + 1] = s[k + 1]
      BY <1>2, <3>1, <3>2
    <3> QED BY <1>3, <2>2, <2>4, <3>1, <3>3
  <2> QED BY <2>3, <2>4
<1> QED BY <1>6, <1>7

\* _AddTask erases at most one task, which clashes with the new one, and
\* appends.
LEMMA AddErases ==
  ASSUME NEW T, NEW list \in Seq(T), NEW task
  PROVE  \/ /\ \A k \in 1..Len(list) : ~Clashes(list[k], task)
            /\ _AddTask(list, task) = Append(list, task)
         \/ \E i \in 1..Len(list) : /\ Clashes(list[i], task)
                                    /\ _AddTask(list, task) = Append(RemoveAt(list, i), task)
<1> DEFINE I == {k \in 1..Len(list) : Clashes(list[k], task)}
<1>1. _AddTask(list, task) =
        Append(IF I # {} THEN RemoveAt(list, Min(I)) ELSE list, task)
  <2>1. (\E k \in 1..Len(list) : Clashes(list[k], task)) <=> I # {}
    OBVIOUS
  <2> QED BY <2>1 DEF _AddTask, RemoveFirstMatch, SelectInSeq
<1>2. CASE I = {}
  BY <1>1, <1>2
<1>3. CASE I # {}
  <2>1. I \in SUBSET Nat
    OBVIOUS
  <2>2. Min(I) \in I
    BY <1>3, <2>1, MinIn
  <2>3. Min(I) \in 1..Len(list) /\ Clashes(list[Min(I)], task)
    BY <2>2
  <2> HIDE DEF I
  <2> QED BY <1>1, <1>3, <2>3
<1> QED BY <1>2, <1>3

\* _AddTask keeps the type of a list.
LEMMA AddType ==
  ASSUME NEW T, NEW list \in Seq(T), NEW task \in T
  PROVE  _AddTask(list, task) \in Seq(T)
<1>1. CASE _AddTask(list, task) = Append(list, task)
  BY <1>1, AppendProperties
<1>2. ASSUME NEW i \in 1..Len(list), _AddTask(list, task) = Append(RemoveAt(list, i), task)
      PROVE  _AddTask(list, task) \in Seq(T)
  <2>1. RemoveAt(list, i) \in Seq(T)
    BY RemoveAtShifts
  <2> QED BY <1>2, <2>1, AppendProperties
<1> QED BY <1>1, <1>2, AddErases

-----------------------------------------------------------------------------
(* The loop of Load                                                         *)

\* Load starts no task: one that was running is enabled.
Loaded == {t \in Task : t.invalid # Running}
LoopState == [list : Seq(Loaded), i : Int, in : Text]

\* One turn of the loop of Load, v the number of tasks it was told.
Turn(s, v) ==
  LET r == LoadTask(s.in)
  IN IF s.i >= v \/ r.err < 0 THEN s
     ELSE IF r.err # 0 THEN [s EXCEPT !.in = r.in]
     ELSE [list |-> _AddTask(s.list, r.task), i |-> s.i + 1, in |-> r.in]

\* A turn of the loop keeps the type of its state.
LEMMA TurnType ==
  ASSUME left \in Line, NEW s \in LoopState, NEW v \in Int
  PROVE  Turn(s, v) \in LoopState
<1> DEFINE r == LoadTask(s.in)
<1>1. s.list \in Seq(Loaded) /\ s.i \in Int /\ s.in \in Text
  BY DEF LoopState
<1>2. /\ r.err \in {-1, 0, 1} /\ r.in \in Text
      /\ r.err = 0 => r.task \in Loaded
  BY <1>1, LoadTaskType DEF Loaded
<1>3. Turn(s, v) = IF s.i >= v \/ r.err < 0 THEN s
                   ELSE IF r.err # 0 THEN [s EXCEPT !.in = r.in]
                   ELSE [list |-> _AddTask(s.list, r.task), i |-> s.i + 1, in |-> r.in]
  BY DEF Turn
<1> HIDE DEF r
<1>4. CASE s.i >= v \/ r.err < 0
  BY <1>3, <1>4
<1>5. CASE ~(s.i >= v \/ r.err < 0) /\ r.err # 0
  <2>1. Turn(s, v) = [s EXCEPT !.in = r.in]
    BY <1>3, <1>5
  <2> QED BY <1>2, <2>1 DEF LoopState
<1>6. CASE ~(s.i >= v \/ r.err < 0) /\ r.err = 0
  <2>1. Turn(s, v) = [list |-> _AddTask(s.list, r.task), i |-> s.i + 1, in |-> r.in]
    BY <1>3, <1>6
  <2>2. _AddTask(s.list, r.task) \in Seq(Loaded)
    BY <1>1, <1>2, <1>6, AddType
  <2> QED BY <1>1, <1>2, <2>1, <2>2 DEF LoopState
<1> QED BY <1>4, <1>5, <1>6

\* loop[k] is the state after k turns.
Looping(loop, a, v, n) ==
  /\ loop \in [0..n -> LoopState]
  /\ loop[0] = a
  /\ \A k \in 1..n : loop[k] = Turn(loop[k - 1], v)

\* The states of that loop exist.
LEMMA LoopingExists ==
  ASSUME left \in Line, NEW n \in Nat, NEW v \in Int, NEW a \in LoopState
  PROVE  \E loop : Looping(loop, a, v, n)
<1> DEFINE F == [p \in (1..n) \X LoopState |-> Turn(p[2], v)]
<1>1. F \in [(1..n) \X LoopState -> LoopState]
  BY TurnType
<1>2. \A k \in 1..n, s \in LoopState : F[<<k, s>>] = Turn(s, v)
  OBVIOUS
<1> HIDE DEF F
<1>3. PICK loop : Turns(loop, F, a, LoopState, n)
  BY <1>1, TurnsExist
<1>4. /\ loop \in [0..n -> LoopState] /\ loop[0] = a
      /\ \A k \in 1..n : loop[k] = F[<<k, loop[k - 1]>>]
  BY <1>3 DEF Turns
<1>5. \A k \in 1..n : loop[k - 1] \in LoopState
  BY <1>4
<1> QED BY <1>2, <1>4, <1>5 DEF Looping

\* Load's list is that of the loop after its last turn.
LEMMA LoadLoopRuns ==
  ASSUME left \in Line, NEW text \in Text
  PROVE  \E loop : /\ Looping(loop, [list |-> <<>>, i |-> 0, in |-> ScanD(text, 0).in],
                              ScanD(text, 0).v, WordsPerLine * Len(text))
                   /\ LoadLoop(text) = loop[WordsPerLine * Len(text)].list
<1> DEFINE nNum == ScanD(text, 0)
           v == nNum.v
           a == [list |-> <<>>, i |-> 0, in |-> nNum.in]
           m == WordsPerLine * Len(text)
           IsLoop(f) == f = [k \in 0..m |-> IF k = 0 THEN a ELSE Turn(f[k - 1], v)]
           loop == CHOOSE f : IsLoop(f)
<1>1. v \in Int /\ nNum.in \in Text /\ m \in Nat
  BY ScanDType, LenProperties DEF WordsPerLine, Text
<1>2. a \in LoopState
  <2>1. <<>> \in Seq(Loaded)
    BY EmptySeq
  <2> QED BY <1>1, <2>1 DEF LoopState
<1>3. LoadLoop(text) = loop[m].list
  BY DEF LoadLoop, Turn
<1> HIDE DEF v, nNum, a, m
<1>4. IsLoop(loop)
  <2>1. PICK f : Looping(f, a, v, m)
    BY <1>1, <1>2, LoopingExists
  <2>2. /\ f \in [0..m -> LoopState] /\ f[0] = a
        /\ \A k \in 1..m : f[k] = Turn(f[k - 1], v)
    BY <2>1 DEF Looping
  <2>3. \A k \in 0..m : f[k] = IF k = 0 THEN a ELSE Turn(f[k - 1], v)
    BY <1>1, <2>2
  <2>4. f = [k \in 0..m |-> f[k]]
    BY <2>2
  <2>5. IsLoop(f)
    BY <2>3, <2>4
  <2> QED BY <2>5
<1> HIDE DEF loop
<1>5. /\ loop[0] = a
      /\ \A k \in 1..m : loop[k] = Turn(loop[k - 1], v)
  <2>1. \A k \in 0..m : loop[k] = IF k = 0 THEN a ELSE Turn(loop[k - 1], v)
    BY <1>4
  <2>2. 0 \in 0..m /\ \A k \in 1..m : k \in 0..m /\ k # 0
    BY <1>1
  <2> QED BY <2>1, <2>2
<1>6. \A k \in 0..m : loop[k] \in LoopState
  <2> DEFINE G == {k \in 0..m : loop[k] \in LoopState}
  <2>1. 0 \in G
    BY <1>1, <1>2, <1>5
  <2>2. ASSUME NEW k \in 1..m, k - 1 \in G PROVE k \in G
    <3>1. Turn(loop[k - 1], v) \in LoopState
      BY <1>1, <2>2, TurnType
    <3>2. k \in 0..m
      BY <1>1
    <3> QED BY <1>5, <3>1, <3>2
  <2> HIDE DEF G
  <2>3. \A k \in 0..m : k \in G
    BY <1>1, <2>1, <2>2, Reaches
  <2> QED BY <2>3 DEF G
<1>7. Looping(loop, a, v, m)
  <2>1. loop = [k \in 0..m |-> loop[k]]
    <3> DEFINE h == [k \in 0..m |-> IF k = 0 THEN a ELSE Turn(loop[k - 1], v)]
    <3>1. h = [k \in 0..m |-> h[k]]
      OBVIOUS
    <3>2. loop = h
      BY <1>4
    <3> HIDE DEF h
    <3> QED BY <3>1, <3>2
  <2>2. loop \in [0..m -> LoopState]
    BY <1>6, <2>1
  <2> QED BY <1>5, <2>2 DEF Looping
<1> QED BY <1>3, <1>7 DEF v, nNum, a, m

\* Whatever a file holds, Load gives a list of tasks.
LEMMA LoadLoopType ==
  ASSUME left \in Line, NEW text \in Text
  PROVE  LoadLoop(text) \in Seq(Loaded)
<1> DEFINE m == WordsPerLine * Len(text)
           a == [list |-> <<>>, i |-> 0, in |-> ScanD(text, 0).in]
           v == ScanD(text, 0).v
<1>1. PICK loop : Looping(loop, a, v, m) /\ LoadLoop(text) = loop[m].list
  BY LoadLoopRuns
<1>2. m \in 0..m
  BY LenProperties DEF WordsPerLine, Text
<1> HIDE DEF m
<1>3. loop[m] \in LoopState
  BY <1>1, <1>2 DEF Looping
<1> QED BY <1>1, <1>3 DEF LoopState

-----------------------------------------------------------------------------
(* The last task of each tid                                                *)

\* The tasks of a file.
Saveable == {t \in Task : Health(t)}

\* The last tasks of their tids among the first k of K.
LastIn(K, k) == {j \in 1..k : \A i \in 1..k : K[i].tid = K[j].tid => i <= j}

\* list is made of those, in their order.
NewestAt(at, list, K, k) ==
  /\ at \in [1..Len(list) -> LastIn(K, k)]
  /\ \A j \in LastIn(K, k) : \E i \in 1..Len(list) : at[i] = j
  /\ \A i, j \in 1..Len(list) : i < j => at[i] < at[j]
  /\ \A i \in 1..Len(list) : list[i] = K[at[i]]

\* A new task takes the place of the last of its tid.
LEMMA LastInStep ==
  ASSUME NEW K, NEW k \in Nat, k >= 1
  PROVE  LastIn(K, k) = {j \in LastIn(K, k - 1) : K[j].tid # K[k].tid} \cup {k}
<1> DEFINE old == LastIn(K, k - 1)
           tid(j) == K[j].tid
<1>0. k \in 1..k /\ \A i \in 1..k : i = k \/ i \in 1..(k - 1)
  OBVIOUS
<1>1. ASSUME NEW j \in LastIn(K, k) PROVE j = k \/ (j \in old /\ tid(j) # tid(k))
  <2>1. j \in 1..k /\ \A i \in 1..k : tid(i) = tid(j) => i <= j
    BY DEF LastIn
  <2>2. CASE j # k
    <3>1. j \in 1..(k - 1)
      BY <2>1, <2>2
    <3>2. tid(j) # tid(k)
      <4> SUFFICES ASSUME tid(k) = tid(j) PROVE FALSE
        OBVIOUS
      <4> HIDE DEF tid
      <4>1. k <= j
        BY <1>0, <2>1
      <4> QED BY <3>1, <4>1
    <3>3. \A i \in 1..(k - 1) : tid(i) = tid(j) => i <= j
      BY <2>1
    <3> QED BY <3>1, <3>2, <3>3 DEF LastIn
  <2> QED BY <2>2
<1>2. ASSUME NEW j \in old, tid(j) # tid(k) PROVE j \in LastIn(K, k)
  <2>1. j \in 1..(k - 1) /\ \A i \in 1..(k - 1) : tid(i) = tid(j) => i <= j
    BY DEF LastIn
  <2>2. j \in 1..k
    BY <2>1
  <2>3. \A i \in 1..k : tid(i) = tid(j) => i <= j
    BY <1>0, <1>2, <2>1
  <2> QED BY <2>2, <2>3 DEF LastIn
<1>3. k \in LastIn(K, k)
  <2>1. \A i \in 1..k : i <= k
    OBVIOUS
  <2> QED BY <1>0, <2>1 DEF LastIn
<1> HIDE DEF old
<1> QED BY <1>1, <1>2, <1>3 DEF old

\* Two of them have different tids.
LEMMA LastInOnce ==
  ASSUME NEW K, NEW k \in Nat, NEW i \in LastIn(K, k), NEW j \in LastIn(K, k), K[i].tid = K[j].tid
  PROVE  i = j
<1>1. i \in 1..k /\ j \in 1..k /\ i <= j /\ j <= i
  BY DEF LastIn
<1> QED BY <1>1

\* The last tasks of the first k are among the first k.
LEMMA LastInBelow ==
  ASSUME NEW K, NEW k \in Nat, NEW j \in LastIn(K, k)
  PROVE  j \in 1..k
BY DEF LastIn

\* _AddTask keeps the last task of each tid.
LEMMA NewestStep ==
  ASSUME NEW K \in Seq(Saveable), NEW k \in 1..Len(K), NEW list \in Seq(Loaded), NEW at,
         NewestAt(at, list, K, k - 1)
  PROVE  \E new : NewestAt(new, _AddTask(list, K[k]), K, k)
<1> DEFINE n == Len(list)
           task == K[k]
           add == _AddTask(list, task)
           old == LastIn(K, k - 1)
           last == LastIn(K, k)
<1>1. n \in Nat /\ k \in Nat /\ k >= 1 /\ k - 1 \in Nat /\ Len(K) \in Nat /\ k <= Len(K)
  BY LenProperties
<1>2. last = {j \in old : K[j].tid # task.tid} \cup {k}
  BY <1>1, LastInStep
<1>3. /\ at \in [1..n -> old]
      /\ \A j \in old : \E i \in 1..n : at[i] = j
      /\ \A i, j \in 1..n : i < j => at[i] < at[j]
      /\ \A i \in 1..n : list[i] = K[at[i]]
  BY DEF NewestAt
<1>4. \A j \in old : j \in 1..(k - 1)
  BY <1>1, LastInBelow
<1>5. \A j \in 1..Len(K) : K[j].invalid = Enabled /\ K[j] \in Loaded
  <2>1. \A j \in 1..Len(K) : K[j] \in Saveable
    BY ElementOfSeq
  <2> QED BY <2>1 DEF Saveable, Health, Loaded, Enabled, Running
<1>6. \A i \in 1..n : at[i] \in old /\ at[i] \in 1..(k - 1) /\ list[i].invalid = Enabled
  <2>1. \A i \in 1..n : at[i] \in old /\ at[i] \in 1..(k - 1)
    BY <1>3, <1>4
  <2>2. \A i \in 1..n : at[i] \in 1..Len(K)
    BY <1>1, <2>1
  <2> QED BY <1>3, <1>5, <2>1, <2>2
<1>7. \A i \in 1..n : Clashes(list[i], task) <=> list[i].tid = task.tid
  BY <1>6 DEF Clashes, Enabled, Disabled
<1>8. task \in Loaded
  BY <1>5
<1> HIDE DEF n, task, add, old, last
<1>9. CASE (\A i \in 1..n : list[i].tid # task.tid) /\ add = Append(list, task)
  <2> DEFINE new == [i \in 1..(n + 1) |-> IF i = n + 1 THEN k ELSE at[i]]
  <2>1. /\ Len(add) = n + 1 /\ add[n + 1] = task
        /\ \A i \in 1..n : add[i] = list[i]
    BY <1>8, <1>9, AppendProperties DEF n
  <2>2. last = old \cup {k}
    <3>1. \A j \in old : K[j].tid # task.tid
      BY <1>3, <1>9
    <3> QED BY <1>2, <3>1
  <2>3. /\ new \in [1..(n + 1) -> last] /\ new[n + 1] = k
        /\ \A i \in 1..n : new[i] = at[i]
    BY <1>1, <1>3, <2>2
  <2> HIDE DEF new
  <2>4. \A j \in last : \E i \in 1..(n + 1) : new[i] = j
    <3>1. n + 1 \in 1..(n + 1) /\ \A i \in 1..n : i \in 1..(n + 1)
      BY <1>1
    <3>2. ASSUME NEW j \in old PROVE \E i \in 1..(n + 1) : new[i] = j
      BY <1>3, <2>3, <3>1
    <3> QED BY <2>2, <2>3, <3>1, <3>2
  <2>5. ASSUME NEW i \in 1..(n + 1), NEW j \in 1..(n + 1), i < j PROVE new[i] < new[j]
    <3>1. i \in 1..n
      BY <1>1, <2>5
    <3>2. CASE j = n + 1
      <4>1. new[i] = at[i] /\ at[i] \in 1..(k - 1) /\ new[j] = k
        BY <1>6, <2>3, <3>1, <3>2
      <4> QED BY <1>1, <4>1
    <3>3. CASE j # n + 1
      <4>1. j \in 1..n
        BY <1>1, <3>3
      <4> QED BY <1>3, <2>3, <2>5, <3>1, <4>1
    <3> QED BY <3>2, <3>3
  <2>6. ASSUME NEW i \in 1..(n + 1) PROVE add[i] = K[new[i]]
    <3>1. CASE i = n + 1
      BY <2>1, <2>3, <3>1 DEF task
    <3>2. CASE i # n + 1
      <4>1. i \in 1..n
        BY <1>1, <3>2
      <4> QED BY <1>3, <2>1, <2>3, <4>1
    <3> QED BY <3>1, <3>2
  <2>7. NewestAt(new, add, K, k)
    BY <2>1, <2>3, <2>4, <2>5, <2>6 DEF NewestAt, last
  <2> QED BY <2>7 DEF add, task
<1>10. ASSUME NEW p \in 1..n, list[p].tid = task.tid, add = Append(RemoveAt(list, p), task)
       PROVE  \E new : NewestAt(new, add, K, k)
  <2> DEFINE new == [i \in 1..n |-> IF i = n THEN k ELSE IF i < p THEN at[i] ELSE at[i + 1]]
             cut == RemoveAt(list, p)
  <2>1. /\ cut \in Seq(Loaded) /\ Len(cut) = n - 1
        /\ \A i \in 1..(n - 1) : cut[i] = IF i < p THEN list[i] ELSE list[i + 1]
    BY RemoveAtShifts DEF n
  <2> HIDE DEF cut
  <2>2. /\ Len(add) = n /\ add[n] = task
        /\ \A i \in 1..(n - 1) : add[i] = IF i < p THEN list[i] ELSE list[i + 1]
    <3>1. /\ Len(Append(cut, task)) = Len(cut) + 1 /\ Append(cut, task)[Len(cut) + 1] = task
          /\ \A i \in 1..Len(cut) : Append(cut, task)[i] = cut[i]
      BY <1>8, <2>1, AppendProperties
    <3>2. Len(cut) + 1 = n
      BY <1>1, <2>1
    <3>3. add = Append(cut, task)
      BY <1>10 DEF cut
    <3> QED BY <2>1, <3>1, <3>2, <3>3
  <2>3. last = (old \ {at[p]}) \cup {k}
    <3>1. K[at[p]].tid = task.tid /\ at[p] \in old
      BY <1>3, <1>6, <1>10
    <3>2. \A j \in old : K[j].tid = task.tid => j = at[p]
      BY <1>1, <3>1, LastInOnce DEF old
    <3> QED BY <1>2, <3>1, <3>2
  <2>4. \A i \in 1..(n - 1) : /\ i \in 1..n /\ i + 1 \in 1..n /\ i # n
                              /\ new[i] = IF i < p THEN at[i] ELSE at[i + 1]
    BY <1>1
  <2>5. n \in 1..n /\ new[n] = k
    BY <1>1
  <2>6. ASSUME NEW i \in 1..n, NEW j \in 1..n, at[i] = at[j] PROVE i = j
    <3>1. at[i] \in Int /\ at[j] \in Int
      BY <1>6
    <3>2. ~(at[i] < at[j]) /\ ~(at[j] < at[i])
      BY <2>6, <3>1
    <3>3. ~(i < j) /\ ~(j < i)
      BY <1>3, <3>2
    <3> QED BY <1>1, <3>3
  <2>7. \A i \in 1..(n - 1) : new[i] \in old \ {at[p]} /\ new[i] \in 1..(k - 1)
    <3> SUFFICES ASSUME NEW i \in 1..(n - 1)
                 PROVE  new[i] \in old \ {at[p]} /\ new[i] \in 1..(k - 1)
      OBVIOUS
    <3> DEFINE q == IF i < p THEN i ELSE i + 1
    <3>1. q \in 1..n /\ q # p
      BY <1>1, <2>4
    <3>2. new[i] = at[q]
      BY <2>4
    <3> HIDE DEF q, new
    <3>3. at[q] # at[p]
      BY <2>6, <3>1
    <3> QED BY <1>6, <3>1, <3>2, <3>3
  <2>8. new \in [1..n -> last]
    <3>1. \A i \in 1..n : i = n \/ i \in 1..(n - 1)
      BY <1>1
    <3>2. \A i \in 1..n : new[i] \in last
      <4> HIDE DEF new
      <4> QED BY <2>3, <2>5, <2>7, <3>1
    <3>3. new = [i \in 1..n |-> new[i]]
      OBVIOUS
    <3> HIDE DEF new
    <3> QED BY <3>2, <3>3
  <2> HIDE DEF new
  <2>9. ASSUME NEW j \in last PROVE \E i \in 1..n : new[i] = j
    <3>1. CASE j = k
      BY <2>5, <3>1
    <3>2. CASE j # k
      <4>1. j \in old /\ j # at[p]
        BY <2>3, <3>2
      <4>2. PICK q \in 1..n : at[q] = j
        BY <1>3, <4>1
      <4>3. q # p
        BY <4>1, <4>2
      <4>4. CASE q < p
        <5>1. q \in 1..(n - 1)
          BY <1>1, <4>4
        <5>2. new[q] = at[q]
          BY <2>4, <4>4, <5>1
        <5> QED BY <4>2, <5>2
      <4>5. CASE q > p
        <5>1. q - 1 \in 1..(n - 1) /\ ~(q - 1 < p) /\ (q - 1) + 1 = q /\ q - 1 \in 1..n
          BY <1>1, <4>5
        <5>2. new[q - 1] = at[(q - 1) + 1]
          BY <2>4, <5>1
        <5> QED BY <4>2, <5>1, <5>2
      <4> QED BY <4>3, <4>4, <4>5
    <3> QED BY <3>1, <3>2
  <2>10. ASSUME NEW i \in 1..n, NEW j \in 1..n, i < j PROVE new[i] < new[j]
    <3>1. i \in 1..(n - 1)
      BY <1>1, <2>10
    <3>2. CASE j = n
      <4>1. new[i] \in 1..(k - 1) /\ new[j] = k
        BY <2>5, <2>7, <3>1, <3>2
      <4> QED BY <1>1, <4>1
    <3>3. CASE j # n
      <4> DEFINE q == IF i < p THEN i ELSE i + 1
                 r == IF j < p THEN j ELSE j + 1
      <4>1. j \in 1..(n - 1)
        BY <1>1, <3>3
      <4>2. q \in 1..n /\ r \in 1..n /\ q < r
        BY <1>1, <2>10, <3>1, <4>1
      <4>3. new[i] = at[q] /\ new[j] = at[r]
        BY <2>4, <3>1, <4>1
      <4> HIDE DEF q, r
      <4> QED BY <1>3, <4>2, <4>3
    <3> QED BY <3>2, <3>3
  <2>11. ASSUME NEW i \in 1..n PROVE add[i] = K[new[i]]
    <3>1. CASE i = n
      BY <2>2, <2>5, <3>1 DEF task
    <3>2. CASE i # n
      <4> DEFINE q == IF i < p THEN i ELSE i + 1
      <4>1. i \in 1..(n - 1)
        BY <1>1, <3>2
      <4>2. q \in 1..n
        BY <1>1, <4>1
      <4>3. add[i] = list[q] /\ new[i] = at[q]
        BY <2>2, <2>4, <4>1
      <4> HIDE DEF q
      <4> QED BY <1>3, <4>2, <4>3
    <3> QED BY <3>1, <3>2
  <2>12. NewestAt(new, add, K, k)
    BY <2>2, <2>8, <2>9, <2>10, <2>11 DEF NewestAt, last
  <2> QED BY <2>12
<1>11. \/ (\A i \in 1..n : ~Clashes(list[i], task)) /\ add = Append(list, task)
       \/ \E p \in 1..n : Clashes(list[p], task) /\ add = Append(RemoveAt(list, p), task)
  BY AddErases DEF n, add
<1> QED BY <1>7, <1>9, <1>10, <1>11 DEF add, task

-----------------------------------------------------------------------------
(* A file that was written to its end                                       *)

\* R[k] is the file behind the first k tasks.
ImageOf(R, K) ==
  /\ R \in [0..Len(K) -> Text]
  /\ R[Len(K)] = <<>>
  /\ \A k \in 1..Len(K) : R[k - 1] = SaveExamTask(K[k]) \o R[k]
  /\ \A k \in 0..Len(K) : Solid(R[k])
  /\ Image(K) = << <<IntWord(Len(K))>> >> \o R[0]

\* What is left of the file behind each task.
LEMMA ImageRests ==
  ASSUME NEW K \in Seq(Saveable)
  PROVE  \E R : ImageOf(R, K)
<1> DEFINE n == Len(K)
           ss == [k \in DOMAIN K |-> SaveExamTask(K[k])]
<1>1. n \in Nat /\ DOMAIN K = 1..n /\ \A k \in 1..n : K[k] \in Task
  <2>1. \A k \in 1..n : K[k] \in Saveable
    BY ElementOfSeq
  <2> QED BY <2>1, LenProperties DEF Saveable
<1>2. \A k \in 1..n : SaveExamTask(K[k]) \in Text
  BY <1>1, SaveIs
<1>3. ss \in [1..n -> Text] /\ \A k \in 1..n : ss[k] = SaveExamTask(K[k])
  BY <1>1, <1>2
<1>4. Image(K) = << <<IntWord(n)>> >> \o FlattenSeq(ss)
  BY DEF Image
<1> HIDE DEF ss, n
<1>5. ss \in Seq(Text) /\ Len(ss) = n
  BY <1>1, <1>3, SeqIs
<1>6. ss \in Seq(Seq(Line))
  BY <1>5 DEF Text
<1>7. PICK R : Rests(R, ss, Line) /\ R[0] = FlattenSeq(ss)
  BY <1>6, FlattenRests
<1>8. /\ R \in [0..n -> Seq(Line)] /\ R[n] = <<>>
      /\ \A k \in 1..n : R[k - 1] = ss[k] \o R[k]
  BY <1>5, <1>7 DEF Rests
<1>9. ASSUME NEW k \in 0..n PROVE Solid(R[k])
  <2>1. CASE k = n
    BY <1>8, <2>1 DEF Solid
  <2>2. CASE k # n
    <3> DEFINE j == k + 1
    <3>1. j \in 1..n /\ j \in 0..n /\ j - 1 = k
      BY <1>1, <2>2
    <3> HIDE DEF j
    <3>2. R[k] = SaveExamTask(K[j]) \o R[j] /\ R[j] \in Text /\ K[j] \in Task
      <4>1. R[j - 1] = ss[j] \o R[j]
        BY <1>8, <3>1
      <4> QED BY <1>1, <1>3, <1>8, <3>1, <4>1 DEF Text
    <3>3. R[k] = From1(K[j], R[j])
      BY <3>2, SaveIs
    <3> QED BY <3>2, <3>3, HeaderType
  <2> QED BY <2>1, <2>2
<1>10. ImageOf(R, K)
  BY <1>3, <1>4, <1>7, <1>8, <1>9 DEF ImageOf, Text, n
<1> QED BY <1>10

\* The file of a Save is lines.
LEMMA ImageType ==
  ASSUME NEW K \in Seq(Saveable)
  PROVE  Image(K) \in Text
<1>1. PICK R : ImageOf(R, K)
  BY ImageRests
<1>2. Len(K) \in Int /\ 0 \in 0..Len(K)
  BY LenProperties
<1>3. R[0] \in Text /\ Image(K) = << <<IntWord(Len(K))>> >> \o R[0]
  BY <1>1, <1>2 DEF ImageOf
<1>4. <<IntWord(Len(K))>> \in Line
  BY <1>2, atoiIs
<1> QED BY <1>3, <1>4, InFront DEF Text

\* A task has a line, so the loop has a turn for each.
LEMMA ImageLen ==
  ASSUME NEW K \in Seq(Saveable)
  PROVE  Len(Image(K)) \in Nat /\ Len(Image(K)) >= Len(K)
<1> DEFINE n == Len(K)
<1>1. n \in Nat /\ \A k \in 1..n : K[k] \in Task
  <2>1. \A k \in 1..n : K[k] \in Saveable
    BY ElementOfSeq
  <2> QED BY <2>1, LenProperties DEF Saveable
<1>2. PICK R : ImageOf(R, K)
  BY ImageRests
<1>3. /\ R \in [0..n -> Text]
      /\ \A k \in 1..n : R[k - 1] = SaveExamTask(K[k]) \o R[k]
      /\ Image(K) = << <<IntWord(n)>> >> \o R[0]
  BY <1>2 DEF ImageOf
<1> HIDE DEF n
<1> DEFINE G == {j \in 0..n : Len(R[n - j]) >= j}
<1>4. 0 \in G
  <2>1. n - 0 = n /\ n \in 0..n
    BY <1>1
  <2>2. Len(R[n]) \in Nat
    BY <1>3, <2>1, LenProperties DEF Text
  <2> QED BY <1>1, <2>1, <2>2
<1>5. ASSUME NEW j \in 1..n, j - 1 \in G PROVE j \in G
  <2> DEFINE k == n - (j - 1)
             t == K[k]
             x == R[k]
  <2>1. k \in 1..n /\ k \in 0..n /\ k - 1 = n - j /\ j \in 0..n
    BY <1>1
  <2>2. Len(R[k]) >= j - 1
    BY <1>5
  <2> HIDE DEF k
  <2>3. t \in Task /\ x \in Text
    BY <1>1, <1>3, <2>1
  <2>4. R[n - j] = SaveExamTask(t) \o x
    BY <1>3, <2>1
  <2> HIDE DEF t
  <2>5. R[n - j] = << <<t.tid>> >> \o From2(t, x)
    BY <2>3, <2>4, SaveIs DEF From1
  <2>6. SaveExamTask(t) \in Seq(Line) /\ Len(SaveExamTask(t)) >= 1
    <3>1. SaveExamTask(t) = << <<t.tid>> >> \o From2(t, <<>>) /\ SaveExamTask(t) \in Text
      BY <2>3, SaveIs DEF From1
    <3>2. <<>> \in Text
      BY EmptySeq DEF Text
    <3>3. From2(t, <<>>) \in Text /\ <<t.tid>> \in Line
      BY <2>3, <3>2, HeaderType, TaskFields, OneWord
    <3>4. Len(SaveExamTask(t)) = Len(From2(t, <<>>)) + 1 /\ Len(From2(t, <<>>)) \in Nat
      BY <3>1, <3>3, InFront, LenProperties DEF Text
    <3> QED BY <3>1, <3>4 DEF Text
  <2> HIDE DEF x
  <2>7. Len(R[n - j]) = Len(SaveExamTask(t)) + Len(x)
    <3> DEFINE a == SaveExamTask(t)
    <3> HIDE DEF a
    <3>1. a \in Seq(Line) /\ x \in Seq(Line)
      BY <2>3, <2>6 DEF a, Text
    <3>2. Len(a \o x) = Len(a) + Len(x)
      BY ONLY <3>1, ConcatProperties
    <3> QED BY <2>4, <3>2 DEF a
  <2>8. Len(SaveExamTask(t)) \in Nat /\ Len(x) \in Nat /\ Len(x) >= j - 1
    BY <2>2, <2>3, <2>6, LenProperties DEF Text, x
  <2>9. Len(R[n - j]) >= j
    BY <2>6, <2>7, <2>8
  <2> QED BY <2>1, <2>9
<1> HIDE DEF G
<1>6. \A j \in 0..n : j \in G
  BY <1>1, <1>4, <1>5, Reaches
<1>7. n \in 0..n /\ n - n = 0 /\ 0 \in 0..n
  BY <1>1
<1>8. Len(R[0]) >= n /\ R[0] \in Seq(Line)
  BY <1>3, <1>6, <1>7 DEF G, Text
<1>9. Len(Image(K)) = Len(R[0]) + 1
  <2>1. <<IntWord(n)>> \in Line
    BY <1>1, atoiIs
  <2> QED BY <1>3, <1>8, <2>1, InFront
<1>10. Len(R[0]) \in Nat
  BY <1>8, LenProperties
<1> QED BY <1>1, <1>8, <1>9, <1>10 DEF n

\* Load reads such a file to its end.
LEMMA LoadWhole ==
  ASSUME left \in Line, ~open, NEW K \in Seq(Saveable), \A k \in 1..Len(K) : Plain(K[k])
  PROVE  LastOfEach(LoadLoop(Image(K)), K)
<1> DEFINE n == Len(K)
           text == Image(K)
           m == WordsPerLine * Len(text)
<1>1. n \in Nat /\ DOMAIN K = 1..n /\ \A k \in 1..n : Health(K[k]) /\ Plain(K[k])
  <2>1. \A k \in 1..n : K[k] \in Saveable
    BY ElementOfSeq
  <2> QED BY <2>1, LenProperties DEF Saveable
<1>2. PICK R : ImageOf(R, K)
  BY ImageRests
<1>3. /\ R \in [0..n -> Text] /\ R[n] = <<>>
      /\ \A k \in 1..n : R[k - 1] = SaveExamTask(K[k]) \o R[k]
      /\ \A k \in 0..n : Solid(R[k])
      /\ text = << <<IntWord(n)>> >> \o R[0]
  BY <1>2 DEF ImageOf
<1>4. text \in Text /\ m \in Nat /\ m >= n
  <2>1. text \in Text /\ Len(text) \in Nat /\ Len(text) >= n
    BY ImageType, ImageLen
  <2> HIDE DEF text, n
  <2> QED BY <1>1, <2>1 DEF WordsPerLine
<1> HIDE DEF n, text
<1>5. ScanD(text, 0) = [v |-> n, in |-> R[0]]
  <2>1. R[0] \in Text /\ Solid(R[0])
    BY <1>1, <1>3
  <2> QED BY <1>1, <1>3, <2>1, ScanDIs
<1>6. PICK loop : /\ Looping(loop, [list |-> <<>>, i |-> 0, in |-> ScanD(text, 0).in],
                             ScanD(text, 0).v, m)
                  /\ LoadLoop(text) = loop[m].list
  BY <1>4, LoadLoopRuns
<1> HIDE DEF m
<1>7. /\ loop \in [0..m -> LoopState]
      /\ loop[0] = [list |-> <<>>, i |-> 0, in |-> R[0]]
      /\ \A k \in 1..m : loop[k] = Turn(loop[k - 1], n)
  <2>1. ScanD(text, 0).v = n /\ ScanD(text, 0).in = R[0]
    BY <1>5
  <2> QED BY <1>6, <2>1 DEF Looping
<1> DEFINE G == {k \in 0..n : /\ loop[k].i = k
                              /\ loop[k].in = R[k]
                              /\ \E at : NewestAt(at, loop[k].list, K, k)}
<1>8. 0 \in G
  <2>1. loop[0].i = 0 /\ loop[0].in = R[0] /\ loop[0].list = <<>>
    BY <1>7
  <2> DEFINE none == [i \in 1..0 |-> 0]
  <2>2. NewestAt(none, <<>>, K, 0)
    <3>1. LastIn(K, 0) = {} /\ Len(<<>>) = 0 /\ 1..0 = {}
      BY EmptySeq DEF LastIn
    <3> QED BY <3>1 DEF NewestAt
  <2> HIDE DEF none
  <2>3. \E at : NewestAt(at, loop[0].list, K, 0)
    BY <2>1, <2>2
  <2>4. 0 \in 0..n
    BY <1>1
  <2> QED BY <2>1, <2>3, <2>4
<1>9. ASSUME NEW k \in 1..n, k - 1 \in G PROVE k \in G
  <2> DEFINE s == loop[k - 1]
             t == K[k]
             x == R[k]
  <2>1. k \in 0..n /\ k \in 1..m /\ k - 1 \in 0..m /\ k - 1 \in Int /\ ~(k - 1 >= n)
    BY <1>1, <1>4
  <2>2. s \in LoopState /\ s.i = k - 1 /\ s.in = R[k - 1]
    BY <1>7, <1>9, <2>1
  <2>3. PICK at : NewestAt(at, s.list, K, k - 1)
    BY <1>9
  <2>4. Health(t) /\ Plain(t) /\ x \in Text /\ Solid(x)
    BY <1>1, <1>3, <2>1
  <2>5. s.in = SaveExamTask(t) \o x
    BY <1>3, <2>2
  <2>6. loop[k] = Turn(s, n)
    BY <1>7, <2>1
  <2> HIDE DEF s, t, x
  <2>7. LoadTask(s.in) = [err |-> 0, task |-> t, in |-> x]
    BY <2>4, <2>5, LoadTaskWhole
  <2>8. loop[k] = [list |-> _AddTask(s.list, t), i |-> s.i + 1, in |-> x]
    <3>1. ~(s.i >= n)
      BY <2>1, <2>2
    <3> QED BY <2>6, <2>7, <3>1 DEF Turn
  <2>9. s.list \in Seq(Loaded)
    BY <2>2 DEF LoopState
  <2>10. \E new : NewestAt(new, _AddTask(s.list, t), K, k)
    <3> DEFINE l == s.list
    <3>1. l \in Seq(Loaded) /\ NewestAt(at, l, K, k - 1)
      BY <2>3, <2>9
    <3> HIDE DEF l
    <3>2. \E new : NewestAt(new, _AddTask(l, K[k]), K, k)
      BY <3>1, NewestStep DEF n
    <3> QED BY <3>2 DEF l, t
  <2>11. loop[k].i = k /\ loop[k].in = R[k] /\ loop[k].list = _AddTask(s.list, t)
    BY <2>1, <2>2, <2>8 DEF x
  <2> QED BY <2>1, <2>10, <2>11
<1> HIDE DEF G
<1>10. \A k \in 0..n : k \in G
  BY <1>1, <1>8, <1>9, Reaches
<1>11. n \in 0..n
  BY <1>1
<1>12. n \in G
  BY <1>10, <1>11
<1> DEFINE H == {k \in 0..m : k >= n => loop[k] = loop[n]}
<1>13. 0 \in H
  BY <1>1, <1>4
<1>14. ASSUME NEW k \in 1..m, k - 1 \in H PROVE k \in H
  <2>1. k \in 0..m
    BY <1>4
  <2>2. CASE k = n
    BY <2>1, <2>2
  <2>3. CASE k < n
    BY <1>1, <2>1, <2>3
  <2>4. CASE k > n
    <3>1. k - 1 >= n
      BY <1>1, <2>4
    <3>2. loop[k - 1] = loop[n]
      BY <1>14, <3>1
    <3>3. loop[k] = Turn(loop[n], n)
      BY <1>7, <3>2
    <3>4. loop[n].i >= n
      <4>1. loop[n].i = n
        BY <1>12 DEF G
      <4> QED BY <1>1, <4>1
    <3>5. Turn(loop[n], n) = loop[n]
      BY <3>4 DEF Turn
    <3> QED BY <2>1, <3>3, <3>5
  <2> QED BY <1>1, <2>2, <2>3, <2>4
<1> HIDE DEF H
<1>15. \A k \in 0..m : k \in H
  BY <1>4, <1>13, <1>14, Reaches
<1>16. loop[m] = loop[n]
  <2>1. m \in 0..m
    BY <1>4
  <2> QED BY <1>4, <1>15, <2>1 DEF H
<1> DEFINE list == LoadLoop(text)
<1>17. PICK at : NewestAt(at, list, K, n)
  BY <1>6, <1>12, <1>16 DEF G
<1>18. list \in Seq(Loaded)
  BY <1>4, LoadLoopType
<1> HIDE DEF list
<1>19. LastOfEach(list, K)
  <2> DEFINE last == {k \in DOMAIN K : \A j \in DOMAIN K : K[j].tid = K[k].tid => j <= k}
  <2>1. last = LastIn(K, n) /\ DOMAIN list = 1..Len(list)
    BY <1>1, <1>18, LenProperties DEF LastIn
  <2>2. /\ at \in [DOMAIN list -> last]
        /\ \A k \in last : \E i \in DOMAIN list : at[i] = k
        /\ \A i, j \in DOMAIN list : i < j => at[i] < at[j]
        /\ \A i \in DOMAIN list : list[i] = K[at[i]]
    <3> HIDE DEF last
    <3> QED BY <1>17, <2>1 DEF NewestAt
  <2> QED BY <2>2 DEF LastOfEach
<1> QED BY <1>19 DEF list, text

-----------------------------------------------------------------------------
(* A file that was not written to its end                                   *)

\* in is some lines of the text all and c, what a crash left of the next.
CutAt(in, all, c) ==
  \E m \in 0..(Len(all) - 1) : c \in CutLine(all[m + 1]) /\ in = SubSeq(all, 1, m) \o c

\* in is what a crash left of the text all, or the end of it.
Cut(in, all) == in = <<>> \/ \E c : CutAt(in, all, c)

\* The beginning of a word is a word, and long only if the word is.
LEMMA BeginningType ==
  ASSUME NEW w \in Words, NEW b \in BeginningOf(w)
  PROVE  b \in Words /\ (b.kind = "long" => w.kind = "long")
<1>1. w.kind \in Kinds /\ w.v \in Int \cup Tids \cup Names
  BY DEF Words
<1>2. \/ b = w
      \/ b = Word("cutTid", w.v)
      \/ b = Stub
      \/ w.kind = "int" /\ b = IntWord(w.v \div 10)
  BY DEF BeginningOf
<1>5. CASE b = Stub
  <2>1. Stub.kind = "cut"
    BY DEF Stub, Word
  <2> QED BY <1>5, <2>1, SomeWords
<1>3. CASE b = Word("cutTid", w.v)
  <2> DEFINE c == Word("cutTid", w.v)
  <2>1. c \in [kind : Kinds, v : Int \cup Tids \cup Names] /\ c.kind = "cutTid"
    BY <1>1 DEF Word, Kinds
  <2> HIDE DEF c
  <2>2. c \in Words
    BY <2>1 DEF Words, StartsWithInt
  <2> QED BY <1>3, <2>1, <2>2 DEF c
<1>4. CASE w.kind = "int" /\ b = IntWord(w.v \div 10)
  <2>1. w.v \in Int
    BY <1>4 DEF Words, StartsWithInt
  <2>2. w.v \div 10 \in Int
    BY <2>1
  <2>3. IntWord(w.v \div 10).kind = "int"
    BY DEF IntWord, Word
  <2> QED BY <1>4, <2>2, <2>3, SomeWords
<1> QED BY <1>2, <1>3, <1>4, <1>5

\* What is left of an integer is an integer, of 0 it is 0.
LEMMA BeginningOfInt ==
  ASSUME NEW n \in Int, NEW b \in BeginningOf(IntWord(n))
  PROVE  \E k \in Int : b = IntWord(k) /\ (n = 0 => k = 0)
<1>1. IntWord(n).kind = "int" /\ IntWord(n).v = n
  BY DEF IntWord, Word
<1>2. b = IntWord(n) \/ (n >= 10 /\ b = IntWord(n \div 10))
  BY <1>1 DEF BeginningOf
<1>3. n \div 10 \in Int
  OBVIOUS
<1> QED BY <1>2, <1>3

\* A line of one word is long when the word is.
LEMMA LongWord ==
  ASSUME NEW w
  PROVE  Long(<<w>>) => w.kind = "long"
<1>1. Head(<<w>>) = w
  OBVIOUS
<1> QED BY <1>1 DEF Long

\* What is left of a line.
LEMMA CutLineType ==
  ASSUME NEW l \in Line, NEW c \in CutLine(l)
  PROVE  /\ c \in Seq(Line) /\ Len(c) \in 0..1 /\ (c = <<>> <=> Len(c) = 0)
         /\ Len(c) = 1 => c[1] # <<>> /\ (Long(c[1]) => Long(l))
<1>1. c = <<>> \/ (l # <<>> /\ \E w \in BeginningOf(Head(l)) : c = << <<w>> >>)
  BY DEF CutLine
<1>2. CASE c = <<>>
  BY <1>2, EmptySeq
<1>3. ASSUME NEW w \in BeginningOf(Head(l)), l # <<>>, c = << <<w>> >>
      PROVE  /\ c \in Seq(Line) /\ Len(c) \in 0..1 /\ (c = <<>> <=> Len(c) = 0)
             /\ Len(c) = 1 => c[1] # <<>> /\ (Long(c[1]) => Long(l))
  <2>1. Head(l) \in Words
    BY <1>3, HeadTailProperties DEF Line
  <2>2. w \in Words /\ (w.kind = "long" => Head(l).kind = "long")
    BY <2>1, BeginningType
  <2> DEFINE d == <<w>>
  <2>3. d \in Line /\ d # <<>> /\ c = <<d>>
    BY <1>3, <2>2, OneWord
  <2>4. Long(d) => Long(l)
    <3>1. Long(d) => w.kind = "long"
      BY LongWord
    <3> QED BY <1>3, <2>2, <3>1 DEF Long
  <2> HIDE DEF d
  <2>5. c \in Seq(Line) /\ Len(c) = 1 /\ c[1] = d
    BY <2>3
  <2> QED BY <2>3, <2>4, <2>5
<1> QED BY <1>1, <1>2, <1>3

\* What a crash left of two texts in a row is what it left of the first, or the
\* first and what it left of the second.
LEMMA CutAtSplit ==
  ASSUME NEW a \in Text, NEW b \in Text, NEW in, NEW c, CutAt(in, a \o b, c)
  PROVE  CutAt(in, a, c) \/ \E rest : in = a \o rest /\ CutAt(rest, b, c)
<1> DEFINE all == a \o b
           p == Len(a)
           q == Len(b)
<1>1. p \in Nat /\ q \in Nat /\ a \in Seq(Line) /\ b \in Seq(Line)
  BY LenProperties DEF Text
<1>2. /\ all \in Seq(Line) /\ Len(all) = p + q
      /\ \A i \in 1..(p + q) : all[i] = IF i <= p THEN a[i] ELSE b[i - p]
  BY <1>1, ConcatProperties
<1>12. PICK m \in 0..(Len(all) - 1) : c \in CutLine(all[m + 1]) /\ in = SubSeq(all, 1, m) \o c
  BY DEF CutAt
<1> HIDE DEF all, p, q
<1>13. m \in 0..(p + q - 1) /\ m \in Nat /\ m + 1 \in 1..(p + q) /\ m \in 0..Len(all)
  BY <1>1, <1>2
<1> DEFINE s == SubSeq(all, 1, m)
<1>14. s \in Seq(Line) /\ Len(s) = m /\ \A i \in 1..m : s[i] = all[i]
  BY <1>2, <1>13, PrefixIs
<1> HIDE DEF s
<1>15. CASE m < p
  <2> DEFINE u == SubSeq(a, 1, m)
  <2>1. m \in 0..Len(a) /\ m \in 0..(Len(a) - 1)
    BY <1>1, <1>13, <1>15 DEF p
  <2>2. u \in Seq(Line) /\ Len(u) = m /\ \A i \in 1..m : u[i] = a[i]
    BY <1>1, <2>1, PrefixIs
  <2> HIDE DEF u
  <2>3. \A i \in 1..m : s[i] = u[i]
    <3>1. \A i \in 1..m : i \in 1..(p + q) /\ i <= p
      BY <1>1, <1>13, <1>15
    <3> QED BY <1>2, <1>14, <2>2, <3>1
  <2>4. s = u
    BY <1>14, <2>2, <2>3, SeqEqual
  <2>5. all[m + 1] = a[m + 1]
    BY <1>1, <1>2, <1>13, <1>15
  <2>6. in = u \o c /\ c \in CutLine(a[m + 1])
    BY <1>12, <2>4, <2>5 DEF s
  <2> QED BY <2>1, <2>6 DEF CutAt, u
<1>16. CASE ~(m < p)
  <2> DEFINE k == m - p
             u == SubSeq(b, 1, k)
             rest == u \o c
  <2>1. k \in 0..(q - 1) /\ k \in 0..Len(b) /\ k + p = m /\ k \in Nat
    BY <1>1, <1>13, <1>16 DEF q
  <2> HIDE DEF k
  <2>2. u \in Seq(Line) /\ Len(u) = k /\ \A i \in 1..k : u[i] = b[i]
    BY <1>1, <2>1, PrefixIs
  <2> HIDE DEF u
  <2>3. /\ a \o u \in Seq(Line) /\ Len(a \o u) = p + k
        /\ \A i \in 1..(p + k) : (a \o u)[i] = IF i <= p THEN a[i] ELSE u[i - p]
    BY <1>1, <2>2, ConcatProperties DEF p
  <2>4. ASSUME NEW i \in 1..m PROVE s[i] = (a \o u)[i]
    <3>1. i \in 1..(p + q) /\ i \in 1..(p + k)
      BY <1>1, <1>13, <2>1
    <3>2. CASE i <= p
      BY <1>2, <1>14, <2>3, <3>1, <3>2
    <3>3. CASE ~(i <= p)
      <4>1. i - p \in 1..k
        BY <1>1, <2>1, <3>3
      <4>2. s[i] = b[i - p]
        BY <1>2, <1>14, <3>1, <3>3
      <4>3. (a \o u)[i] = u[i - p]
        BY <2>3, <3>1, <3>3
      <4> QED BY <2>2, <4>1, <4>2, <4>3
    <3> QED BY <3>2, <3>3
  <2>5. s = a \o u
    <3> DEFINE v == a \o u
    <3>1. v \in Seq(Line) /\ Len(v) = m /\ \A i \in 1..m : s[i] = v[i]
      BY <1>1, <2>1, <2>3, <2>4
    <3> HIDE DEF v
    <3>2. s = v
      BY <1>14, <3>1, SeqEqual
    <3> QED BY <3>2 DEF v
  <2>6. all[m + 1] = b[k + 1]
    <3>1. ~(m + 1 <= p) /\ (m + 1) - p = k + 1
      BY <1>1, <1>13, <1>16, <2>1
    <3> QED BY <1>2, <1>13, <3>1
  <2>7. c \in Seq(Line)
    <3>1. b[k + 1] \in Line
      <4>1. k + 1 \in 1..Len(b)
        BY <1>1, <2>1 DEF q
      <4> QED BY <1>1, <4>1, ElementOfSeq
    <3>2. c \in CutLine(b[k + 1])
      BY <1>12, <2>6
    <3> QED BY <3>1, <3>2, CutLineType
  <2>8. in = a \o rest
    <3>1. in = (a \o u) \o c
      BY <1>12, <2>5 DEF s
    <3>2. (a \o u) \o c = a \o (u \o c)
      <4>1. a \in Seq(Line) /\ u \in Seq(Line) /\ c \in Seq(Line)
        BY <1>1, <2>2, <2>7
      <4> QED BY <4>1, Assoc
    <3> QED BY <3>1, <3>2
  <2>9. CutAt(rest, b, c)
    <3>1. k \in 0..(Len(b) - 1) /\ c \in CutLine(b[k + 1])
      BY <1>12, <2>1, <2>6 DEF q
    <3> QED BY <3>1 DEF CutAt, u
  <2> QED BY <2>8, <2>9
<1> QED BY <1>15, <1>16

\* The same of a stream that may be at its end.
LEMMA CutSplit ==
  ASSUME NEW a \in Text, NEW b \in Text, NEW in, Cut(in, a \o b)
  PROVE  Cut(in, a) \/ \E rest : in = a \o rest /\ Cut(rest, b)
<1>1. CASE in = <<>>
  BY <1>1 DEF Cut
<1>2. ASSUME NEW c, CutAt(in, a \o b, c)
      PROVE  Cut(in, a) \/ \E rest : in = a \o rest /\ Cut(rest, b)
  <2>1. CutAt(in, a, c) \/ \E rest : in = a \o rest /\ CutAt(rest, b, c)
    BY <1>2, CutAtSplit
  <2> QED BY <2>1 DEF Cut
<1> QED BY <1>1, <1>2 DEF Cut

\* What a crash left of a line is nothing or one word.
LEMMA CutOne ==
  ASSUME NEW l \in Line, NEW in, Cut(in, <<l>>)
  PROVE  in = <<>> \/ (l # <<>> /\ \E w \in BeginningOf(Head(l)) : in = << <<w>> >>)
<1> DEFINE all == <<l>>
<1>1. all \in Seq(Line) /\ Len(all) = 1 /\ all[1] = l
  OBVIOUS
<1>2. Cut(in, all)
  OBVIOUS
<1> HIDE DEF all
<1>3. CASE in # <<>>
  <2>0. PICK c : CutAt(in, all, c)
    BY <1>2, <1>3 DEF Cut
  <2>1. PICK m \in 0..(Len(all) - 1) : c \in CutLine(all[m + 1]) /\ in = SubSeq(all, 1, m) \o c
    BY <2>0 DEF CutAt
  <2>2. m = 0
    BY <1>1
  <2>3. c \in CutLine(all[0 + 1]) /\ in = SubSeq(all, 1, 0) \o c
    BY <2>1, <2>2
  <2>4. all[0 + 1] = l
    BY <1>1
  <2>5. SubSeq(all, 1, 0) = <<>>
    <3>1. 0 \in Int /\ 1 \in Int /\ 0 < 1
      OBVIOUS
    <3> QED BY ONLY <3>1, SubSeqEmpty
  <2>6. c = <<>> \/ (l # <<>> /\ \E w \in BeginningOf(Head(l)) : c = << <<w>> >>)
    BY <2>3, <2>4 DEF CutLine
  <2>7. CASE c = <<>>
    BY <2>3, <2>5, <2>7
  <2>8. ASSUME NEW w \in BeginningOf(Head(l)), l # <<>>, c = << <<w>> >> PROVE in = << <<w>> >>
    <3>1. <<>> \o << <<w>> >> = << <<w>> >>
      OBVIOUS
    <3> QED BY <2>3, <2>5, <2>8, <3>1
  <2> QED BY <2>6, <2>7, <2>8
<1> QED BY <1>3

\* The three ways a line begins what a crash left.
LEMMA CutFirst ==
  ASSUME NEW l \in Line, NEW b \in Text, NEW in, Cut(in, <<l>> \o b)
  PROVE  \/ in = <<>>
         \/ l # <<>> /\ \E w \in BeginningOf(Head(l)) : in = << <<w>> >>
         \/ \E rest : in = <<l>> \o rest /\ Cut(rest, b)
<1>1. <<l>> \in Text
  BY DEF Text
<1>2. Cut(in, <<l>>) \/ \E rest : in = <<l>> \o rest /\ Cut(rest, b)
  BY <1>1, CutSplit
<1> QED BY <1>2, CutOne

\* The lines a crash left: some of those of the text, and perhaps c; none became long.
CutLines(in, all, c) ==
  /\ c \in Seq(Line) /\ Len(c) \in 0..1 /\ (c = <<>> <=> Len(c) = 0)
  /\ in \in Text /\ Len(in) \in Nat /\ Len(in) >= Len(c) /\ Len(in) - Len(c) < Len(all)
  /\ \A i \in 1..Len(in) : Long(in[i]) => Long(all[i])
  /\ Solid(all) => Solid(in)

\* What is left of a text.
LEMMA CutAtType ==
  ASSUME NEW all \in Text, NEW in, NEW c, CutAt(in, all, c)
  PROVE  CutLines(in, all, c)
<1>1. PICK m \in 0..(Len(all) - 1) : c \in CutLine(all[m + 1]) /\ in = SubSeq(all, 1, m) \o c
  BY DEF CutAt
<1>2. Len(all) \in Nat /\ m \in Nat /\ m + 1 \in 1..Len(all) /\ m \in 0..Len(all) /\ all \in Seq(Line)
  BY LenProperties DEF Text
<1>3. all[m + 1] \in Line
  BY <1>2, ElementOfSeq
<1> DEFINE s == SubSeq(all, 1, m)
           l == all[m + 1]
<1>4. s \in Seq(Line) /\ Len(s) = m /\ \A i \in 1..m : s[i] = all[i]
  BY <1>2, PrefixIs
<1>5. in = s \o c
  BY <1>1
<1> HIDE DEF s
<1>6. /\ c \in Seq(Line) /\ Len(c) \in 0..1 /\ (c = <<>> <=> Len(c) = 0)
      /\ Len(c) = 1 => c[1] # <<>> /\ (Long(c[1]) => Long(l))
  <2>1. l \in Line /\ c \in CutLine(l)
    BY <1>1, <1>3
  <2> HIDE DEF l
  <2> QED BY <2>1, CutLineType
<1>7. /\ in \in Seq(Line) /\ Len(in) = m + Len(c)
      /\ \A i \in 1..(m + Len(c)) : in[i] = IF i <= m THEN s[i] ELSE c[i - m]
  <2>1. s \in Seq(Line) /\ c \in Seq(Line)
    BY <1>4, <1>6
  <2>2. /\ s \o c \in Seq(Line) /\ Len(s \o c) = Len(s) + Len(c)
        /\ \A i \in 1..(Len(s) + Len(c)) :
             (s \o c)[i] = IF i <= Len(s) THEN s[i] ELSE c[i - Len(s)]
    BY ONLY <2>1, ConcatProperties
  <2>3. Len(s) = m
    BY <1>4
  <2> QED BY ONLY <1>5, <2>2, <2>3
<1>8. Len(in) \in Nat /\ Len(in) >= Len(c) /\ Len(in) - Len(c) < Len(all)
  BY <1>2, <1>6, <1>7
<1>9. ASSUME NEW i \in 1..Len(in)
      PROVE  (i <= m /\ in[i] = all[i]) \/ (i = m + 1 /\ Len(c) = 1 /\ in[i] = c[1])
  <2>1. i \in 1..(m + Len(c))
    BY <1>7
  <2>2. CASE i <= m
    <3>1. i \in 1..m
      BY <1>2, <2>1, <2>2
    <3> QED BY <1>4, <1>7, <2>1, <2>2, <3>1
  <2>3. CASE ~(i <= m)
    <3> DEFINE e == Len(c)
    <3>1. e \in 0..1 /\ i \in 1..(m + e)
      BY <1>6, <2>1
    <3> HIDE DEF e
    <3>3. i = m + 1 /\ e = 1 /\ i - m = 1
      BY ONLY <1>2, <2>3, <3>1
    <3>2. in[i] = c[i - m]
      BY <1>7, <2>1, <2>3
    <3> QED BY <3>2, <3>3 DEF e
  <2> QED BY <2>2, <2>3
<1>10. \A i \in 1..Len(in) : Long(in[i]) => Long(all[i])
  <2> SUFFICES ASSUME NEW i \in 1..Len(in) PROVE Long(in[i]) => Long(all[i])
    OBVIOUS
  <2> QED BY <1>6, <1>9
<1>11. ASSUME Solid(all), in # <<>> PROVE Head(in) # <<>>
  <2>1. 1 \in 1..Len(in) /\ Head(in) = in[1]
    BY <1>7, <1>8, <1>11, EmptySeq
  <2>2. CASE in[1] = all[1]
    <3>1. all # <<>> /\ Head(all) = all[1]
      <4>1. Len(all) # 0
        BY <1>2
      <4> QED BY <1>2, <4>1
    <3> QED BY <1>11, <2>1, <2>2, <3>1 DEF Solid
  <2>3. CASE Len(c) = 1 /\ in[1] = c[1]
    BY <1>6, <2>1, <2>3
  <2> QED BY <1>9, <2>1, <2>2, <2>3
<1>12. in \in Text
  BY <1>7 DEF Text
<1>13. Solid(all) => Solid(in)
  BY <1>11 DEF Solid
<1> QED BY <1>6, <1>8, <1>10, <1>12, <1>13 DEF CutLines

\* The same of a stream that may be at its end.
LEMMA CutType ==
  ASSUME NEW all \in Text, NEW in, Cut(in, all)
  PROVE  /\ in \in Text /\ Len(in) \in Nat /\ Len(in) <= Len(all)
         /\ \A i \in 1..Len(in) : Long(in[i]) => Long(all[i])
         /\ Solid(all) => Solid(in)
<1>1. Len(all) \in Nat
  BY LenProperties DEF Text
<1>2. CASE in = <<>>
  BY <1>1, <1>2, EmptySeq DEF Solid, Text
<1>3. ASSUME NEW c, CutAt(in, all, c)
      PROVE  /\ in \in Text /\ Len(in) \in Nat /\ Len(in) <= Len(all)
             /\ \A i \in 1..Len(in) : Long(in[i]) => Long(all[i])
             /\ Solid(all) => Solid(in)
  <2>1. CutLines(in, all, c)
    BY <1>3, CutAtType
  <2>2. /\ in \in Text /\ Len(in) \in Nat /\ Len(in) - Len(c) < Len(all) /\ Len(c) \in 0..1
        /\ \A i \in 1..Len(in) : Long(in[i]) => Long(all[i])
        /\ Solid(all) => Solid(in)
    BY <2>1 DEF CutLines
  <2>3. Len(in) <= Len(all)
    <3> DEFINE i == Len(in)
               k == Len(c)
               n == Len(all)
    <3>1. i \in Nat /\ n \in Nat /\ i - k < n /\ k \in 0..1
      BY <1>1, <2>2
    <3> HIDE DEF i, k, n
    <3>2. i <= n
      BY ONLY <3>1
    <3> QED BY <3>2 DEF i, n
  <2> QED BY <2>2, <2>3
<1> QED BY <1>2, <1>3 DEF Cut

\* A stream of one line.
LEMMA AloneIs ==
  ASSUME NEW l
  PROVE  <<l>> \o <<>> = <<l>>
OBVIOUS

\* %d reads what a crash left of an integer.
LEMMA ScanDCut ==
  ASSUME NEW n \in Int, NEW b \in Text, Solid(b), NEW in, Cut(in, << <<IntWord(n)>> >> \o b)
  PROVE  /\ Cut(ScanD(in, 0).in, b)
         /\ ScanD(in, 0).in # <<>> => ScanD(in, 0).v = n
         /\ n = 0 => ScanD(in, 0).v = 0
<1> DEFINE l == <<IntWord(n)>>
<1>1. l \in Line /\ Head(l) = IntWord(n)
  BY atoiIs
<1>2. \/ in = <<>>
      \/ \E w \in BeginningOf(IntWord(n)) : in = << <<w>> >>
      \/ \E rest : in = <<l>> \o rest /\ Cut(rest, b)
  <2> HIDE DEF l
  <2>1. Cut(in, <<l>> \o b)
    BY DEF l
  <2>2. \/ in = <<>>
        \/ l # <<>> /\ \E w \in BeginningOf(Head(l)) : in = << <<w>> >>
        \/ \E rest : in = <<l>> \o rest /\ Cut(rest, b)
    BY <1>1, <2>1, CutFirst
  <2> QED BY <1>1, <2>2
<1>3. CASE in = <<>>
  <2>1. ScanD(in, 0) = [v |-> 0, in |-> <<>>]
    BY <1>3, ScanEnd
  <2> QED BY <2>1 DEF Cut
<1>4. ASSUME NEW w \in BeginningOf(IntWord(n)), in = << <<w>> >>
      PROVE  /\ Cut(ScanD(in, 0).in, b)
             /\ ScanD(in, 0).in # <<>> => ScanD(in, 0).v = n
             /\ n = 0 => ScanD(in, 0).v = 0
  <2>1. PICK k \in Int : w = IntWord(k) /\ (n = 0 => k = 0)
    BY BeginningOfInt
  <2>2. <<>> \in Text /\ Solid(<<>>)
    BY EmptySeq DEF Text, Solid
  <2>3. in = << <<IntWord(k)>> >> \o <<>>
    BY <1>4, <2>1, AloneIs
  <2>4. ScanD(in, 0) = [v |-> k, in |-> <<>>]
    BY <2>2, <2>3, ScanDIs
  <2> QED BY <2>1, <2>4 DEF Cut
<1>5. ASSUME NEW rest, in = <<l>> \o rest, Cut(rest, b)
      PROVE  /\ Cut(ScanD(in, 0).in, b)
             /\ ScanD(in, 0).in # <<>> => ScanD(in, 0).v = n
             /\ n = 0 => ScanD(in, 0).v = 0
  <2>1. rest \in Text /\ Solid(rest)
    BY <1>5, CutType
  <2>2. ScanD(in, 0) = [v |-> n, in |-> rest]
    BY <1>5, <2>1, ScanDIs
  <2> QED BY <1>5, <2>2
<1> QED BY <1>2, <1>3, <1>4, <1>5

\* %s reads what a crash left of a word.
LEMMA ScanSCut ==
  ASSUME NEW w \in Words, NEW b \in Text, Solid(b), NEW in, Cut(in, << <<w>> >> \o b)
  PROVE  /\ Cut(ScanS(in).in, b)
         /\ ScanS(in).in # <<>> => ScanS(in).word = w
         /\ ScanS(in).eof => in = <<>>
<1> DEFINE l == <<w>>
<1>1. l \in Line /\ Head(l) = w
  BY OneWord
<1>2. \/ in = <<>>
      \/ \E c \in BeginningOf(w) : in = << <<c>> >>
      \/ \E rest : in = <<l>> \o rest /\ Cut(rest, b)
  <2> HIDE DEF l
  <2>1. Cut(in, <<l>> \o b)
    BY DEF l
  <2>2. \/ in = <<>>
        \/ l # <<>> /\ \E c \in BeginningOf(Head(l)) : in = << <<c>> >>
        \/ \E rest : in = <<l>> \o rest /\ Cut(rest, b)
    BY <1>1, <2>1, CutFirst
  <2> QED BY <1>1, <2>2
<1>3. CASE in = <<>>
  <2>1. ScanS(in).in = <<>>
    BY <1>3, ScanEnd
  <2> QED BY <1>3, <2>1 DEF Cut
<1>4. ASSUME NEW c \in BeginningOf(w), in = << <<c>> >>
      PROVE  /\ Cut(ScanS(in).in, b)
             /\ ScanS(in).in # <<>> => ScanS(in).word = w
             /\ ScanS(in).eof => in = <<>>
  <2>1. c \in Words
    BY BeginningType
  <2>2. <<>> \in Text /\ Solid(<<>>)
    BY EmptySeq DEF Text, Solid
  <2>3. in = << <<c>> >> \o <<>>
    BY <1>4, <2>1, AloneIs
  <2>4. ScanS(in) = [eof |-> FALSE, word |-> c, in |-> <<>>]
    BY <2>1, <2>2, <2>3, ScanSIs
  <2> QED BY <2>4 DEF Cut
<1>5. ASSUME NEW rest, in = <<l>> \o rest, Cut(rest, b)
      PROVE  /\ Cut(ScanS(in).in, b)
             /\ ScanS(in).in # <<>> => ScanS(in).word = w
             /\ ScanS(in).eof => in = <<>>
  <2>1. rest \in Text /\ Solid(rest)
    BY <1>5, CutType
  <2>2. ScanS(in) = [eof |-> FALSE, word |-> w, in |-> rest]
    BY <1>5, <2>1, ScanSIs
  <2> QED BY <1>5, <2>2
<1> QED BY <1>2, <1>3, <1>4, <1>5

\* Nothing is left of nothing.
LEMMA CutNothing ==
  ASSUME NEW in, Cut(in, <<>>)
  PROVE  in = <<>>
<1>1. Len(<<>>) = 0 /\ 0..(0 - 1) = {}
  BY EmptySeq
<1>2. \A c : ~CutAt(in, <<>>, c)
  BY <1>1 DEF CutAt
<1> QED BY <1>2 DEF Cut

\* The items of a task that was cut off take what is left of the file.
LEMMA CutBody ==
  ASSUME NEW t, Health(t), Plain(t), left \in Line, NEW z \in Text, Cut(z, From7(t, <<>>))
  PROVE  LoadExamTask(z).in = <<>>
<1> DEFINE items == t.items
           n == Len(items)
           S == Body(t)
           y == ScanD(z, 0).in
           a == Start0(z)
           k == 8 * Number(z)
<1>1. t \in Task /\ Readable(t) /\ Fits(t) /\ items \in Seq(CheckItem) /\ n \in Nat
  BY TaskFields, LenProperties DEF Health, Plain
<1>2. <<>> \in Text /\ Solid(<<>>)
  BY EmptySeq DEF Text, Solid
<1>3. S \in Text /\ Solid(S) /\ S \o <<>> = S
  <2>1. S \in Text
    BY <1>1, <1>2, HeaderType
  <2>2. S \o <<>> = S
    BY <2>1 DEF Text
  <2>3. Solid(S \o <<>>)
    BY <1>1, <1>2, BodySolid
  <2> QED BY <2>1, <2>2, <2>3
<1>4. Cut(y, S) /\ (y # <<>> => ScanD(z, 0).v = n)
  <2>1. Cut(z, << <<IntWord(n)>> >> \o S)
    BY <1>3 DEF From7
  <2> QED BY <1>1, <1>3, <2>1, ScanDCut
<1>5. Len(S) = 8 * n /\ \A j \in 1..(8 * n) : ~Long(S[j])
  <2>1. \A i \in 1..n : FitsItem(items[i])
    BY <1>1, FitsEach
  <2> HIDE DEF items
  <2>2. Len(FlattenSeq(ItemLines(items))) = 8 * Len(items)
    BY <1>1, ItemLinesAt
  <2>3. \A j \in 1..(8 * Len(items)) : ~Long(FlattenSeq(ItemLines(items))[j])
    BY <1>1, <2>1, LinesNotLong
  <2> QED BY <2>2, <2>3 DEF Body, items
<1>6. PICK read : Reading(read, a, k) /\ LoadExamTask(z).in = read[k].in
  BY LoadExamTaskReads
<1>7. Number(z) \in Nat /\ k \in Nat
  <2>1. Number(z) \in Nat
    BY LoadExamTaskReads
  <2> QED BY <2>1
<1>8. a.in = y /\ Len(a.got) = 1
  BY DEF Start0
<1> HIDE DEF S, a, n
<1>9. y \in Text /\ Len(y) \in Nat /\ Len(y) <= Len(S) /\ \A i \in 1..Len(y) : Long(y[i]) => Long(S[i])
  BY <1>3, <1>4, CutType
<1>10. Len(y) <= k
  <2>1. CASE y = <<>>
    BY <1>7, <2>1, EmptySeq
  <2>2. CASE y # <<>>
    <3>1. Number(z) = n
      <4>1. ScanD(z, 0).v = n
        BY <1>4, <2>2
      <4>2. Max({0, n}) = n
        BY <1>1, AtLeastZero
      <4> QED BY <4>1, <4>2 DEF Number
    <3> QED BY <1>5, <1>9, <3>1
  <2> QED BY <2>1, <2>2
<1> HIDE DEF y, k
<1>11. \A j \in 1..Len(y) : j <= k => ~Long(y[j])
  <2> SUFFICES ASSUME NEW j \in 1..Len(y) PROVE ~Long(y[j])
    OBVIOUS
  <2>1. j \in 1..(8 * n)
    BY <1>1, <1>5, <1>9
  <2> QED BY <1>5, <1>9, <2>1
<1>12. /\ k <= Len(y) => read[k].in = Behind(y, k)
       /\ k > Len(y) => read[k].in = <<>>
  <2>1. k \in 0..k
    BY <1>7
  <2> QED BY <1>6, <1>7, <1>8, <1>9, <1>11, <2>1, LinesRead
<1>13. CASE k > Len(y)
  BY <1>6, <1>12, <1>13
<1>14. CASE ~(k > Len(y))
  <2>1. k = Len(y) /\ k <= Len(y) /\ k \in 0..Len(y)
    BY <1>7, <1>9, <1>10, <1>14
  <2>2. y \in Seq(Line)
    BY <1>9 DEF Text
  <2>3. Behind(y, k) = <<>>
    BY ONLY <2>1, <2>2, BehindIs
  <2> QED BY <1>6, <1>12, <2>1, <2>3
<1> QED BY <1>13, <1>14

\* LoadTask reads what a crash left of a task and leaves nothing behind.
LEMMA LoadTaskCut ==
  ASSUME NEW t, Health(t), Plain(t), left \in Line, NEW in, Cut(in, SaveExamTask(t))
  PROVE  /\ LoadTask(in).err < 0 => in = <<>>
         /\ ~(LoadTask(in).err < 0) => LoadTask(in).in = <<>>
<1> DEFINE e == <<>>
<1>1. t \in Task /\ t.type = 0 /\ ~Stamped(t)
  BY DEF Health, Plain, TYPE_EXAM_HEALTH
<1>2. e \in Text
  BY EmptySeq DEF Text
<1>3. in \in Text
  BY <1>1, SaveIs, CutType
<1>4. Cut(in, << <<t.tid>> >> \o From2(t, e))
  BY <1>1, SaveIs DEF From1
<1> HIDE DEF e
<1>5. /\ Cut(TidOf(in).in, From2(t, e))
      /\ TidOf(in).in # <<>> => TidOf(in).word = t.tid
      /\ TidOf(in).eof => in = <<>>
  BY <1>1, <1>2, <1>4, HeaderType, TaskFields, ScanSCut DEF TidOf
<1>6. Cut(CycleOf(in).in, From3(t, e))
  <2>1. Cut(TidOf(in).in, << <<IntWord(t.cycle)>> >> \o From3(t, e))
    BY <1>5 DEF From2
  <2> QED BY <1>1, <1>2, <2>1, HeaderType, TaskFields, ScanDCut DEF CycleOf
<1>7. Cut(TypeOf(in).in, From4(t, e)) /\ TypeOf(in).v = 0
  <2>1. Cut(CycleOf(in).in, << <<IntWord(t.type)>> >> \o From4(t, e))
    BY <1>6 DEF From3
  <2> QED BY <1>1, <1>2, <2>1, HeaderType, TaskFields, ScanDCut DEF TypeOf
<1>8. Cut(TimeOf(in).in, From5(t, e))
  <2>1. PICK w \in Words : t.lasttime = <<w>>
    BY <1>1, TimeWord
  <2>2. Cut(TypeOf(in).in, << <<w>> >> \o From5(t, e))
    BY <1>7, <2>1 DEF From4
  <2> QED BY <1>1, <1>2, <2>2, HeaderType, ScanSCut DEF TimeOf
<1>9. Cut(InvalidOf(in).in, From6(t, e))
  <2>1. Cut(TimeOf(in).in, << <<IntWord(t.invalid)>> >> \o From6(t, e))
    BY <1>8 DEF From5
  <2> QED BY <1>1, <1>2, <2>1, HeaderType, TaskFields, ScanDCut DEF InvalidOf
<1>10. Cut(FtimeOf(in).in, From7(t, e))
  <2>1. Cut(InvalidOf(in).in, << <<IntWord(t.ftime)>> >> \o From7(t, e))
    BY <1>9 DEF From6
  <2> QED BY <1>1, <1>2, <2>1, HeaderType, TaskFields, ScanDCut DEF FtimeOf
<1>11. BodyOf(in).in = <<>>
  <2>1. BodyOf(in) = LoadExamTask(FtimeOf(in).in)
    BY <1>7 DEF BodyOf, TYPE_EXAM_HEALTH
  <2>2. FtimeOf(in).in \in Text
    BY <1>3, StagesType
  <2>3. Cut(FtimeOf(in).in, From7(t, <<>>))
    BY <1>10 DEF e
  <2> QED BY <2>1, <2>2, <2>3, CutBody
<1>12. LoadTask(in) =
         IF TidOf(in).eof THEN [err |-> -1, task |-> TaskOf(in), in |-> TidOf(in).in]
         ELSE IF ~checkTid(TidOf(in).word) THEN [err |-> 1, task |-> TaskOf(in), in |-> TidOf(in).in]
         ELSE [err |-> 0, task |-> TaskOf(in), in |-> BodyOf(in).in]
  BY LoadTaskIs
<1>13. CASE TidOf(in).eof
  <2>1. LoadTask(in).err = -1
    BY <1>12, <1>13
  <2> QED BY <1>5, <1>13, <2>1
<1>14. CASE ~TidOf(in).eof /\ ~checkTid(TidOf(in).word)
  <2>1. LoadTask(in).err = 1 /\ LoadTask(in).in = TidOf(in).in
    BY <1>12, <1>14
  <2>2. TidOf(in).in = <<>>
    BY <1>1, <1>5, <1>14, TaskFields
  <2> QED BY <2>1, <2>2
<1>15. CASE ~TidOf(in).eof /\ checkTid(TidOf(in).word)
  <2>1. LoadTask(in).err = 0 /\ LoadTask(in).in = BodyOf(in).in
    BY <1>12, <1>15
  <2> QED BY <1>11, <2>1
<1> QED BY <1>13, <1>14, <1>15

\* So many lines hold the first w tasks, and no more.
Written(w, lines, K) ==
  /\ w = 0 \/ Len(Image(SubSeq(K, 1, w))) <= lines
  /\ w = Len(K) \/ lines < Len(Image(SubSeq(K, 1, w + 1)))

\* The first w tasks, or those without one that has the tid of the damaged one, and it.
AsWritten(list, w, K) ==
  LET whole == SubSeq(K, 1, w) IN
  \/ list = whole
  \/ /\ list # <<>>
     /\ \/ Front(list) = whole
        \/ \E k \in 1..w : /\ K[k].tid = Last(list).tid
                           /\ Front(list) = RemoveAt(whole, k)

OneDamaged(list, lines, K) == \E w \in 0..Len(K) : Written(w, lines, K) /\ AsWritten(list, w, K)

\* The lines of a task and those behind it.
LEMMA TaskLen ==
  ASSUME NEW t \in Task, NEW x \in Text
  PROVE  /\ Len(SaveExamTask(t)) \in Nat /\ Len(x) \in Nat
         /\ Len(SaveExamTask(t) \o x) = Len(SaveExamTask(t)) + Len(x)
<1> DEFINE a == SaveExamTask(t)
<1>1. a \in Seq(Line) /\ x \in Seq(Line)
  BY SaveIs DEF Text
<1> HIDE DEF a
<1>2. Len(a \o x) = Len(a) + Len(x)
  BY ONLY <1>1, ConcatProperties
<1>3. Len(a) \in Nat /\ Len(x) \in Nat
  BY ONLY <1>1, LenProperties
<1> QED BY <1>2, <1>3 DEF a

\* The lines of the number and the first k tasks are those the rest leaves.
LEMMA PrefixLines ==
  ASSUME NEW K \in Seq(Saveable), NEW R, ImageOf(R, K), NEW k \in 0..Len(K)
  PROVE  Len(R[0]) \in Nat /\ Len(R[k]) \in Nat
         /\ Len(Image(SubSeq(K, 1, k))) = 1 + Len(R[0]) - Len(R[k])
<1> DEFINE n == Len(K)
           p == SubSeq(K, 1, k)
<1>1. n \in Nat /\ k \in Nat /\ \A i \in 1..n : K[i] \in Task
  <2>1. \A i \in 1..n : K[i] \in Saveable
    BY ElementOfSeq
  <2> QED BY <2>1, LenProperties DEF Saveable
<1>2. p \in Seq(Saveable) /\ Len(p) = k /\ \A i \in 1..k : p[i] = K[i]
  BY PrefixIs
<1>3. /\ R \in [0..n -> Text]
      /\ \A i \in 1..n : R[i - 1] = SaveExamTask(K[i]) \o R[i]
  BY DEF ImageOf
<1> HIDE DEF p
<1>4. PICK Q : ImageOf(Q, p)
  BY <1>2, ImageRests
<1>5. /\ Q \in [0..k -> Text] /\ Q[k] = <<>>
      /\ \A i \in 1..k : Q[i - 1] = SaveExamTask(p[i]) \o Q[i]
      /\ Image(p) = << <<IntWord(k)>> >> \o Q[0]
  BY <1>2, <1>4 DEF ImageOf
<1>6. k \in 0..n
  OBVIOUS
<1> HIDE DEF n
<1>7. \A i \in 0..k : i \in 0..n /\ Len(R[i]) \in Nat /\ Len(Q[i]) \in Nat
  <2>1. \A i \in 0..k : i \in 0..n
    BY <1>1, <1>6
  <2>2. \A i \in 0..k : R[i] \in Seq(Line) /\ Q[i] \in Seq(Line)
    BY <1>3, <1>5, <2>1 DEF Text
  <2> QED BY <2>1, <2>2, LenProperties
<1> DEFINE G == {j \in 0..k : Len(R[k - j]) = Len(Q[k - j]) + Len(R[k])}
<1>8. 0 \in G
  <2>1. k - 0 = k /\ 0 \in 0..k /\ k \in 0..k
    BY <1>1
  <2>2. Len(Q[k]) = 0 /\ Len(R[k]) \in Nat
    BY <1>5, <1>7, <2>1, EmptySeq
  <2>3. Len(R[k]) = Len(Q[k]) + Len(R[k])
    BY <2>2
  <2>4. Len(R[k - 0]) = Len(Q[k - 0]) + Len(R[k])
    BY <2>1, <2>3
  <2> QED BY <2>1, <2>4
<1>9. ASSUME NEW j \in 1..k, j - 1 \in G PROVE j \in G
  <2> DEFINE i == k - (j - 1)
             t == K[i]
             x == R[i]
             y == Q[i]
  <2>1. i \in 1..k /\ i \in 0..k /\ i \in 1..n /\ i - 1 = k - j /\ j \in 0..k /\ i \in 0..n
    BY <1>1, <1>6
  <2>2. Len(x) = Len(y) + Len(R[k])
    BY <1>9
  <2> HIDE DEF i
  <2>3. t \in Task /\ x \in Text /\ y \in Text
    BY <1>1, <1>3, <1>5, <2>1
  <2>4. R[k - j] = SaveExamTask(t) \o x /\ Q[k - j] = SaveExamTask(t) \o y
    BY <1>2, <1>3, <1>5, <2>1
  <2> HIDE DEF t, x, y
  <2>5. /\ Len(SaveExamTask(t)) \in Nat /\ Len(x) \in Nat
        /\ Len(SaveExamTask(t) \o x) = Len(SaveExamTask(t)) + Len(x)
    BY <2>3, TaskLen
  <2>6. Len(y) \in Nat /\ Len(SaveExamTask(t) \o y) = Len(SaveExamTask(t)) + Len(y)
    BY <2>3, TaskLen
  <2>7. k \in 0..k /\ Len(R[k]) \in Nat
    BY <1>1, <1>7
  <2>8. Len(R[k - j]) = Len(Q[k - j]) + Len(R[k])
    <3> DEFINE a == Len(SaveExamTask(t))
               b == Len(x)
               c == Len(y)
               d == Len(R[k])
    <3>1. a \in Nat /\ b \in Nat /\ c \in Nat /\ d \in Nat /\ b = c + d
      BY <2>2, <2>5, <2>6, <2>7
    <3>2. Len(R[k - j]) = a + b /\ Len(Q[k - j]) = a + c
      BY <2>4, <2>5, <2>6
    <3> HIDE DEF a, b, c, d
    <3>3. a + b = (a + c) + d
      BY ONLY <3>1
    <3> QED BY <3>2, <3>3 DEF d
  <2> QED BY <2>1, <2>8
<1> HIDE DEF G
<1>10. \A j \in 0..k : j \in G
  BY <1>1, <1>8, <1>9, Reaches
<1>11. Len(R[0]) = Len(Q[0]) + Len(R[k])
  <2>1. k \in 0..k /\ k - k = 0
    BY <1>1
  <2> QED BY <1>10, <2>1 DEF G
<1>12. 0 \in 0..k /\ k \in 0..k
  BY <1>1
<1>13. Len(Image(p)) = Len(Q[0]) + 1
  <2>1. <<IntWord(k)>> \in Line
    BY <1>1, atoiIs
  <2>2. Q[0] \in Seq(Line)
    BY <1>5, <1>12 DEF Text
  <2> QED BY <1>5, <2>1, <2>2, InFront
<1>14. Len(R[0]) \in Nat /\ Len(R[k]) \in Nat /\ Len(Q[0]) \in Nat
  BY <1>7, <1>12
<1> DEFINE a == Len(R[0])
           b == Len(Q[0])
           c == Len(R[k])
           d == Len(Image(p))
<1>15. a \in Nat /\ b \in Nat /\ c \in Nat /\ a = b + c /\ d = b + 1
  BY <1>11, <1>13, <1>14
<1> HIDE DEF a, b, c, d
<1>16. d = 1 + a - c
  BY ONLY <1>15
<1> QED BY <1>15, <1>16 DEF a, c, d, p

\* A file that was cut behind k tasks, before the end of the next.
LEMMA WrittenIs ==
  ASSUME NEW K \in Seq(Saveable), NEW R, ImageOf(R, K), NEW k \in 0..(Len(K) - 1),
         NEW lines \in Nat, NEW l \in Nat,
         1 + Len(R[0]) + l = lines + Len(R[k]),
         l < Len(SaveExamTask(K[k + 1]))
  PROVE  Written(k, lines, K)
<1> DEFINE n == Len(K)
           j == k + 1
           t == K[j]
           x == R[j]
<1>1. n \in Nat /\ k \in 0..n /\ j \in 0..n /\ j \in 1..n /\ j - 1 = k
  BY LenProperties
<1>2. t \in Task /\ x \in Text /\ R[k] = SaveExamTask(t) \o x
  <2>1. t \in Saveable
    BY <1>1, ElementOfSeq
  <2>2. R \in [0..n -> Text] /\ R[j - 1] = SaveExamTask(K[j]) \o R[j]
    <3> HIDE DEF j
    <3> QED BY <1>1 DEF ImageOf
  <2> QED BY <1>1, <2>1, <2>2 DEF Saveable
<1>3. Len(R[0]) \in Nat /\ Len(R[k]) \in Nat /\ Len(Image(SubSeq(K, 1, k))) = 1 + Len(R[0]) - Len(R[k])
  BY <1>1, PrefixLines
<1>4. Len(x) \in Nat /\ Len(Image(SubSeq(K, 1, j))) = 1 + Len(R[0]) - Len(x)
  <2> HIDE DEF j
  <2> QED BY <1>1, PrefixLines
<1> HIDE DEF t, x
<1>5. Len(SaveExamTask(t)) \in Nat /\ Len(R[k]) = Len(SaveExamTask(t)) + Len(x)
  BY <1>2, TaskLen
<1>6. l < Len(SaveExamTask(t))
  BY DEF t
<1> DEFINE a == Len(R[0])
           b == Len(R[k])
           c == Len(x)
           d == Len(SaveExamTask(t))
           f == Len(Image(SubSeq(K, 1, k)))
           g == Len(Image(SubSeq(K, 1, j)))
<1>7. /\ a \in Nat /\ b \in Nat /\ c \in Nat /\ d \in Nat /\ l \in Nat /\ lines \in Nat
      /\ 1 + a + l = lines + b /\ l < d /\ b = d + c
      /\ f = 1 + a - b /\ g = 1 + a - c
  BY <1>3, <1>4, <1>5, <1>6
<1> HIDE DEF a, b, c, d, f, g
<1>8. f <= lines /\ lines < g
  BY ONLY <1>7
<1>9. Len(Image(SubSeq(K, 1, k))) <= lines /\ lines < Len(Image(SubSeq(K, 1, j)))
  BY <1>8 DEF f, g
<1> QED BY <1>9 DEF Written

\* A list and one more element.
LEMMA FrontIs ==
  ASSUME NEW T, NEW s \in Seq(T), NEW e \in T
  PROVE  /\ Append(s, e) # <<>>
         /\ Front(Append(s, e)) = s
         /\ Last(Append(s, e)) = e
<1> DEFINE a == Append(s, e)
           n == Len(s)
<1>1. n \in Nat
  BY LenProperties
<1>2. /\ a \in Seq(T) /\ a # <<>> /\ Len(a) = n + 1
      /\ (\A i \in 1..n : a[i] = s[i]) /\ a[n + 1] = e
  BY AppendProperties
<1> HIDE DEF a, n
<1>3. Last(a) = e
  BY <1>2 DEF Last
<1> DEFINE f == SubSeq(a, 1, n)
<1>4. Front(a) = f
  <2>1. Len(a) - 1 = n
    BY <1>1, <1>2
  <2> QED BY <2>1 DEF Front
<1>5. f \in Seq(T) /\ Len(f) = n /\ \A i \in 1..n : f[i] = a[i]
  <2>1. n \in 0..Len(a)
    BY <1>1, <1>2
  <2> QED BY <1>2, <2>1, PrefixIs
<1> HIDE DEF f
<1>6. Len(s) = n /\ \A i \in 1..n : f[i] = s[i]
  BY <1>2, <1>5 DEF n
<1>7. f = s
  BY <1>5, <1>6, SeqEqual
<1> QED BY <1>2, <1>3, <1>4, <1>7 DEF a

\* The first tasks of a save are tasks as Load gives them.
LEMMA PrefixEnabled ==
  ASSUME NEW K \in Seq(Saveable), NEW k \in 0..Len(K)
  PROVE  /\ SubSeq(K, 1, k) \in Seq(Loaded) /\ Len(SubSeq(K, 1, k)) = k
         /\ \A i \in 1..k : /\ SubSeq(K, 1, k)[i] = K[i]
                            /\ K[i].invalid = Enabled
<1> DEFINE p == SubSeq(K, 1, k)
<1>1. p \in Seq(Saveable) /\ Len(p) = k /\ \A i \in 1..k : p[i] = K[i]
  BY PrefixIs
<1>2. \A i \in 1..k : K[i] \in Saveable
  <2>1. \A i \in 1..k : i \in 1..Len(K)
    BY LenProperties
  <2> QED BY <2>1, ElementOfSeq
<1>3. \A t \in Saveable : t \in Loaded /\ t.invalid = Enabled
  BY DEF Saveable, Health, Loaded, Enabled, Running
<1> HIDE DEF p
<1>4. p \in Seq(Loaded)
  <2>1. p \in [1..k -> Saveable] /\ k \in Nat
    BY <1>1, LenProperties
  <2>2. p \in [1..k -> Loaded]
    BY <1>3, <2>1
  <2> QED BY <2>1, <2>2, SeqIs
<1> QED BY <1>1, <1>2, <1>3, <1>4 DEF p

\* The damaged task goes behind the whole ones, and takes at most one away.
LEMMA AddDamaged ==
  ASSUME NEW K \in Seq(Saveable), NEW k \in 0..(Len(K) - 1), NEW task \in Loaded
  PROVE  AsWritten(_AddTask(SubSeq(K, 1, k), task), k, K)
<1> DEFINE p == SubSeq(K, 1, k)
           add == _AddTask(p, task)
<1>0. Len(K) \in Nat /\ k \in 0..Len(K)
  BY LenProperties
<1>1. p \in Seq(Loaded) /\ Len(p) = k /\ \A i \in 1..k : p[i] = K[i] /\ K[i].invalid = Enabled
  BY <1>0, PrefixEnabled
<1>2. p = SubSeq(K, 1, k)
  OBVIOUS
<1> HIDE DEF p
<1>3. \/ add = Append(p, task)
      \/ \E i \in 1..k : Clashes(p[i], task) /\ add = Append(RemoveAt(p, i), task)
  BY <1>1, AddErases
<1> HIDE DEF add
<1>4. CASE add = Append(p, task)
  <2>1. add # <<>> /\ Front(add) = SubSeq(K, 1, k)
    BY <1>1, <1>2, <1>4, FrontIs
  <2> QED BY <2>1 DEF AsWritten, add, p
<1>5. ASSUME NEW i \in 1..k, Clashes(p[i], task), add = Append(RemoveAt(p, i), task)
      PROVE  AsWritten(add, k, K)
  <2>1. RemoveAt(p, i) \in Seq(Loaded)
    BY <1>1, RemoveAtShifts
  <2>2. add # <<>> /\ Front(add) = RemoveAt(SubSeq(K, 1, k), i) /\ Last(add) = task
    BY <1>2, <1>5, <2>1, FrontIs
  <2>3. K[i].tid = task.tid
    BY <1>1, <1>5 DEF Clashes, Enabled, Disabled
  <2> QED BY <2>2, <2>3 DEF AsWritten
<1> QED BY <1>3, <1>4, <1>5 DEF add, p

\* A whole task goes behind those before it.
LEMMA AddWhole ==
  ASSUME NEW K \in Seq(Saveable), NEW k \in 1..Len(K),
         \A i, j \in DOMAIN K : K[i].tid = K[j].tid => i = j
  PROVE  _AddTask(SubSeq(K, 1, k - 1), K[k]) = SubSeq(K, 1, k)
<1> DEFINE p == SubSeq(K, 1, k - 1)
           task == K[k]
           add == _AddTask(p, task)
           q == SubSeq(K, 1, k)
<1>1. Len(K) \in Nat /\ k - 1 \in 0..Len(K) /\ k \in 0..Len(K) /\ DOMAIN K = 1..Len(K) /\ k \in Nat
  BY LenProperties
<1>2. p \in Seq(Loaded) /\ Len(p) = k - 1 /\ \A i \in 1..(k - 1) : p[i] = K[i] /\ K[i].invalid = Enabled
  BY <1>1, PrefixEnabled
<1>3. q \in Seq(Loaded) /\ Len(q) = k /\ \A i \in 1..k : q[i] = K[i]
  BY <1>1, PrefixEnabled
<1>4. task \in Loaded
  <2>1. task \in Saveable
    BY ElementOfSeq
  <2> QED BY <2>1 DEF Saveable, Health, Loaded, Enabled, Running
<1> HIDE DEF p, q
<1>5. \A i \in 1..(k - 1) : ~Clashes(p[i], task)
  <2>1. \A i \in 1..(k - 1) : i \in DOMAIN K /\ k \in DOMAIN K /\ i # k
    BY <1>1
  <2>2. \A i \in 1..(k - 1) : K[i].tid # task.tid
    BY <2>1
  <2> QED BY <1>2, <2>2 DEF Clashes, Enabled, Disabled
<1>6. add = Append(p, task)
  BY <1>2, <1>5, AddErases
<1>7. add \in Seq(Loaded) /\ Len(add) = k /\ (\A i \in 1..(k - 1) : add[i] = K[i]) /\ add[k] = task
  <2>1. /\ add \in Seq(Loaded) /\ Len(add) = Len(p) + 1
        /\ (\A i \in 1..Len(p) : add[i] = p[i]) /\ add[Len(p) + 1] = task
    BY <1>2, <1>4, <1>6, AppendProperties
  <2>2. Len(p) + 1 = k
    BY <1>1, <1>2
  <2> HIDE DEF add
  <2> QED BY <1>2, <2>1, <2>2
<1> HIDE DEF add
<1>8. \A i \in 1..k : add[i] = q[i]
  <2>1. \A i \in 1..k : i = k \/ i \in 1..(k - 1)
    BY <1>1
  <2> QED BY <1>3, <1>7, <2>1 DEF task
<1>9. add = q
  BY <1>3, <1>7, <1>8, SeqEqual
<1> QED BY <1>9 DEF add, q, p, task

\* At the end of the file there is no task.
LEMMA LoadTaskEnd == LoadTask(<<>>).err < 0
<1>1. TidOf(<<>>).eof
  BY ScanEnd DEF TidOf
<1>2. LoadTask(<<>>) = [err |-> -1, task |-> TaskOf(<<>>), in |-> TidOf(<<>>).in]
  BY <1>1, LoadTaskIs
<1> QED BY <1>2

\* A crash in the first line leaves no task.
LEMMA NoneWritten ==
  ASSUME NEW K \in Seq(Saveable)
  PROVE  OneDamaged(<<>>, 0, K)
<1> DEFINE n == Len(K)
<1>1. n \in Nat /\ 0 \in 0..n
  BY LenProperties
<1>2. SubSeq(K, 1, 0) = <<>>
  <2>1. 0 \in Int /\ 1 \in Int /\ 0 < 1
    OBVIOUS
  <2> QED BY ONLY <2>1, SubSeqEmpty
<1>3. ASSUME n # 0 PROVE 0 < Len(Image(SubSeq(K, 1, 1)))
  <2> DEFINE p == SubSeq(K, 1, 1)
  <2>1. p \in Seq(Saveable) /\ Len(p) = 1
    <3>1. 1 \in 0..Len(K)
      BY <1>1, <1>3
    <3> QED BY <3>1, PrefixIs
  <2> HIDE DEF p
  <2>2. Len(Image(p)) \in Nat /\ Len(Image(p)) >= 1
    BY <2>1, ImageLen
  <2>3. 0 < Len(Image(p))
    BY <2>2
  <2> QED BY <2>3 DEF p
<1>4. Written(0, 0, K)
  <2>1. 0 + 1 = 1
    OBVIOUS
  <2> QED BY <1>3, <2>1 DEF Written, n
<1>5. AsWritten(<<>>, 0, K)
  BY <1>2 DEF AsWritten
<1> QED BY <1>1, <1>4, <1>5 DEF OneDamaged

\* A loop that has read k whole tasks of a file of len lines, cut at c.
Going(s, k, v, K, R, c, len) ==
  /\ v = Len(K) /\ k \in 0..Len(K)
  /\ s.i = k /\ s.list = SubSeq(K, 1, k)
  /\ CutAt(s.in, R[k], c)
  /\ len + Len(R[k]) = 1 + Len(R[0]) + Len(s.in)

\* A loop that has read the damaged task and is at the end of the file.
Done(s, K, lines) == s.in = <<>> /\ OneDamaged(s.list, lines, K)

\* A file whose tasks can be read back, cut at c.
CutFile(K, R, c, len) ==
  /\ K \in Seq(Saveable) /\ (\A k \in 1..Len(K) : Plain(K[k]))
  /\ \A i, j \in DOMAIN K : K[i].tid = K[j].tid => i = j
  /\ ImageOf(R, K)
  /\ left \in Line /\ (c = <<>> => ~open) /\ len \in Nat

\* Before the first turn.
LEMMA FirstTurn ==
  ASSUME NEW K, NEW R, NEW c, NEW text, CutAt(text, Image(K), c), CutFile(K, R, c, Len(text))
  PROVE  LET s == [list |-> <<>>, i |-> 0, in |-> ScanD(text, 0).in] IN
         \/ Going(s, 0, ScanD(text, 0).v, K, R, c, Len(text))
         \/ Done(s, K, Len(text) - Len(c))
<1> DEFINE n == Len(K)
           l == <<IntWord(n)>>
           y == ScanD(text, 0).in
           v == ScanD(text, 0).v
           s == [list |-> <<>>, i |-> 0, in |-> y]
<1>1. K \in Seq(Saveable) /\ ImageOf(R, K)
  BY DEF CutFile
<1>2. n \in Nat /\ 0 \in 0..n
  BY <1>1, LenProperties
<1>3. l \in Line /\ l # <<>> /\ <<l>> \in Text
  BY <1>2, atoiIs DEF Text
<1>4. R[0] \in Text /\ Solid(R[0]) /\ Image(K) = <<l>> \o R[0]
  BY <1>1, <1>2 DEF ImageOf
<1> HIDE DEF l, n
<1>5. CutAt(text, <<l>>, c) \/ \E rest : text = <<l>> \o rest /\ CutAt(rest, R[0], c)
  BY <1>3, <1>4, CutAtSplit
<1>6. s.list = <<>> /\ s.i = 0 /\ s.in = y
  OBVIOUS
<1> HIDE DEF s, y, v
<1>7. CASE CutAt(text, <<l>>, c)
  <2>1. CutLines(text, <<l>>, c)
    BY <1>3, <1>7, CutAtType
  <2>2. Len(text) - Len(c) = 0
    <3>1. Len(<<l>>) = 1
      OBVIOUS
    <3> DEFINE a == Len(text)
               b == Len(c)
    <3>2. a \in Nat /\ b \in 0..1 /\ a >= b /\ a - b < 1
      BY <2>1, <3>1 DEF CutLines
    <3> HIDE DEF a, b
    <3>3. a - b = 0
      BY ONLY <3>2
    <3> QED BY <3>3 DEF a, b
  <2>3. y = <<>>
    <3>1. <<>> \in Text /\ Solid(<<>>) /\ <<l>> \o <<>> = <<l>>
      BY EmptySeq, AloneIs DEF Text, Solid
    <3>2. Cut(text, <<l>> \o <<>>)
      BY <1>7, <3>1 DEF Cut
    <3>3. Cut(y, <<>>)
      <4>1. n \in Int /\ Cut(text, << <<IntWord(n)>> >> \o <<>>)
        BY <1>2, <3>2 DEF l
      <4> QED BY <3>1, <4>1, ScanDCut DEF y
    <3> QED BY <3>3, CutNothing
  <2>4. OneDamaged(<<>>, 0, K)
    BY <1>1, NoneWritten
  <2>5. Done(s, K, Len(text) - Len(c))
    BY <1>6, <2>2, <2>3, <2>4 DEF Done
  <2> QED BY <2>5 DEF s, y
<1>8. ASSUME NEW rest, text = <<l>> \o rest, CutAt(rest, R[0], c)
      PROVE  Going(s, 0, v, K, R, c, Len(text))
  <2>1. CutLines(rest, R[0], c)
    BY <1>4, <1>8, CutAtType
  <2>2. rest \in Text /\ Solid(rest) /\ Len(rest) \in Nat
    BY <1>4, <2>1 DEF CutLines
  <2>3. v = n /\ y = rest
    <3>1. n \in Int /\ text = << <<IntWord(n)>> >> \o rest
      BY <1>2, <1>8 DEF l
    <3>2. ScanD(text, 0) = [v |-> n, in |-> rest]
      BY <2>2, <3>1, ScanDIs
    <3> QED BY <3>2 DEF v, y
  <2>4. Len(text) = 1 + Len(rest)
    <3>1. rest \in Seq(Line)
      BY <2>2 DEF Text
    <3>2. Len(<<l>> \o rest) = Len(rest) + 1
      BY <1>3, <3>1, InFront
    <3> QED BY <1>8, <2>2, <3>2
  <2>5. SubSeq(K, 1, 0) = <<>>
    <3>1. 0 \in Int /\ 1 \in Int /\ 0 < 1
      OBVIOUS
    <3> QED BY ONLY <3>1, SubSeqEmpty
  <2>6. Len(text) + Len(R[0]) = 1 + Len(R[0]) + Len(rest)
    <3>1. Len(R[0]) \in Nat
      BY <1>4, LenProperties DEF Text
    <3> DEFINE a == Len(R[0])
               b == Len(rest)
    <3>2. a \in Nat /\ b \in Nat /\ Len(text) = 1 + b
      BY <2>2, <2>4, <3>1
    <3> HIDE DEF a, b
    <3>3. (1 + b) + a = 1 + a + b
      BY ONLY <3>2
    <3> QED BY <3>2, <3>3 DEF a, b
  <2> QED BY <1>2, <1>6, <1>8, <2>3, <2>5, <2>6 DEF Going, n
<1> QED BY <1>5, <1>7, <1>8 DEF s, y, v

\* The cut comes within the next task.
LEMMA DamagedTurn ==
  ASSUME NEW K, NEW R, NEW c, NEW len, CutFile(K, R, c, len), NEW s \in LoopState,
         NEW k \in 1..Len(K), Going(s, k - 1, Len(K), K, R, c, len), CutAt(s.in, SaveExamTask(K[k]), c)
  PROVE  Done(Turn(s, Len(K)), K, len - Len(c))
<1> DEFINE n == Len(K)
           j == k - 1
           t == K[k]
           r == LoadTask(s.in)
           lines == len - Len(c)
           l == Len(s.in) - Len(c)
<1>1. K \in Seq(Saveable) /\ ImageOf(R, K) /\ left \in Line /\ len \in Nat
  BY DEF CutFile
<1>2. n \in Nat /\ k \in Nat /\ j \in 0..(n - 1) /\ j \in 0..n /\ j + 1 = k /\ ~(j >= n)
  BY <1>1, LenProperties
<1>3. Health(t) /\ Plain(t) /\ t \in Task
  <2>1. t \in Saveable
    BY <1>1, ElementOfSeq
  <2> QED BY <2>1 DEF Saveable, Health, CutFile
<1>4. /\ s.i = j /\ s.list = SubSeq(K, 1, j)
      /\ len + Len(R[j]) = 1 + Len(R[0]) + Len(s.in)
  BY DEF Going
<1>5. SaveExamTask(t) \in Text /\ CutAt(s.in, SaveExamTask(t), c)
  BY <1>3, SaveIs
<1> HIDE DEF t, j
<1>6. CutLines(s.in, SaveExamTask(t), c)
  BY <1>5, CutAtType
<1>7. /\ Len(s.in) \in Nat /\ Len(c) \in 0..1 /\ Len(s.in) >= Len(c)
      /\ l < Len(SaveExamTask(t)) /\ s.in \in Text
  BY <1>6 DEF CutLines
<1>8. Written(j, lines, K)
  <2>1. Len(R[0]) \in Nat /\ Len(R[j]) \in Nat /\ Len(Image(SubSeq(K, 1, j))) = 1 + Len(R[0]) - Len(R[j])
    BY <1>1, <1>2, PrefixLines DEF n
  <2>2. Len(Image(SubSeq(K, 1, j))) \in Nat
    <3> DEFINE p == SubSeq(K, 1, j)
    <3>1. p \in Seq(Saveable)
      BY <1>1, <1>2, PrefixIs DEF n
    <3> HIDE DEF p
    <3>2. Len(Image(p)) \in Nat
      BY <3>1, ImageLen
    <3> QED BY <3>2 DEF p
  <2> DEFINE a == Len(R[0])
             b == Len(R[j])
             d == Len(s.in)
             e == Len(c)
             f == Len(Image(SubSeq(K, 1, j)))
  <2>3. /\ a \in Nat /\ b \in Nat /\ d \in Nat /\ e \in 0..1 /\ f \in Nat /\ len \in Nat
        /\ f = 1 + a - b /\ d >= e /\ len + b = 1 + a + d
    BY <1>1, <1>4, <1>7, <2>1, <2>2
  <2> HIDE DEF a, b, d, e, f
  <2>4. len - e \in Nat /\ d - e \in Nat /\ 1 + a + (d - e) = (len - e) + b
    BY ONLY <2>3
  <2>5. lines \in Nat /\ l \in Nat /\ 1 + Len(R[0]) + l = lines + Len(R[j])
    BY <2>4 DEF a, b, d, e
  <2>6. l < Len(SaveExamTask(K[j + 1]))
    BY <1>2, <1>7 DEF t
  <2> HIDE DEF l, lines
  <2> QED BY <1>1, <1>2, <2>5, <2>6, WrittenIs DEF n
<1>9. (r.err < 0 => s.in = <<>>) /\ (~(r.err < 0) => r.in = <<>>)
  BY <1>1, <1>3, <1>5, LoadTaskCut DEF Cut
<1>10. r.err \in {-1, 0, 1} /\ (r.err = 0 => r.task \in Loaded)
  BY <1>1, <1>7, LoadTaskType DEF Loaded
<1>11. Turn(s, n) = IF r.err < 0 THEN s
                    ELSE IF r.err # 0 THEN [s EXCEPT !.in = r.in]
                    ELSE [list |-> _AddTask(s.list, r.task), i |-> s.i + 1, in |-> r.in]
  <2>1. ~(s.i >= n)
    BY <1>2, <1>4
  <2> HIDE DEF n
  <2> QED BY <2>1 DEF Turn
<1>12. AsWritten(s.list, j, K)
  BY <1>4 DEF AsWritten
<1> DEFINE u == Turn(s, n)
<1> HIDE DEF r, lines, n, u
<1>13. CASE r.err = -1
  <2>1. r.err < 0
    BY <1>13
  <2>2. u = s /\ s.in = <<>>
    BY <1>9, <1>11, <2>1 DEF u
  <2> QED BY <1>2, <1>8, <1>12, <2>2 DEF Done, OneDamaged, lines, n, u
<1>14. CASE r.err = 1
  <2>1. ~(r.err < 0) /\ r.err # 0
    BY <1>14
  <2>2. u = [s EXCEPT !.in = r.in] /\ r.in = <<>>
    BY <1>9, <1>11, <2>1 DEF u
  <2>3. u.in = <<>> /\ u.list = s.list
    BY <2>2 DEF LoopState
  <2> QED BY <1>2, <1>8, <1>12, <2>3 DEF Done, OneDamaged, lines, n, u
<1>15. CASE r.err = 0
  <2>1. ~(r.err < 0) /\ ~(r.err # 0)
    BY <1>15
  <2>2. u = [list |-> _AddTask(s.list, r.task), i |-> s.i + 1, in |-> r.in] /\ r.in = <<>>
    BY <1>9, <1>11, <2>1 DEF u
  <2>3. u.in = <<>> /\ u.list = _AddTask(SubSeq(K, 1, j), r.task)
    BY <1>4, <2>2
  <2>4. AsWritten(_AddTask(SubSeq(K, 1, j), r.task), j, K)
    BY <1>1, <1>2, <1>10, <1>15, AddDamaged DEF n
  <2> QED BY <1>2, <1>8, <2>3, <2>4 DEF Done, OneDamaged, lines, n, u
<1> QED BY <1>10, <1>13, <1>14, <1>15

\* The cut comes behind the next task.
LEMMA WholeTurn ==
  ASSUME NEW K, NEW R, NEW c, NEW len, CutFile(K, R, c, len), NEW s \in LoopState,
         NEW k \in 1..Len(K), Going(s, k - 1, Len(K), K, R, c, len),
         NEW rest, s.in = SaveExamTask(K[k]) \o rest, CutAt(rest, R[k], c)
  PROVE  Going(Turn(s, Len(K)), k, Len(K), K, R, c, len)
<1> DEFINE n == Len(K)
           j == k - 1
           t == K[k]
           x == R[k]
           u == Turn(s, n)
<1>1. K \in Seq(Saveable) /\ ImageOf(R, K) /\ left \in Line /\ len \in Nat /\ (c = <<>> => ~open)
  BY DEF CutFile
<1>2. n \in Nat /\ k \in Nat /\ k \in 1..n /\ k \in 0..n /\ j \in 0..n /\ j + 1 = k /\ ~(j >= n)
  BY <1>1, LenProperties
<1>3. Health(t) /\ Plain(t) /\ t \in Task
  <2>1. t \in Saveable
    BY <1>1, ElementOfSeq
  <2> QED BY <2>1 DEF Saveable, Health, CutFile
<1>4. /\ s.i = j /\ s.list = SubSeq(K, 1, j)
      /\ len + Len(R[j]) = 1 + Len(R[0]) + Len(s.in)
  BY DEF Going
<1>5. x \in Text /\ Solid(x) /\ R[j] = SaveExamTask(t) \o x
  BY <1>1, <1>2 DEF ImageOf
<1>6. CutAt(rest, x, c) /\ s.in = SaveExamTask(t) \o rest
  OBVIOUS
<1> HIDE DEF t, j, x
<1>7. CutLines(rest, x, c)
  BY <1>5, <1>6, CutAtType
<1>8. rest \in Text /\ Solid(rest) /\ (rest = <<>> => ~open)
  <2>1. rest \in Text /\ Solid(rest) /\ Len(rest) >= Len(c) /\ Len(c) \in 0..1 /\ (c = <<>> <=> Len(c) = 0)
    BY <1>5, <1>7 DEF CutLines
  <2>2. rest = <<>> => Len(c) = 0
    <3> DEFINE e == Len(c)
    <3>1. e \in 0..1 /\ (rest = <<>> => 0 >= e)
      BY <2>1, EmptySeq
    <3> HIDE DEF e
    <3>2. rest = <<>> => e = 0
      BY ONLY <3>1
    <3> QED BY <3>2 DEF e
  <2> QED BY <1>1, <2>1, <2>2
<1>9. LoadTask(s.in) = [err |-> 0, task |-> t, in |-> rest]
  BY <1>1, <1>3, <1>6, <1>8, LoadTaskWhole
<1>10. u = [list |-> _AddTask(s.list, t), i |-> s.i + 1, in |-> rest]
  <2>1. ~(s.i >= n)
    BY <1>2, <1>4
  <2> HIDE DEF n
  <2> QED BY <1>9, <2>1 DEF Turn
<1>11. _AddTask(SubSeq(K, 1, j), t) = SubSeq(K, 1, k)
  BY <1>1, AddWhole DEF CutFile, t, j
<1> HIDE DEF u, n
<1>12. u.i = k /\ u.in = rest /\ u.list = SubSeq(K, 1, k)
  BY <1>2, <1>4, <1>10, <1>11
<1>13. len + Len(x) = 1 + Len(R[0]) + Len(rest)
  <2>1. Len(SaveExamTask(t)) \in Nat /\ Len(x) \in Nat /\ Len(R[j]) = Len(SaveExamTask(t)) + Len(x)
    BY <1>3, <1>5, TaskLen
  <2>2. Len(rest) \in Nat /\ Len(s.in) = Len(SaveExamTask(t)) + Len(rest)
    <3>1. Len(rest) \in Nat /\ Len(SaveExamTask(t) \o rest) = Len(SaveExamTask(t)) + Len(rest)
      BY ONLY <1>3, <1>8, TaskLen
    <3> QED BY <1>6, <3>1
  <2>3. Len(R[0]) \in Nat
    <3>1. 0 \in 0..n
      BY <1>2
    <3>2. R \in [0..n -> Text]
      BY <1>1 DEF ImageOf, n
    <3>3. R[0] \in Seq(Line)
      BY <3>1, <3>2 DEF Text
    <3> QED BY <3>3, LenProperties
  <2> DEFINE a == Len(R[0])
             b == Len(R[j])
             d == Len(s.in)
             e == Len(SaveExamTask(t))
             f == Len(x)
             g == Len(rest)
  <2>4. /\ a \in Nat /\ e \in Nat /\ f \in Nat /\ g \in Nat /\ len \in Nat
        /\ b = e + f /\ d = e + g /\ len + b = 1 + a + d
    BY <1>1, <1>4, <2>1, <2>2, <2>3
  <2> HIDE DEF a, b, d, e, f, g
  <2>5. len + f = 1 + a + g
    BY ONLY <2>4
  <2> QED BY <2>5 DEF a, f, g
<1>14. Going(u, k, n, K, R, c, len)
  BY <1>2, <1>6, <1>12, <1>13 DEF Going, x, n
<1> QED BY <1>14 DEF u, n

\* Load reads a file that was cut off.
LEMMA LoadCut ==
  ASSUME NEW K, NEW R, NEW c, NEW text, CutAt(text, Image(K), c), CutFile(K, R, c, Len(text))
  PROVE  OneDamaged(LoadLoop(text), Len(text) - Len(c), K)
<1> DEFINE n == Len(K)
           len == Len(text)
           m == WordsPerLine * len
           v == ScanD(text, 0).v
           y == ScanD(text, 0).in
           lines == len - Len(c)
<1>1. K \in Seq(Saveable) /\ ImageOf(R, K) /\ left \in Line
  BY DEF CutFile
<1>2. n \in Nat
  BY <1>1, LenProperties
<1>3. text \in Text /\ len \in Nat /\ m \in Nat /\ m = 2 * len
  <2>1. CutLines(text, Image(K), c)
    BY <1>1, ImageType, CutAtType
  <2>2. text \in Text /\ len \in Nat
    BY <2>1 DEF CutLines
  <2> HIDE DEF len
  <2> QED BY <2>2 DEF WordsPerLine
<1>4. PICK loop : Looping(loop, [list |-> <<>>, i |-> 0, in |-> y], v, m) /\ LoadLoop(text) = loop[m].list
  BY <1>1, <1>3, LoadLoopRuns
<1>5. /\ loop \in [0..m -> LoopState]
      /\ loop[0] = [list |-> <<>>, i |-> 0, in |-> y]
      /\ \A k \in 1..m : loop[k] = Turn(loop[k - 1], v)
  BY <1>4 DEF Looping
<1>6. Going(loop[0], 0, v, K, R, c, len) \/ Done(loop[0], K, lines)
  BY <1>5, FirstTurn
<1>7. CutFile(K, R, c, len)
  OBVIOUS
<1> HIDE DEF n, m, v, y, len, lines
<1> DEFINE G == {k \in 0..m : Going(loop[k], k, v, K, R, c, len) \/ Done(loop[k], K, lines)}
<1>8. 0 \in G
  <2>1. 0 \in 0..m
    BY <1>3
  <2> QED BY <1>6, <2>1
<1>9. ASSUME NEW k \in 1..m, k - 1 \in G PROVE k \in G
  <2> DEFINE s == loop[k - 1]
  <2>1. k \in 0..m /\ k - 1 \in 0..m /\ k - 1 \in Int /\ k \in Int
    BY <1>3
  <2>2. s \in LoopState /\ loop[k] = Turn(s, v)
    BY <1>5, <2>1
  <2>3. Going(s, k - 1, v, K, R, c, len) \/ Done(s, K, lines)
    BY <1>9
  <2> HIDE DEF s
  <2>4. CASE Done(s, K, lines)
    <3>1. LoadTask(s.in).err < 0
      BY <2>4, LoadTaskEnd DEF Done
    <3>2. Turn(s, v) = s
      BY <3>1 DEF Turn
    <3>3. Done(loop[k], K, lines)
      BY <2>2, <2>4, <3>2
    <3> QED BY <2>1, <3>3
  <2>5. CASE Going(s, k - 1, v, K, R, c, len)
    <3> DEFINE j == k - 1
    <3>1. v = n /\ j \in 0..n /\ CutAt(s.in, R[j], c) /\ Going(s, j, n, K, R, c, len)
      BY <2>5 DEF Going, n
    <3>2. j # n
      <4>1. \A d : ~CutAt(s.in, <<>>, d)
        <5>1. Len(<<>>) = 0 /\ 0..(0 - 1) = {}
          BY EmptySeq
        <5> QED BY <5>1 DEF CutAt
      <4>2. R[n] = <<>>
        BY <1>1 DEF ImageOf, n
      <4> QED BY <3>1, <4>1, <4>2
    <3>3. k \in 1..n /\ k \in 0..n
      BY <1>2, <2>1, <3>1, <3>2
    <3> DEFINE a == SaveExamTask(K[k])
               x == R[k]
    <3>4. a \in Text /\ x \in Text /\ R[k - 1] = a \o x
      <4>1. K[k] \in Saveable
        BY <1>1, <3>3, ElementOfSeq DEF n
      <4>2. a \in Text
        BY <4>1, SaveIs DEF Saveable
      <4> QED BY <1>1, <3>3, <4>2 DEF ImageOf, n
    <3> HIDE DEF a, x
    <3>5. CutAt(s.in, a, c) \/ \E rest : s.in = a \o rest /\ CutAt(rest, x, c)
      BY <3>1, <3>4, CutAtSplit
    <3>6. CASE CutAt(s.in, a, c)
      <4>1. Done(Turn(s, n), K, lines)
        BY <1>7, <2>2, <3>1, <3>3, <3>6, DamagedTurn DEF n, lines, a
      <4> QED BY <2>1, <2>2, <3>1, <4>1
    <3>7. ASSUME NEW rest, s.in = a \o rest, CutAt(rest, x, c) PROVE k \in G
      <4>1. Going(Turn(s, n), k, n, K, R, c, len)
        BY <1>7, <2>2, <3>1, <3>3, <3>7, WholeTurn DEF n, a, x
      <4> QED BY <2>1, <2>2, <3>1, <4>1
    <3> QED BY <3>5, <3>6, <3>7
  <2> QED BY <2>3, <2>4, <2>5
<1>10. m \in G
  <2> HIDE DEF G
  <2>1. \A k \in 0..m : k \in G
    BY <1>3, <1>8, <1>9, Reaches
  <2>2. m \in 0..m
    BY <1>3
  <2> QED BY <2>1, <2>2
<1>11. ASSUME Going(loop[m], m, v, K, R, c, len) PROVE FALSE
  <2> DEFINE p == SubSeq(K, 1, m)
             z == loop[m].in
  <2>1. m \in 0..Len(K) /\ len + Len(R[m]) = 1 + Len(R[0]) + Len(z)
    BY <1>11 DEF Going
  <2>2. p \in Seq(Saveable) /\ Len(p) = m
    BY <1>1, <2>1, PrefixIs
  <2>3. Len(R[0]) \in Nat /\ Len(R[m]) \in Nat /\ Len(Image(p)) = 1 + Len(R[0]) - Len(R[m])
    BY <1>1, <2>1, PrefixLines
  <2> HIDE DEF p
  <2>4. Len(Image(p)) \in Nat /\ Len(Image(p)) >= m
    BY <2>2, ImageLen
  <2>5. Len(z) \in Nat
    <3>1. m \in 0..m
      BY <1>3
    <3>2. z \in Seq(Line)
      BY <1>5, <3>1 DEF LoopState, Text
    <3> HIDE DEF z
    <3> QED BY <3>2, LenProperties
  <2>6. m = 0 => Len(Image(p)) = 1
    BY <2>3
  <2> DEFINE a == Len(R[0])
             b == Len(R[m])
             d == Len(z)
             e == Len(Image(p))
  <2>7. /\ a \in Nat /\ b \in Nat /\ d \in Nat /\ e \in Nat /\ m \in Nat /\ len \in Nat
        /\ e = 1 + a - b /\ e >= m /\ len + b = 1 + a + d /\ m = 2 * len /\ (m = 0 => e = 1)
    BY <1>3, <2>1, <2>3, <2>4, <2>5, <2>6
  <2> HIDE DEF a, b, d, e
  <2> QED BY ONLY <2>7
<1>12. OneDamaged(loop[m].list, lines, K)
  BY <1>10, <1>11 DEF Done
<1> QED BY <1>4, <1>12 DEF lines, len

-----------------------------------------------------------------------------
(* The agent                                                                *)

FileInv ==
  /\ phase \in {"up", "whole", "cut", "loaded", "loadedCut"}
  /\ m_TaskList \in Seq(Task)
  /\ phase # "up" => m_TaskList \in Seq(Loaded)
  /\ saved \in Seq(Saveable)
  /\ file \in Text
  /\ left \in Line
  /\ open => phase \in {"cut", "loadedCut"}
  /\ phase = "whole" => file = Image(saved)
  /\ phase = "cut" => \E c : CutAt(file, Image(saved), c) /\ (open <=> c # <<>>)
  /\ RoundTrip
  /\ CrashDamagesOne

\* A sequence over a smaller set.
LEMMA SeqOfMore ==
  ASSUME NEW A, NEW B, A \subseteq B, NEW s \in Seq(A)
  PROVE  s \in Seq(B)
<1> DEFINE n == Len(s)
<1>1. n \in Nat /\ s \in [1..n -> A]
  BY LenProperties
<1> HIDE DEF n
<1>2. s \in [1..n -> B]
  BY <1>1
<1> QED BY <1>1, <1>2, SeqIs

\* What Save keeps is enabled health checks.
LEMMA KeptType ==
  ASSUME NEW list \in Seq(Task)
  PROVE  Kept(list) \in Seq(Saveable)
<1> DEFINE n == Len(list)
           ss == [k \in DOMAIN list |->
                    IF list[k].invalid = Enabled /\ list[k].type = TYPE_EXAM_HEALTH
                    THEN <<list[k]>> ELSE <<>>]
<1>1. n \in Nat /\ DOMAIN list = 1..n /\ \A k \in 1..n : list[k] \in Task
  BY LenProperties, ElementOfSeq
<1>2. ASSUME NEW k \in 1..n PROVE ss[k] \in Seq(Saveable)
  <2>1. CASE list[k].invalid = Enabled /\ list[k].type = TYPE_EXAM_HEALTH
    <3>1. list[k] \in Saveable
      BY <1>1, <2>1 DEF Saveable, Health
    <3>2. <<list[k]>> \in Seq(Saveable)
      BY <3>1
    <3> QED BY <1>1, <2>1, <3>2
  <2>2. CASE ~(list[k].invalid = Enabled /\ list[k].type = TYPE_EXAM_HEALTH)
    BY <1>1, <2>2, EmptySeq
  <2> QED BY <2>1, <2>2
<1>3. ss \in [1..n -> Seq(Saveable)]
  BY <1>1, <1>2
<1>4. Kept(list) = FlattenSeq(ss)
  BY DEF Kept
<1> HIDE DEF ss, n
<1>5. ss \in Seq(Seq(Saveable)) /\ Len(ss) = n
  BY <1>1, <1>3, SeqIs
<1>6. PICK R : Rests(R, ss, Saveable) /\ R[0] = FlattenSeq(ss)
  BY <1>5, FlattenRests
<1>7. R[0] \in Seq(Saveable)
  <2>1. 0 \in 0..Len(ss)
    BY <1>1, <1>5
  <2> QED BY <1>6, <2>1 DEF Rests
<1> QED BY <1>4, <1>6, <1>7

\* A task stays a task when invalid is set ...
LEMMA TaskInvalid ==
  ASSUME NEW t \in Task, NEW v \in Int
  PROVE  [t EXCEPT !.invalid = v] \in Task
<1> DEFINE u == [t EXCEPT !.invalid = v]
<1>1. t \in [tid : Words, cycle : Int, type : Int, lasttime : Line, invalid : Int,
             ftime : Int, items : Seq(CheckItem)]
  BY DEF Task
<1>2. /\ u \in [tid : Words, cycle : Int, type : Int, lasttime : Line, invalid : Int,
                ftime : Int, items : Seq(CheckItem)]
      /\ u.tid = t.tid /\ u.lasttime = t.lasttime /\ u.items = t.items
  BY <1>1
<1> HIDE DEF u
<1>3. Len(u.lasttime) >= 1 /\ FinishInit(u.items) = u.items
  BY <1>2, TaskFields
<1>4. u \in Task
  BY <1>2, <1>3, TaskFields DEF Task
<1> QED BY <1>4 DEF u

\* ... and when SetTime stamps it.
LEMMA TaskStamped ==
  ASSUME NEW t \in Task, NEW v \in Int, NEW l \in Line, Len(l) >= 1
  PROVE  [t EXCEPT !.invalid = v, !.lasttime = l] \in Task
<1> DEFINE u == [t EXCEPT !.invalid = v, !.lasttime = l]
<1>1. t \in [tid : Words, cycle : Int, type : Int, lasttime : Line, invalid : Int,
             ftime : Int, items : Seq(CheckItem)]
  BY DEF Task
<1>2. /\ u \in [tid : Words, cycle : Int, type : Int, lasttime : Line, invalid : Int,
                ftime : Int, items : Seq(CheckItem)]
      /\ u.tid = t.tid /\ u.lasttime = l /\ u.items = t.items
  BY <1>1
<1> HIDE DEF u
<1>3. Len(u.lasttime) >= 1 /\ FinishInit(u.items) = u.items
  BY <1>2, TaskFields
<1>4. u \in Task
  BY <1>2, <1>3, TaskFields DEF Task
<1> QED BY <1>4 DEF u

\* A task from the server is a task.
LEMMA ReceivedType ==
  ASSUME NEW tid \in Tids, NEW type \in Int, NEW ftime \in Int, NEW items \in Seq(CheckItem)
  PROVE  Received(tid, type, ftime, items) \in Task
<1> DEFINE w == Word("tid", tid)
           l == <<NeverRun>>
           p == FinishInit(items)
           t == [tid |-> w, cycle |-> 1, type |-> type, lasttime |-> l,
                 invalid |-> Enabled, ftime |-> ftime, items |-> p]
<1>1. w \in Words /\ w.kind = "tid"
  BY SomeWords DEF Word
<1>2. l \in Line /\ Len(l) = 1
  BY SomeWords, OneWord
<1>3. p \in Seq(CheckItem) /\ FinishInit(p) = p
  BY FinishInitKeeps
<1>4. Received(tid, type, ftime, items) = t
  BY DEF Received
<1> HIDE DEF w, l, p
<1>8. checkTid(w)
  BY <1>1 DEF checkTid
<1>5. /\ t \in [tid : Words, cycle : Int, type : Int, lasttime : Line, invalid : Int,
                ftime : Int, items : Seq(CheckItem)]
      /\ t.tid = w /\ t.lasttime = l /\ t.items = p
  BY <1>1, <1>2, <1>3 DEF Enabled
<1> HIDE DEF t
<1>6. Len(t.lasttime) >= 1
  <2>1. Len(t.lasttime) = 1
    BY <1>2, <1>5
  <2> QED BY <2>1
<1>7. t \in Task
  BY <1>1, <1>3, <1>5, <1>6, <1>8 DEF Task
<1> QED BY <1>4, <1>7

\* Its items are check items.
LEMMA ItemsType ==
  ASSUME NEW items \in Checks
  PROVE  items \in Seq(CheckItem)
<1> DEFINE Sent == [name : Strings, path : Strings, desc : Strings, score : Scores,
                    method : Strings, percent : {0}, type : Int, methodValue : Strings]
<1>1. Strings \subseteq Line
  <2>1. \A name \in Names : <<Word("name", name)>> \in Line /\ <<Word("long", name)>> \in Line
    BY SomeWords, OneWord
  <2>2. <<>> \in Line
    BY EmptySeq DEF Line, WordsPerLine
  <2>3. ASSUME NEW l \in Strings PROVE l \in Line
    <3>1. l = <<>> \/ \E name \in Names : l = <<Word("name", name)>> \/ l = <<Word("long", name)>>
      BY <2>3 DEF Strings
    <3> QED BY <2>1, <2>2, <3>1
  <2> QED BY <2>3
<1>2. Scores \subseteq Int
  BY ScoresAssumption
<1>3. Sent \subseteq CheckItem
  <2>1. ASSUME NEW r \in Sent PROVE r \in CheckItem
    <3>1. /\ r.name \in Line /\ r.path \in Line /\ r.desc \in Line /\ r.method \in Line
          /\ r.methodValue \in Line
      BY <1>1
    <3>2. r.score \in Int /\ r.percent = 0 /\ r.type \in Int
      BY <1>2
    <3>3. r = [name |-> r.name, path |-> r.path, desc |-> r.desc, score |-> r.score,
               method |-> r.method, percent |-> r.percent, type |-> r.type,
               methodValue |-> r.methodValue]
      OBVIOUS
    <3>4. r.percent \in Int
      BY <3>2
    <3> QED BY <3>1, <3>2, <3>3, <3>4 DEF CheckItem
  <2> HIDE DEF Sent
  <2> QED BY <2>1
<1>4. items \in Seq(Sent)
  BY ChecksAssumption
<1> HIDE DEF Sent
<1> QED BY <1>3, <1>4, SeqOfMore

\* Every task AddTask may be given is a task.
LEMMA NewTaskType ==
  ASSUME NEW task \in NewTask
  PROVE  task \in Task
<1>1. ASSUME NEW tid \in Tids, NEW ftime \in Ftimes, NEW items \in Checks
      PROVE  Received(tid, TYPE_EXAM_HEALTH, ftime, items) \in Task
  <2>1. TYPE_EXAM_HEALTH \in Int /\ ftime \in Int
    BY NumbersAssumption DEF TYPE_EXAM_HEALTH
  <2> QED BY <2>1, ItemsType, ReceivedType
<1>2. ASSUME NEW tid \in Tids, NEW type \in Types, NEW ftime \in Ftimes
      PROVE  Received(tid, type, ftime, <<>>) \in Task
  <2>1. type \in Int /\ ftime \in Int /\ <<>> \in Seq(CheckItem)
    BY NumbersAssumption, EmptySeq
  <2> QED BY <2>1, ReceivedType
<1> QED BY <1>1, <1>2 DEF NewTask

\* A step of the working agent changes only the list.
LEMMA ChangeKeeps ==
  ASSUME FileInv, NEW list \in Seq(Task), Change(list)
  PROVE  FileInv'
<1>1. /\ phase' = "up" /\ m_TaskList' = list /\ file' = file /\ saved' = saved /\ phase = "up"
      /\ open' = open /\ left' = left
  BY DEF Change
<1>2. RoundTrip' /\ CrashDamagesOne'
  BY <1>1 DEF RoundTrip, CrashDamagesOne
<1> QED BY <1>1, <1>2 DEF FileInv

\* The list in memory.
LEMMA ListIs ==
  ASSUME FileInv
  PROVE  /\ m_TaskList \in Seq(Task) /\ DOMAIN m_TaskList = 1..Len(m_TaskList)
         /\ Len(m_TaskList) \in Nat
         /\ \A k \in 1..Len(m_TaskList) : m_TaskList[k] \in Task
BY LenProperties, ElementOfSeq DEF FileInv

\* _AddTask on the list in memory.
LEMMA AddTaskKeeps ==
  ASSUME FileInv, NEW task \in NewTask, AddTask(task)
  PROVE  FileInv'
<1>1. _AddTask(m_TaskList, task) \in Seq(Task)
  BY ListIs, NewTaskType, AddType
<1> QED BY <1>1, ChangeKeeps DEF AddTask

\* InvalidTask on the list in memory.
LEMMA InvalidTaskKeeps ==
  ASSUME FileInv, NEW type \in Types, InvalidTask(type)
  PROVE  FileInv'
<1> DEFINE n == Len(m_TaskList)
           list == Invalidate(m_TaskList, type)
<1>1. n \in Nat /\ DOMAIN m_TaskList = 1..n /\ \A k \in 1..n : m_TaskList[k] \in Task
  BY ListIs
<1>2. ASSUME NEW k \in 1..n
      PROVE  (IF m_TaskList[k].type = type THEN [m_TaskList[k] EXCEPT !.invalid = Disabled]
                                           ELSE m_TaskList[k]) \in Task
  <2> DEFINE old == m_TaskList[k]
  <2>1. old \in Task
    BY <1>1
  <2>2. Disabled \in Int
    BY DEF Disabled
  <2> HIDE DEF old
  <2>3. [old EXCEPT !.invalid = Disabled] \in Task
    BY ONLY <2>1, <2>2, TaskInvalid
  <2> QED BY <2>1, <2>3 DEF old
<1>3. list \in [1..n -> Task]
  BY <1>1, <1>2 DEF Invalidate
<1> HIDE DEF n
<1>4. list \in Seq(Task)
  BY <1>1, <1>3, SeqIs
<1> QED BY <1>4, ChangeKeeps DEF InvalidTask

\* The owner starts a task.
LEMMA StartKeeps ==
  ASSUME FileInv, NEW k \in DOMAIN m_TaskList, Start(k)
  PROVE  FileInv'
<1> DEFINE t == [m_TaskList[k] EXCEPT !.invalid = Running]
           list == [m_TaskList EXCEPT ![k] = t]
<1>1. t \in Task
  <2> DEFINE old == m_TaskList[k]
  <2>1. old \in Task
    BY ListIs
  <2>2. Running \in Int
    BY DEF Running
  <2> HIDE DEF old
  <2>3. [old EXCEPT !.invalid = Running] \in Task
    BY ONLY <2>1, <2>2, TaskInvalid
  <2> QED BY <2>3 DEF old
<1>2. list = [m_TaskList EXCEPT ![k].invalid = Running]
  OBVIOUS
<1> HIDE DEF t
<1>3. list \in Seq(Task)
  BY <1>1, ListIs, ExceptSeq
<1> QED BY <1>2, <1>3, ChangeKeeps DEF Start

\* A task that has run is stamped.
LEMMA SetTimeKeeps ==
  ASSUME FileInv, NEW k \in DOMAIN m_TaskList, NEW hour \in Hours, SetTime(k, hour)
  PROVE  FileInv'
<1> DEFINE l == <<Word("date", Year), Word("time", hour)>>
           t == [m_TaskList[k] EXCEPT !.invalid = Enabled, !.lasttime = l]
           list == [m_TaskList EXCEPT ![k] = t]
<1>1. l \in Line /\ Len(l) >= 1
  <2>1. hour \in Int /\ Year \in Int
    BY NumbersAssumption
  <2>2. Word("date", Year) \in Words /\ Word("time", hour) \in Words
    BY <2>1, SomeWords
  <2> QED BY <2>2 DEF Line, WordsPerLine
<1>2. list = [m_TaskList EXCEPT ![k].invalid = Enabled, ![k].lasttime = l]
  <2> HIDE DEF l
  <2> QED BY ListIs
<1> HIDE DEF l
<1>3. t \in Task
  <2> DEFINE old == m_TaskList[k]
  <2>1. old \in Task
    BY ListIs
  <2>2. Enabled \in Int
    BY DEF Enabled
  <2> HIDE DEF old
  <2>3. [old EXCEPT !.invalid = Enabled, !.lasttime = l] \in Task
    BY ONLY <1>1, <2>1, <2>2, TaskStamped
  <2> QED BY <2>3 DEF old
<1> HIDE DEF t
<1>4. list \in Seq(Task)
  BY <1>3, ListIs, ExceptSeq
<1> QED BY <1>2, <1>4, ChangeKeeps DEF SetTime, l

\* What the stack may hold under cTmp is a line.
LEMMA RemnantsType == Remnants \subseteq Line
<1>1. <<>> \in Line
  BY EmptySeq DEF Line, WordsPerLine
<1>2. <<Junk>> \in Line
  BY SomeWords, OneWord
<1>3. \A score \in Scores : <<IntWord(score)>> \in Line
  BY ScoresAssumption, atoiIs
<1> QED BY <1>1, <1>2, <1>3 DEF Remnants

\* Save writes the image of what it keeps.
LEMMA SaveKeeps ==
  ASSUME FileInv, Save
  PROVE  FileInv'
<1>1. /\ phase' = "whole" /\ m_TaskList' = <<>> /\ ~open' /\ left' \in Line
      /\ file' = Image(Kept(m_TaskList)) /\ saved' = Kept(m_TaskList)
  BY RemnantsType DEF Save
<1>2. Kept(m_TaskList) \in Seq(Saveable)
  BY ListIs, KeptType
<1>3. Image(Kept(m_TaskList)) \in Text
  BY <1>2, ImageType
<1>4. <<>> \in Seq(Task) /\ <<>> \in Seq(Loaded)
  BY EmptySeq
<1>5. RoundTrip' /\ CrashDamagesOne'
  BY <1>1 DEF RoundTrip, CrashDamagesOne
<1> QED BY <1>1, <1>2, <1>3, <1>4, <1>5 DEF FileInv

\* A crash leaves a cut image.
LEMMA CrashKeeps ==
  ASSUME FileInv, CrashInSave
  PROVE  FileInv'
<1> DEFINE K == Kept(m_TaskList)
<1>1. phase' = "cut" /\ m_TaskList' = <<>> /\ saved' = K /\ left' \in Line
  BY RemnantsType DEF CrashInSave
<1>2. K \in Seq(Saveable)
  BY ListIs, KeptType
<1>3. PICK c : CutAt(file', Image(K), c) /\ (open' <=> c # <<>>)
  BY DEF CrashInSave, CutAt
<1> HIDE DEF K
<1>4. file' \in Text
  BY <1>2, <1>3, ImageType, CutAtType DEF CutLines
<1>5. <<>> \in Seq(Task) /\ <<>> \in Seq(Loaded)
  BY EmptySeq
<1>6. RoundTrip' /\ CrashDamagesOne'
  BY <1>1 DEF RoundTrip, CrashDamagesOne
<1> QED BY <1>1, <1>2, <1>3, <1>4, <1>5, <1>6 DEF FileInv

\* Load is where the two properties are established: LoadWhole for a whole file, LoadCut for a cut one.
LEMMA LoadKeeps ==
  ASSUME FileInv, Load
  PROVE  FileInv'
<1>1. /\ phase \in {"whole", "cut"} /\ m_TaskList' = LoadLoop(file)
      /\ phase' = (IF phase = "whole" THEN "loaded" ELSE "loadedCut")
      /\ file' = file /\ saved' = saved /\ open' = open /\ left' = left
  BY DEF Load
<1>2. saved \in Seq(Saveable) /\ file \in Text /\ left \in Line
      /\ (open => phase \in {"cut", "loadedCut"})
  BY DEF FileInv
<1>3. LoadLoop(file) \in Seq(Loaded)
  BY <1>2, LoadLoopType
<1>4. LoadLoop(file) \in Seq(Task)
  <2>1. Loaded \subseteq Task
    BY DEF Loaded
  <2> QED BY <1>3, <2>1, SeqOfMore
<1>5. DOMAIN saved = 1..Len(saved)
  BY <1>2, LenProperties
<1>6. (\A t \in ToSet(saved) : ~Stamped(t) /\ Readable(t) /\ Fits(t)) => \A k \in 1..Len(saved) : Plain(saved[k])
  BY <1>5 DEF ToSet, Plain
<1>7. CASE phase = "whole"
  <2>1. phase' = "loaded" /\ file = Image(saved) /\ ~open
    BY <1>1, <1>2, <1>7 DEF FileInv
  <2>2. RoundTrip'
    <3>1. ASSUME \A t \in ToSet(saved) : ~Stamped(t) /\ Readable(t) /\ Fits(t)
          PROVE  LastOfEach(LoadLoop(file), saved)
      BY <1>2, <1>6, <2>1, <3>1, LoadWhole
    <3> QED BY <1>1, <3>1 DEF RoundTrip
  <2>3. CrashDamagesOne'
    BY <2>1 DEF CrashDamagesOne
  <2> QED BY <1>1, <1>2, <1>3, <1>4, <2>1, <2>2, <2>3 DEF FileInv
<1>8. CASE phase = "cut"
  <2>1. phase' = "loadedCut"
    BY <1>1, <1>8
  <2>2. RoundTrip'
    BY <2>1 DEF RoundTrip
  <2>3. PICK c : CutAt(file, Image(saved), c) /\ (open <=> c # <<>>)
    BY <1>8 DEF FileInv
  <2>4. PICK R : ImageOf(R, saved)
    BY <1>2, ImageRests
  <2> DEFINE lines == Len(file) - (IF open THEN 1 ELSE 0)
  <2>5. Len(file) \in Nat /\ Len(file) - Len(c) = lines
    <3>1. CutLines(file, Image(saved), c)
      BY <1>2, <2>3, ImageType, CutAtType
    <3>2. Len(file) \in Nat /\ Len(c) \in 0..1 /\ (c = <<>> <=> Len(c) = 0)
      BY <3>1 DEF CutLines
    <3>3. CASE open
      <4>1. Len(c) = 1
        BY <2>3, <3>2, <3>3
      <4> QED BY <3>2, <3>3, <4>1
    <3>4. CASE ~open
      <4>1. Len(c) = 0
        BY <2>3, <3>2, <3>4
      <4> QED BY <3>2, <3>4, <4>1
    <3> QED BY <3>3, <3>4
  <2>6. ASSUME \A t \in ToSet(saved) : ~Stamped(t) /\ Readable(t) /\ Fits(t),
               \A i, j \in DOMAIN saved : saved[i].tid = saved[j].tid => i = j
        PROVE  OneDamaged(LoadLoop(file), lines, saved)
    <3>1. CutFile(saved, R, c, Len(file))
      BY <1>2, <1>6, <2>3, <2>4, <2>5, <2>6 DEF CutFile
    <3>2. OneDamaged(LoadLoop(file), Len(file) - Len(c), saved)
      BY <2>3, <3>1, LoadCut
    <3> QED BY <2>5, <3>2
  <2>7. CrashDamagesOne'
    <3>1. lines' = lines
      BY <1>1
    <3>2. \A w : WrittenBefore(w)' <=> Written(w, lines, saved)
      BY <1>1 DEF WrittenBefore, Written
    <3> HIDE DEF lines
    <3>3. SUFFICES ASSUME /\ (\A t \in ToSet(saved) : ~Stamped(t) /\ Readable(t) /\ Fits(t))
                          /\ (\A i, j \in DOMAIN saved : saved[i].tid = saved[j].tid => i = j)
                   PROVE  \E w \in 0..Len(saved) :
                            /\ WrittenBefore(w)'
                            /\ AsWritten(LoadLoop(file), w, saved)
      BY <1>1 DEF CrashDamagesOne, AsWritten
    <3> QED BY <2>6, <3>2, <3>3 DEF OneDamaged
  <2> QED BY <1>1, <1>2, <1>3, <1>4, <2>1, <2>2, <2>7 DEF FileInv
<1> QED BY <1>1, <1>7, <1>8

\* The next process goes on with its list.
LEMMA GoOnKeeps ==
  ASSUME FileInv, GoOn
  PROVE  FileInv'
<1>1. /\ phase' = "up" /\ file' = <<>> /\ saved' = <<>> /\ m_TaskList' = m_TaskList
      /\ ~open' /\ left' = <<>>
  BY DEF GoOn
<1>2. <<>> \in Seq(Saveable) /\ <<>> \in Text /\ <<>> \in Line
  BY EmptySeq DEF Text, Line, WordsPerLine
<1>3. RoundTrip' /\ CrashDamagesOne'
  BY <1>1 DEF RoundTrip, CrashDamagesOne
<1> QED BY <1>1, <1>2, <1>3 DEF FileInv

\* The invariant of the task file, by one step per action.
LEMMA FileInvariance == Spec => []FileInv
<1>1. ASSUME Init PROVE FileInv
  <2>1. m_TaskList = <<>> /\ file = <<>> /\ saved = <<>> /\ phase = "up" /\ ~open /\ left = <<>>
    BY <1>1 DEF Init
  <2>2. <<>> \in Seq(Saveable) /\ <<>> \in Text /\ <<>> \in Seq(Task) /\ <<>> \in Line
    BY EmptySeq DEF Text, Line, WordsPerLine
  <2>3. RoundTrip /\ CrashDamagesOne
    BY <2>1 DEF RoundTrip, CrashDamagesOne
  <2> QED BY <2>1, <2>2, <2>3 DEF FileInv
<1>2. ASSUME FileInv, [Next]_vars PROVE FileInv'
  <2>1. ASSUME NEW task \in NewTask, AddTask(task) PROVE FileInv'
    BY <1>2, <2>1, AddTaskKeeps
  <2>2. ASSUME NEW type \in Types, InvalidTask(type) PROVE FileInv'
    BY <1>2, <2>2, InvalidTaskKeeps
  <2>3. ASSUME NEW k \in DOMAIN m_TaskList, Start(k) PROVE FileInv'
    BY <1>2, <2>3, StartKeeps
  <2>4. ASSUME NEW k \in DOMAIN m_TaskList, NEW hour \in Hours, SetTime(k, hour) PROVE FileInv'
    BY <1>2, <2>4, SetTimeKeeps
  <2>5. CASE Save
    BY <1>2, <2>5, SaveKeeps
  <2>6. CASE CrashInSave
    BY <1>2, <2>6, CrashKeeps
  <2>7. CASE Load
    BY <1>2, <2>7, LoadKeeps
  <2>8. CASE GoOn
    BY <1>2, <2>8, GoOnKeeps
  <2>9. CASE UNCHANGED vars
    BY <1>2, <2>9 DEF vars, FileInv, RoundTrip, CrashDamagesOne, WrittenBefore
  <2> QED BY <1>2, <2>1, <2>2, <2>3, <2>4, <2>5, <2>6, <2>7, <2>8, <2>9 DEF Next
<1> QED BY <1>1, <1>2, PTL DEF Spec

(* Whatever is on disk when the agent starts again, whole or cut, Load makes *)
(* tasks of it: numbers where numbers belong, a time of one or two words and *)
(* no task that was left running; the file itself never has a line of more   *)
(* words than the bound on the turns of Load takes for granted.              *)
THEOREM FileTypes == Spec => []TypeOK
<1>1. ASSUME FileInv PROVE TypeOK
  <2>1. /\ phase \in {"up", "whole", "cut", "loaded", "loadedCut"}
        /\ m_TaskList \in Seq(Task) /\ (phase # "up" => m_TaskList \in Seq(Loaded))
        /\ saved \in Seq(Saveable) /\ file \in Text
        /\ open => phase \in {"cut", "loadedCut"}
    BY <1>1 DEF FileInv
  <2>2. ASSUME NEW t \in Task
        PROVE  /\ t.cycle \in Int /\ t.type \in Int /\ t.ftime \in Int /\ t.invalid \in Int
               /\ Len(t.lasttime) \in 1..2
    <3>1. t.lasttime \in Seq(Words) /\ Len(t.lasttime) <= 2 /\ Len(t.lasttime) >= 1
      BY TaskFields DEF Line, WordsPerLine
    <3>2. Len(t.lasttime) \in Nat
      BY <3>1, LenProperties
    <3>3. Len(t.lasttime) \in 1..2
      <4> DEFINE n == Len(t.lasttime)
      <4>1. n \in Nat /\ n <= 2 /\ n >= 1
        BY <3>1, <3>2
      <4> HIDE DEF n
      <4>2. n \in 1..2
        BY ONLY <4>1
      <4> QED BY <4>2 DEF n
    <3>4. /\ t.cycle \in Int /\ t.type \in Int /\ t.ftime \in Int /\ t.invalid \in Int
      BY TaskFields
    <3> QED BY <3>3, <3>4
  <2>3. ASSUME NEW t \in ToSet(m_TaskList)
        PROVE  t \in Task /\ (phase # "up" => t.invalid # Running)
    <3>1. PICK k \in 1..Len(m_TaskList) : t = m_TaskList[k]
      BY <2>1, LenProperties DEF ToSet
    <3>2. t \in Task
      BY <2>1, <3>1, ElementOfSeq
    <3>3. phase # "up" => t \in Loaded
      BY <2>1, <3>1, ElementOfSeq
    <3> QED BY <3>2, <3>3 DEF Loaded
  <2>4. ASSUME NEW t \in ToSet(saved) PROVE t \in Task /\ t.invalid # Running
    <3>1. PICK k \in 1..Len(saved) : t = saved[k]
      BY <2>1, LenProperties DEF ToSet
    <3>2. t \in Saveable
      BY <2>1, <3>1, ElementOfSeq
    <3> QED BY <3>2 DEF Saveable, Health, Enabled, Running
  <2>5. ASSUME NEW line \in ToSet(file) PROVE Len(line) <= WordsPerLine
    <3>1. PICK k \in 1..Len(file) : line = file[k]
      BY <2>1, LenProperties DEF ToSet, Text
    <3>2. line \in Line
      BY <2>1, <3>1, ElementOfSeq DEF Text
    <3> QED BY <3>2 DEF Line
  <2> QED BY <2>1, <2>2, <2>3, <2>4, <2>5 DEF TypeOK
<1> QED BY <1>1, FileInvariance, PTL

(* What CTaskList::Save wrote CTaskList::Load gives back, field by field and *)
(* percent by percent, for any number of tasks and items, any tids, scores   *)
(* and times: the readers stay in step with the lines, line after line.      *)
THEOREM SavedTasksComeBack == Spec => []RoundTrip
<1>1. FileInv => RoundTrip
  BY DEF FileInv
<1> QED BY <1>1, FileInvariance, PTL

(* A crash at any character of the file while CTaskList::Save writes it      *)
(* damages at most one task when Load reads what is left: the tasks whose    *)
(* last line was written, which the number of lines tells, are as they were  *)
(* (but for one that has the damaged one's tid), and nothing is made up      *)
(* behind it.                                                                *)
THEOREM CrashLosesLittle == Spec => []CrashDamagesOne
<1>1. FileInv => CrashDamagesOne
  BY DEF FileInv
<1> QED BY <1>1, FileInvariance, PTL
=============================================================================
