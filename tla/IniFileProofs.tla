--------------------------- MODULE IniFileProofs ----------------------------
(***************************************************************************)
(* write_profile_string on any file, of any length and with any mixture of *)
(* sections, keys, blanks and comments: a write changes what is read for   *)
(* its own section and key and nothing else, and no line is lost.          *)
(***************************************************************************)
EXTENDS IniFile, WellFoundedInduction, SequenceTheorems, TLAPS

-----------------------------------------------------------------------------
(* Least and greatest elements                                              *)

\* A non-empty set of naturals has a least element, which is its Min.
LEMMA MinIsLeast ==
  ASSUME NEW S \in SUBSET Nat, S # {}
  PROVE  Min(S) \in S /\ \A y \in S : Min(S) <= y
<1>1. PICK x \in S : \A y \in S : ~(<<y, x>> \in OpToRel(<, Nat))
  BY NatLessThanWellFounded, WFMin
<1>2. ASSUME NEW y \in S PROVE x <= y
  <2>1. ~(<<y, x>> \in OpToRel(<, Nat))
    BY <1>1
  <2>2. ~(y < x)
    BY <2>1 DEF OpToRel
  <2> QED BY <2>2
<1> QED
  BY <1>2 DEF Min

\* A non-empty set of naturals below a bound has a greatest, which is its Max.
LEMMA MaxIsGreatest ==
  ASSUME NEW n \in Nat, NEW S \in SUBSET (0..n), S # {}
  PROVE  Max(S) \in S /\ \A y \in S : y <= Max(S)
<1> DEFINE T == {n - x : x \in S}
<1>1. T \in SUBSET Nat /\ T # {}
  <2>1. \A x \in S : n - x \in Nat
    OBVIOUS
  <2>2. PICK x \in S : TRUE
    OBVIOUS
  <2>3. n - x \in T
    OBVIOUS
  <2> QED BY <2>1, <2>3
<1>2. Min(T) \in T /\ \A y \in T : Min(T) <= y
  BY <1>1, MinIsLeast
<1>3. PICK x \in S : Min(T) = n - x
  BY <1>2
<1>4. \A y \in S : n - y \in T
  OBVIOUS
<1> HIDE DEF T
<1>5. \A y \in S : n - x <= n - y
  BY <1>2, <1>3, <1>4
<1>6. \A y \in S : x >= y
  BY <1>5
<1> QED BY <1>6 DEF Max

\* Min and Max are what they are because of their place.
LEMMA MinIs ==
  ASSUME NEW S \in SUBSET Nat, NEW m \in S, \A y \in S : m <= y
  PROVE  Min(S) = m
<1>1. Min(S) \in S /\ \A y \in S : Min(S) <= y
  BY MinIsLeast
<1>2. Min(S) \in Nat /\ m \in Nat /\ Min(S) <= m /\ m <= Min(S)
  BY <1>1
<1> QED BY <1>2

-----------------------------------------------------------------------------
(* Lines                                                                    *)

\* The parts of each kind of line.
LEMMA Headings ==
  ASSUME NEW s
  PROVE  /\ Section(s).kind = "section" /\ Section(s).name = s
         /\ Joined(Section(s)).kind = "section" /\ Joined(Section(s)).name = s
         /\ Joined(Joined(Section(s))) = Joined(Section(s))
BY Zenon DEF Section, Joined

\* Those of a pair.
LEMMA Pairs ==
  ASSUME NEW k, NEW v
  PROVE  Pair(k, v).kind = "pair" /\ Pair(k, v).key = k /\ Pair(k, v).value = v
BY DEF Pair

\* The kinds of the lines parse_file passes over.
LEMMA Others ==
  Blank.kind = "blank" /\ \A text : Comment(text).kind = "comment"
BY DEF Blank, Comment

\* Every line is of one of the kinds.
LEMMA LineCases ==
  ASSUME NEW l \in Lines
  PROVE  \/ \E s \in Sections : l = Section(s) \/ l = Joined(Section(s))
         \/ \E k \in Keys, v \in Values : l = Pair(k, v)
         \/ l = Blank
         \/ \E text \in {"plain", "percent", "spoiled"} : l = Comment(text)
BY DEF Lines, HandLines

\* What a line of each kind is made of.
LEMMA LineParts ==
  ASSUME NEW l \in Lines
  PROVE  /\ l.kind \in {"section", "pair", "blank", "comment"}
         /\ l.kind = "section" => l.name \in Sections
         /\ l.kind = "pair" => l.key \in Keys /\ l.value \in Values /\ l = Pair(l.key, l.value)
BY LineCases, Headings, Pairs, Others

\* The lines that write_profile_string makes.
LEMMA NewLines ==
  ASSUME NEW s \in Sections, NEW k \in Keys, NEW v \in Values
  PROVE  /\ Section(s) \in Lines /\ Section(s).kind = "section" /\ Section(s).name = s
         /\ Pair(k, v) \in Lines /\ Pair(k, v).kind = "pair"
         /\ Pair(k, v).key = k /\ Pair(k, v).value = v
         /\ Blank \in Lines /\ Blank.kind = "blank"
<1>1. Section(s) \in Lines /\ Pair(k, v) \in Lines /\ Blank \in Lines
  BY DEF Lines, HandLines
<1> QED BY <1>1, Headings, Pairs, Others

\* A pair behind a header on its line leaves the header what it is.
LEMMA JoinedLine ==
  ASSUME NEW l \in Lines, l.kind = "section"
  PROVE  Joined(l) \in Lines /\ Joined(l).kind = "section" /\ Joined(l).name = l.name
<1>1. PICK s \in Sections : l = Section(s) \/ l = Joined(Section(s))
  BY LineCases, Pairs, Others
<1>2. Joined(l) = Joined(Section(s)) /\ l.name = s
  BY <1>1, Headings
<1>3. Joined(Section(s)) \in Lines
  BY DEF Lines
<1> QED BY <1>2, <1>3, Headings

\* A file is a function on its line numbers.
LEMMA FileLines ==
  ASSUME NEW f \in Seq(Lines)
  PROVE  Len(f) \in Nat /\ DOMAIN f = 1..Len(f) /\ \A i \in 1..Len(f) : f[i] \in Lines
BY LenProperties

-----------------------------------------------------------------------------
(* Sections                                                                 *)

\* HeaderOf is the last header in front of a line.
LEMMA HeaderIsLast ==
  ASSUME NEW f \in Seq(Lines), NEW i \in 1..Len(f)
  PROVE  /\ HeaderOf(f, i) \in 0..(i - 1)
         /\ HeaderOf(f, i) # 0 => f[HeaderOf(f, i)].kind = "section"
         /\ \A j \in 1..(i - 1) : f[j].kind = "section" => j <= HeaderOf(f, i)
<1> DEFINE S == {0} \cup {j \in 1..(i - 1) : f[j].kind = "section"}
<1>1. i - 1 \in Nat /\ S \in SUBSET (0..(i - 1)) /\ S # {}
  BY FileLines
<1>2. Max(S) \in S /\ \A y \in S : y <= Max(S)
  BY <1>1, MaxIsGreatest
<1>3. HeaderOf(f, i) = Max(S)
  BY DEF HeaderOf
<1> QED BY <1>1, <1>2, <1>3

\* Any line number that is the last header in front of a line is HeaderOf.
LEMMA LastIsHeader ==
  ASSUME NEW f \in Seq(Lines), NEW i \in 1..Len(f), NEW h \in 0..(i - 1),
         h # 0 => f[h].kind = "section",
         \A j \in 1..(i - 1) : f[j].kind = "section" => j <= h
  PROVE  HeaderOf(f, i) = h
<1> DEFINE g == HeaderOf(f, i)
<1>1. /\ g \in 0..(i - 1)
      /\ g # 0 => f[g].kind = "section"
      /\ \A j \in 1..(i - 1) : f[j].kind = "section" => j <= g
  BY HeaderIsLast
<1>2. i \in Int
  BY FileLines
<1> HIDE DEF g
<1>3. g <= h
  BY <1>1, <1>2
<1>4. h <= g
  BY <1>1, <1>2
<1> QED BY <1>1, <1>2, <1>3, <1>4 DEF g

\* Where no name begins with another, a name matches itself only.
LEMMA MatchesItself ==
  ASSUME PrefixFree, NEW a \in Sections \cup Keys, NEW b \in Sections \cup Keys
  PROVE  Matches(a, b) <=> a = b
BY DEF PrefixFree, Matches

\* A pair is hit when it is of that key in that section.
LEMMA HitIs ==
  ASSUME PrefixFree, NEW f \in Seq(Lines), NEW s \in Sections, NEW k \in Keys, NEW i
  PROVE  i \in KeyHits(f, s, k) <=>
           /\ i \in 1..Len(f)
           /\ f[i].kind = "pair" /\ f[i].key = k
           /\ HeaderOf(f, i) # 0 /\ f[HeaderOf(f, i)].name = s
<1>1. Len(f) \in Nat /\ DOMAIN f = 1..Len(f) /\ \A n \in 1..Len(f) : f[n] \in Lines
  BY FileLines
<1>2. \A n \in 1..Len(f) : f[n].kind = "pair" => (Matches(f[n].key, k) <=> f[n].key = k)
  BY <1>1, LineParts, MatchesItself
<1>3. \A n \in 1..Len(f) : f[n].kind = "section" => (Matches(f[n].name, s) <=> f[n].name = s)
  BY <1>1, LineParts, MatchesItself
<1>4. ASSUME NEW n \in 1..Len(f)
      PROVE  HeaderOf(f, n) \in SectionHits(f, s)
               <=> HeaderOf(f, n) # 0 /\ f[HeaderOf(f, n)].name = s
  <2> DEFINE h == HeaderOf(f, n)
  <2>1. h \in 0..(n - 1) /\ (h # 0 => f[h].kind = "section")
    BY HeaderIsLast
  <2> HIDE DEF h
  <2>2. h # 0 => h \in 1..Len(f)
    BY <1>1, <2>1
  <2>3. 0 \notin 1..Len(f)
    BY <1>1
  <2> QED BY <1>1, <1>3, <2>1, <2>2, <2>3 DEF SectionHits, Headers, h
<1> QED BY <1>1, <1>2, <1>4 DEF KeyHits

-----------------------------------------------------------------------------
(* A file with new lines                                                    *)

\* g holds the lines of f in their order, line i at up[i], and among its other
\* lines headers only behind all of f.
Grown(f, g, up) ==
  /\ up \in [0..Len(f) -> 0..Len(g)] /\ up[0] = 0
  /\ \A i, j \in 0..Len(f) : i < j => up[i] < up[j]
  /\ \A i \in 1..Len(f) : g[up[i]] = f[i]
  /\ \A j \in 1..Len(g) : g[j].kind = "section" =>
        (\E i \in 1..Len(f) : up[i] = j) \/ (\A i \in 1..Len(f) : up[i] < j)

\* An old line is in the section it was in.
LEMMA HeaderMoves ==
  ASSUME NEW f \in Seq(Lines), NEW g \in Seq(Lines), NEW up, Grown(f, g, up),
         NEW i \in 1..Len(f)
  PROVE  HeaderOf(g, up[i]) = up[HeaderOf(f, i)]
<1> DEFINE h == HeaderOf(f, i)
           m == up[i]
           n == up[h]
<1>1. Len(f) \in Nat /\ Len(g) \in Nat
  BY FileLines
<1>2. /\ h \in 0..(i - 1) /\ h \in 0..Len(f)
      /\ h # 0 => f[h].kind = "section"
      /\ \A j \in 1..(i - 1) : f[j].kind = "section" => j <= h
  <2>1. /\ h \in 0..(i - 1)
        /\ h # 0 => f[h].kind = "section"
        /\ \A j \in 1..(i - 1) : f[j].kind = "section" => j <= h
    BY HeaderIsLast
  <2> HIDE DEF h
  <2> QED BY <1>1, <2>1
<1> HIDE DEF h
<1>3. /\ \A j \in 0..Len(f) : up[j] \in 0..Len(g)
      /\ \A j, l \in 0..Len(f) : j < l => up[j] < up[l]
      /\ up[0] = 0
      /\ \A j \in 1..Len(f) : g[up[j]] = f[j]
  BY DEF Grown
<1>4. m \in 1..Len(g) /\ n \in 0..(m - 1)
  BY <1>1, <1>2, <1>3
<1>5. n # 0 => g[n].kind = "section"
  BY <1>1, <1>2, <1>3
<1>6. ASSUME NEW j \in 1..(m - 1), g[j].kind = "section" PROVE j <= n
  <2>1. j \in 1..Len(g) /\ ~(m < j) /\ j # m
    BY <1>1, <1>4
  <2>2. PICK l \in 1..Len(f) : up[l] = j
    BY <1>6, <2>1 DEF Grown
  <2>3. f[l].kind = "section"
    BY <1>3, <1>6, <2>2
  <2>4. l < i
    BY <1>1, <1>3, <2>1, <2>2
  <2>5. l <= h
    BY <1>1, <1>2, <2>3, <2>4
  <2>6. CASE l = h
    BY <1>4, <2>2, <2>6
  <2>7. CASE l < h
    <3>1. up[l] < up[h]
      BY <1>1, <1>2, <1>3, <2>7
    <3> QED BY <1>4, <2>2, <3>1
  <2> QED BY <1>1, <1>2, <2>5, <2>6, <2>7
<1> HIDE DEF m, n
<1>7. HeaderOf(g, m) = n
  BY <1>4, <1>5, <1>6, LastIsHeader
<1> QED BY <1>7 DEF m, n, h

\* An old pair is hit by what hit it before.
LEMMA OldHits ==
  ASSUME PrefixFree, NEW f \in Seq(Lines), NEW g \in Seq(Lines), NEW up, Grown(f, g, up),
         NEW s \in Sections, NEW k \in Keys, NEW i \in 1..Len(f)
  PROVE  up[i] \in KeyHits(g, s, k) <=> i \in KeyHits(f, s, k)
<1> DEFINE h == HeaderOf(f, i)
<1>1. Len(f) \in Nat /\ Len(g) \in Nat
  BY FileLines
<1>2. HeaderOf(g, up[i]) = up[h]
  BY HeaderMoves
<1>3. h \in 0..(i - 1)
  BY HeaderIsLast
<1> HIDE DEF h
<1>4. /\ \A j \in 0..Len(f) : up[j] \in 0..Len(g)
      /\ \A j, l \in 0..Len(f) : j < l => up[j] < up[l]
      /\ up[0] = 0
      /\ \A j \in 1..Len(f) : g[up[j]] = f[j]
  BY DEF Grown
<1>5. up[i] \in 1..Len(g) /\ g[up[i]] = f[i]
  BY <1>1, <1>4
<1>6. h = 0 <=> up[h] = 0
  BY <1>1, <1>3, <1>4
<1>7. h # 0 => g[up[h]] = f[h]
  BY <1>1, <1>3, <1>4
<1>8. i \in KeyHits(f, s, k) <=> /\ f[i].kind = "pair" /\ f[i].key = k
                                 /\ h # 0 /\ f[h].name = s
  BY HitIs DEF h
<1>9. up[i] \in KeyHits(g, s, k) <=> /\ g[up[i]].kind = "pair" /\ g[up[i]].key = k
                                     /\ up[h] # 0 /\ g[up[h]].name = s
  BY <1>2, <1>5, HitIs
<1> QED BY <1>5, <1>6, <1>7, <1>8, <1>9

\* The pairs that are hit are the old ones, where they are now.
LEMMA HitsMove ==
  ASSUME PrefixFree, NEW f \in Seq(Lines), NEW g \in Seq(Lines), NEW up, Grown(f, g, up),
         NEW s \in Sections, NEW k \in Keys,
         \A j \in KeyHits(g, s, k) : \E i \in 1..Len(f) : up[i] = j
  PROVE  read_profile_string(g, s, k) = read_profile_string(f, s, k)
<1> DEFINE A == KeyHits(f, s, k)
           B == KeyHits(g, s, k)
<1>1. Len(f) \in Nat /\ Len(g) \in Nat
  BY FileLines
<1>2. A \in SUBSET (1..Len(f)) /\ B \in SUBSET (1..Len(g))
  BY FileLines DEF KeyHits
<1>3. \A i \in 1..Len(f) : up[i] \in B <=> i \in A
  BY OldHits
<1>4. \A j \in B : \E i \in 1..Len(f) : up[i] = j
  OBVIOUS
<1>5. /\ \A j \in 0..Len(f) : up[j] \in 0..Len(g)
      /\ \A j, l \in 0..Len(f) : j < l => up[j] < up[l]
      /\ \A j \in 1..Len(f) : g[up[j]] = f[j]
  BY DEF Grown
<1>6. read_profile_string(f, s, k) = IF A = {} THEN None ELSE f[Min(A)].value
  BY DEF read_profile_string
<1>7. read_profile_string(g, s, k) = IF B = {} THEN None ELSE g[Min(B)].value
  BY DEF read_profile_string
<1> HIDE DEF A, B
<1>8. CASE A = {}
  <2>1. B = {}
    BY <1>3, <1>4, <1>8
  <2> QED BY <1>6, <1>7, <1>8, <2>1
<1>9. CASE A # {}
  <2>1. A \in SUBSET Nat /\ B \in SUBSET Nat
    BY <1>1, <1>2
  <2>2. Min(A) \in A /\ \A y \in A : Min(A) <= y
    BY <1>9, <2>1, MinIsLeast
  <2>3. Min(A) \in 1..Len(f)
    BY <1>2, <2>2
  <2>4. up[Min(A)] \in B
    BY <1>3, <2>2, <2>3
  <2>5. ASSUME NEW j \in B PROVE up[Min(A)] <= j
    <3>1. PICK i \in 1..Len(f) : up[i] = j
      BY <1>4
    <3>2. i \in A
      BY <1>3, <3>1
    <3>3. Min(A) <= i
      BY <2>2, <3>2
    <3>4. up[i] \in Nat /\ up[Min(A)] \in Nat
      BY <1>1, <1>5, <2>3
    <3>5. CASE Min(A) = i
      BY <3>1, <3>4, <3>5
    <3>6. CASE Min(A) < i
      BY <1>1, <1>5, <2>3, <3>1, <3>4, <3>6
    <3> QED BY <1>1, <2>3, <3>3, <3>5, <3>6
  <2>6. Min(B) = up[Min(A)]
    BY <2>1, <2>4, <2>5, MinIs
  <2>7. g[Min(B)] = f[Min(A)]
    BY <1>5, <2>3, <2>6
  <2> QED BY <1>6, <1>7, <1>9, <2>4, <2>7
<1> QED BY <1>8, <1>9

\* Two files that answer alike but for one section and key.
LEMMA StoresDiffer ==
  ASSUME NEW f, NEW g, NEW s \in Sections, NEW k \in Keys, NEW v,
         read_profile_string(g, s, k) = v,
         \A t \in Sections, l \in Keys :
            <<t, l>> # <<s, k>> => read_profile_string(g, t, l) = read_profile_string(f, t, l)
  PROVE  Store(g) = [Store(f) EXCEPT ![<<s, k>>] = v]
<1> DEFINE R == [Store(f) EXCEPT ![<<s, k>>] = v]
<1>1. Store(f) = [sk \in Sections \X Keys |-> read_profile_string(f, sk[1], sk[2])]
  BY DEF Store
<1>2. Store(g) = [sk \in Sections \X Keys |-> read_profile_string(g, sk[1], sk[2])]
  BY DEF Store
<1>3. R = [sk \in Sections \X Keys |->
             IF sk = <<s, k>> THEN v ELSE read_profile_string(f, sk[1], sk[2])]
  BY <1>1
<1>4. ASSUME NEW sk \in Sections \X Keys
      PROVE  read_profile_string(g, sk[1], sk[2])
               = IF sk = <<s, k>> THEN v ELSE read_profile_string(f, sk[1], sk[2])
  <2>1. PICK t \in Sections, l \in Keys : sk = <<t, l>>
    OBVIOUS
  <2>2. sk[1] = t /\ sk[2] = l
    BY <2>1
  <2>3. CASE sk = <<s, k>>
    <3>1. sk[1] = s /\ sk[2] = k
      BY <2>3
    <3> QED BY <2>3, <3>1
  <2>4. CASE sk # <<s, k>>
    BY <2>1, <2>2, <2>4
  <2> QED BY <2>3, <2>4
<1> QED BY <1>2, <1>3, <1>4

\* Line p of g is a pair for s and k, in a section of that name, and g has no
\* other pair that f did not have.
OnePair(f, g, up, p, s, k, v) ==
  /\ Grown(f, g, up)
  /\ p \in 1..Len(g) /\ g[p] = Pair(k, v)
  /\ HeaderOf(g, p) # 0 /\ g[HeaderOf(g, p)].name = s
  /\ \A j \in 1..Len(g) : g[j].kind = "pair" => j = p \/ \E i \in 1..Len(f) : up[i] = j

\* A new pair for a section and a key that had none is all that is new.
LEMMA OnePairMore ==
  ASSUME PrefixFree, NEW f \in Seq(Lines), NEW g \in Seq(Lines),
         NEW s \in Sections, NEW k \in Keys, NEW v \in Values, KeyHits(f, s, k) = {},
         NEW up, NEW p, OnePair(f, g, up, p, s, k, v)
  PROVE  Store(g) = [Store(f) EXCEPT ![<<s, k>>] = v]
<1> USE DEF OnePair
<1>1. Len(g) \in Nat /\ Pair(k, v).key = k /\ Pair(k, v).value = v /\ Pair(k, v).kind = "pair"
  BY FileLines, NewLines
<1>2. read_profile_string(g, s, k) = v
  <2> DEFINE B == KeyHits(g, s, k)
  <2>1. p \in B
    BY <1>1, HitIs
  <2>2. ASSUME NEW j \in B PROVE j = p
    <3>1. j \in 1..Len(g) /\ g[j].kind = "pair"
      BY HitIs
    <3>2. ASSUME NEW i \in 1..Len(f), up[i] = j PROVE FALSE
      BY <3>2, OldHits
    <3> QED BY <3>1, <3>2
  <2>3. read_profile_string(g, s, k) = IF B = {} THEN None ELSE g[Min(B)].value
    BY DEF read_profile_string
  <2> HIDE DEF B
  <2>4. B = {p}
    BY <2>1, <2>2
  <2>5. Min(B) = p
    BY <1>1, <2>4, MinIs
  <2> QED BY <1>1, <2>3, <2>4, <2>5
<1>3. ASSUME NEW t \in Sections, NEW l \in Keys, <<t, l>> # <<s, k>>
      PROVE  read_profile_string(g, t, l) = read_profile_string(f, t, l)
  <2>1. ASSUME NEW j \in KeyHits(g, t, l) PROVE \E i \in 1..Len(f) : up[i] = j
    <3>1. /\ j \in 1..Len(g) /\ g[j].kind = "pair" /\ g[j].key = l
          /\ g[HeaderOf(g, j)].name = t
      BY HitIs
    <3>2. j # p
      BY <1>1, <1>3, <3>1
    <3> QED BY <3>1, <3>2
  <2> QED BY <2>1, HitsMove
<1> QED BY <1>2, <1>3, StoresDiffer

-----------------------------------------------------------------------------
(* The three texts of write_profile_string                                  *)

\* A section that is not there: it and its pair are the last two lines, and
\* what is between them and the old lines is blank.
LEMMA SectionAtEnd ==
  ASSUME NEW f \in Seq(Lines), NEW s \in Sections, NEW k \in Keys, NEW v \in Values
  PROVE  LET g == NewSection(f, s, k, v)
             n == Len(g)
         IN  /\ g \in Seq(Lines) /\ n >= Len(f) + 2
             /\ \A i \in 1..Len(f) : g[i] = f[i]
             /\ \A i \in (Len(f) + 1)..(n - 2) : g[i].kind = "blank"
             /\ g[n - 1] = Section(s) /\ g[n] = Pair(k, v)
<1> DEFINE g == NewSection(f, s, k, v)
           n == Len(g)
           two == <<Section(s), Pair(k, v)>>
           gap == IF f = <<>> \/ noeol THEN <<>> ELSE <<Blank>>
           e == f \o gap
<1>1. Section(s) \in Lines /\ Pair(k, v) \in Lines /\ Blank \in Lines /\ Blank.kind = "blank"
  BY NewLines
<1>2. Len(f) \in Nat
  BY FileLines
<1>3. two \in Seq(Lines) /\ Len(two) = 2 /\ two[1] = Section(s) /\ two[2] = Pair(k, v)
  BY <1>1
<1>4. gap \in Seq(Lines) /\ Len(gap) \in Nat /\ \A i \in 1..Len(gap) : gap[i].kind = "blank"
  <2>1. CASE gap = <<>>
    BY <2>1
  <2>2. CASE gap = <<Blank>>
    <3>1. <<Blank>> \in Seq(Lines) /\ Len(<<Blank>>) = 1 /\ <<Blank>>[1] = Blank
      BY <1>1
    <3>2. \A i \in 1..1 : i = 1
      OBVIOUS
    <3> HIDE DEF gap
    <3> QED BY <1>1, <2>2, <3>1, <3>2
  <2> QED BY <2>1, <2>2
<1>5. g = e \o two
  BY DEF NewSection
<1> HIDE DEF two, gap
<1>6. /\ e \in Seq(Lines) /\ Len(e) = Len(f) + Len(gap)
      /\ \A i \in 1..(Len(f) + Len(gap)) : e[i] = IF i <= Len(f) THEN f[i] ELSE gap[i - Len(f)]
  BY <1>4, ConcatProperties
<1> HIDE DEF e
<1>7. /\ e \o two \in Seq(Lines) /\ Len(e \o two) = Len(e) + Len(two)
      /\ \A i \in 1..(Len(e) + Len(two)) :
            (e \o two)[i] = IF i <= Len(e) THEN e[i] ELSE two[i - Len(e)]
  <2>1. e \in Seq(Lines) /\ two \in Seq(Lines)
    BY <1>3, <1>6
  <2> QED BY ONLY <2>1, ConcatProperties
<1> HIDE DEF g
<1>8. Len(e) \in Nat
  BY <1>2, <1>4, <1>6
<1>9. /\ g \in Seq(Lines) /\ n = Len(e) + 2
      /\ \A i \in 1..(Len(e) + 2) : g[i] = IF i <= Len(e) THEN e[i] ELSE two[i - Len(e)]
  BY <1>3, <1>5, <1>7
<1> HIDE DEF n
<1>10. g[n - 1] = Section(s) /\ g[n] = Pair(k, v)
  <2>1. \A d \in 1..2 : /\ Len(e) + d \in 1..(Len(e) + 2) /\ ~(Len(e) + d <= Len(e))
                        /\ (Len(e) + d) - Len(e) = d
    BY <1>8
  <2>2. \A d \in 1..2 : g[Len(e) + d] = two[d]
    BY <1>9, <2>1
  <2>3. n - 1 = Len(e) + 1 /\ 1 \in 1..2 /\ 2 \in 1..2
    BY <1>8, <1>9
  <2> QED BY <1>3, <1>9, <2>2, <2>3
<1>11. ASSUME NEW i \in 1..Len(f) PROVE g[i] = f[i]
  <2>1. i <= Len(f) /\ i \in 1..(Len(f) + Len(gap))
    BY <1>2, <1>4
  <2>2. i <= Len(e) /\ i \in 1..(Len(e) + 2)
    BY <1>2, <1>4, <1>6
  <2>3. e[i] = f[i]
    BY <1>6, <2>1
  <2>4. g[i] = e[i]
    BY <1>9, <2>2
  <2> QED BY <2>3, <2>4
<1>12. ASSUME NEW i \in (Len(f) + 1)..(n - 2) PROVE g[i].kind = "blank"
  <2>1. /\ i \in 1..(Len(f) + Len(gap)) /\ i \in 1..(Len(e) + 2) /\ i <= Len(e)
        /\ ~(i <= Len(f)) /\ i - Len(f) \in 1..Len(gap)
    BY <1>2, <1>4, <1>6, <1>9
  <2>2. g[i] = gap[i - Len(f)]
    BY <1>6, <1>9, <2>1
  <2> QED BY <1>4, <2>1, <2>2
<1>13. n >= Len(f) + 2
  BY <1>2, <1>4, <1>6, <1>9
<1> QED BY <1>9, <1>10, <1>11, <1>12, <1>13 DEF g, n

\* InsertAt moves the lines from the place on down by one.
LEMMA InsertAtShifts ==
  ASSUME NEW f \in Seq(Lines), NEW e \in Lines, NEW p \in 1..(Len(f) + 1)
  PROVE  LET g == InsertAt(f, p, e)
         IN  /\ g \in Seq(Lines) /\ Len(g) = Len(f) + 1 /\ g[p] = e
             /\ \A i \in 1..Len(f) : g[IF i < p THEN i ELSE i + 1] = f[i]
<1> DEFINE a == SubSeq(f, 1, p - 1)
           b == SubSeq(f, p, Len(f))
           c == a \o <<e>>
           g == InsertAt(f, p, e)
<1>1. Len(f) \in Nat /\ p \in Int /\ p - 1 \in Int /\ 1 \in Int /\ Len(f) \in Int
      /\ \A i \in 1..Len(f) : f[i] \in Lines
  BY FileLines
<1>2. /\ a \in Seq(Lines) /\ Len(a) = p - 1
      /\ \A i \in 1..(p - 1) : a[i] = f[i]
  <2>1. \A i \in 1..(p - 1) : f[i] \in Lines
    BY <1>1
  <2>2. /\ a \in Seq(Lines) /\ Len(a) = IF 1 <= p - 1 THEN p - 1 - 1 + 1 ELSE 0
        /\ \A i \in 1..(p - 1 - 1 + 1) : a[i] = f[1 + i - 1]
    BY <1>1, <2>1, SubSeqProperties
  <2> HIDE DEF a
  <2> QED BY <1>1, <2>2
<1>3. /\ b \in Seq(Lines) /\ Len(b) = Len(f) - p + 1
      /\ \A i \in 1..(Len(f) - p + 1) : b[i] = f[p + i - 1]
  <2>1. \A i \in p..Len(f) : f[i] \in Lines
    BY <1>1
  <2>2. /\ b \in Seq(Lines) /\ Len(b) = IF p <= Len(f) THEN Len(f) - p + 1 ELSE 0
        /\ \A i \in 1..(Len(f) - p + 1) : b[i] = f[p + i - 1]
    BY <1>1, <2>1, SubSeqProperties
  <2> HIDE DEF b
  <2> QED BY <1>1, <2>2
<1> HIDE DEF a, b
<1>4. <<e>> \in Seq(Lines) /\ Len(<<e>>) = 1 /\ <<e>>[1] = e
  OBVIOUS
<1>5. /\ c \in Seq(Lines) /\ Len(c) = p /\ c[p] = e
      /\ \A i \in 1..(p - 1) : c[i] = f[i]
  <2>1. /\ c \in Seq(Lines) /\ Len(c) = Len(a) + 1
        /\ \A i \in 1..(Len(a) + 1) : c[i] = IF i <= Len(a) THEN a[i] ELSE <<e>>[i - Len(a)]
    BY <1>2, <1>4, ConcatProperties
  <2> HIDE DEF c
  <2>2. p - (p - 1) = 1 /\ ~(p <= p - 1) /\ p \in 1..p
    BY <1>1
  <2>3. Len(a) + 1 = p
    BY <1>1, <1>2
  <2>4. c[p] = <<e>>[1]
    BY <1>2, <2>1, <2>2, <2>3
  <2> QED BY <1>1, <1>2, <1>4, <2>1, <2>3, <2>4
<1> HIDE DEF c
<1>6. g = c \o b
  BY DEF InsertAt, a, b, c
<1>7. /\ g \in Seq(Lines) /\ Len(g) = Len(f) + 1
      /\ \A i \in 1..(Len(f) + 1) : g[i] = IF i <= p THEN c[i] ELSE b[i - p]
  <2>1. /\ c \o b \in Seq(Lines) /\ Len(c \o b) = Len(c) + Len(b)
        /\ \A i \in 1..(Len(c) + Len(b)) : (c \o b)[i] = IF i <= Len(c) THEN c[i] ELSE b[i - Len(c)]
    BY <1>3, <1>5, ConcatProperties
  <2>2. Len(c) + Len(b) = Len(f) + 1
    BY <1>1, <1>3, <1>5
  <2> QED BY <1>5, <1>6, <2>1, <2>2
<1> HIDE DEF g
<1>8. g[p] = e
  BY <1>1, <1>5, <1>7
<1>9. ASSUME NEW i \in 1..Len(f) PROVE g[IF i < p THEN i ELSE i + 1] = f[i]
  <2>1. CASE i < p
    BY <1>1, <1>5, <1>7, <2>1
  <2>2. CASE ~(i < p)
    <3>1. i + 1 \in 1..(Len(f) + 1) /\ ~(i + 1 <= p) /\ i + 1 - p \in 1..(Len(f) - p + 1)
          /\ p + (i + 1 - p) - 1 = i
      BY <1>1, <2>2
    <3>2. g[i + 1] = b[i + 1 - p]
      BY <1>7, <3>1
    <3>3. b[i + 1 - p] = f[p + (i + 1 - p) - 1]
      BY <1>3, <3>1
    <3> QED BY <2>2, <3>1, <3>2, <3>3
  <2> QED BY <2>1, <2>2
<1> QED BY <1>7, <1>8, <1>9 DEF g

\* SectionEnd is behind a header that matched, and only blanks are between.
LEMMA SectionEndPlace ==
  ASSUME NEW f \in Seq(Lines), NEW s \in Sections, SectionHits(f, s) # {}
  PROVE  \E h \in 1..Len(f) :
           /\ h \in SectionHits(f, s) /\ f[h].kind = "section"
           /\ SectionEnd(f, s) \in (h + 1)..(Len(f) + 1)
           /\ \A i \in (h + 1)..(SectionEnd(f, s) - 1) : f[i].kind = "blank"
<1> DEFINE H == SectionHits(f, s)
           h == Max(H)
           E == {i \in (h + 1)..(Len(f) + 1) : i = Len(f) + 1 \/ f[i].kind # "blank"}
<1>1. Len(f) \in Nat /\ DOMAIN f = 1..Len(f)
  BY FileLines
<1>2. H \in SUBSET (0..Len(f)) /\ H # {}
  BY <1>1 DEF SectionHits, Headers
<1>3. h \in H
  BY <1>1, <1>2, MaxIsGreatest
<1>4. h \in 1..Len(f) /\ f[h].kind = "section"
  BY <1>1, <1>3 DEF SectionHits, Headers
<1>5. SectionEnd(f, s) = Min(E)
  BY DEF SectionEnd
<1> HIDE DEF h, H
<1>6. E \in SUBSET Nat /\ Len(f) + 1 \in E
  BY <1>1, <1>4
<1>7. Min(E) \in E /\ \A y \in E : Min(E) <= y
  BY <1>6, MinIsLeast
<1>8. ASSUME NEW i \in (h + 1)..(Min(E) - 1) PROVE f[i].kind = "blank"
  <2>1. Min(E) \in (h + 1)..(Len(f) + 1)
    BY <1>7
  <2>2. ~(Min(E) <= i) /\ i \in (h + 1)..(Len(f) + 1)
    BY <1>1, <1>4, <2>1
  <2>3. i \notin E
    BY <1>7, <2>2
  <2> QED BY <2>2, <2>3
<1>9. Min(E) \in (h + 1)..(Len(f) + 1)
  BY <1>7
<1> QED BY <1>3, <1>4, <1>5, <1>8, <1>9 DEF H

\* A key that is there: its first pair has the new value.
LEMMA ValueInPlace ==
  ASSUME NEW f \in Seq(Lines), NEW s \in Sections, NEW k \in Keys, NEW v \in Values,
         KeyHits(f, s, k) # {}
  PROVE  LET g == [f EXCEPT ![Min(KeyHits(f, s, k))].value = v]
             m == Min(KeyHits(f, s, k))
         IN  /\ g \in Seq(Lines) /\ Len(g) = Len(f)
             /\ m \in 1..Len(f) /\ m \in KeyHits(f, s, k)
             /\ f[m].kind = "pair" /\ g[m] = Pair(f[m].key, v)
             /\ \A i \in 1..Len(f) : i # m => g[i] = f[i]
<1> DEFINE m == Min(KeyHits(f, s, k))
           g == [f EXCEPT ![m].value = v]
<1>1. Len(f) \in Nat /\ DOMAIN f = 1..Len(f) /\ \A i \in 1..Len(f) : f[i] \in Lines
  BY FileLines
<1>2. m \in KeyHits(f, s, k)
  <2>1. KeyHits(f, s, k) \in SUBSET Nat
    BY <1>1 DEF KeyHits
  <2> QED BY <2>1, MinIsLeast
<1>3. m \in 1..Len(f) /\ f[m].kind = "pair"
  BY <1>1, <1>2 DEF KeyHits
<1>4. g = [f EXCEPT ![m].value = v]
  OBVIOUS
<1> HIDE DEF g, m
<1>5. f[m].key \in Keys /\ f[m] = Pair(f[m].key, f[m].value)
  BY <1>1, <1>3, LineParts
<1>6. g = [f EXCEPT ![m] = Pair(f[m].key, v)]
  <2>1. [f[m] EXCEPT !.value = v] = Pair(f[m].key, v)
    BY <1>5 DEF Pair
  <2> QED BY <1>4, <2>1
<1>7. Pair(f[m].key, v) \in Lines
  BY <1>5 DEF Lines, HandLines
<1>8. g \in Seq(Lines) /\ Len(g) = Len(f)
  BY <1>3, <1>6, <1>7, ExceptSeq
<1>9. g[m] = Pair(f[m].key, v) /\ \A i \in 1..Len(f) : i # m => g[i] = f[i]
  BY <1>1, <1>3, <1>6
<1> QED BY <1>2, <1>3, <1>8, <1>9 DEF g, m

-----------------------------------------------------------------------------
(* Files with the same headers and keys                                     *)

Alike(f, g) ==
  /\ Len(g) = Len(f)
  /\ \A i \in 1..Len(f) :
        /\ g[i].kind = f[i].kind
        /\ f[i].kind = "section" => g[i].name = f[i].name
        /\ f[i].kind = "pair" => g[i].key = f[i].key

\* In files that are alike the same lines are hit.
LEMMA AlikeHits ==
  ASSUME PrefixFree, NEW f \in Seq(Lines), NEW g \in Seq(Lines), Alike(f, g),
         NEW t \in Sections, NEW l \in Keys
  PROVE  KeyHits(g, t, l) = KeyHits(f, t, l)
<1>1. g \in Seq(Lines) /\ Len(g) = Len(f)
  BY DEF Alike
<1>2. Len(f) \in Nat /\ DOMAIN f = 1..Len(f)
  BY FileLines
<1>5. \A i \in 1..Len(f) : /\ g[i].kind = f[i].kind
                           /\ f[i].kind = "section" => g[i].name = f[i].name
                           /\ f[i].kind = "pair" => g[i].key = f[i].key
  BY DEF Alike
<1>6. ASSUME NEW i \in 1..Len(f) PROVE HeaderOf(g, i) = HeaderOf(f, i)
  <2> DEFINE h == HeaderOf(f, i)
  <2>1. /\ h \in 0..(i - 1)
        /\ h # 0 => f[h].kind = "section"
        /\ \A j \in 1..(i - 1) : f[j].kind = "section" => j <= h
    BY HeaderIsLast
  <2> HIDE DEF h
  <2>2. \A j \in 1..(i - 1) : j \in 1..Len(f)
    BY <1>2
  <2>3. h # 0 => h \in 1..Len(f)
    BY <1>2, <2>1
  <2>4. h # 0 => g[h].kind = "section"
    BY <1>5, <2>1, <2>3
  <2>5. \A j \in 1..(i - 1) : g[j].kind = "section" => j <= h
    BY <1>5, <2>1, <2>2
  <2>6. g \in Seq(Lines) /\ i \in 1..Len(g)
    BY <1>1
  <2>7. HeaderOf(g, i) = h
    BY ONLY <2>1, <2>4, <2>5, <2>6, LastIsHeader
  <2> QED BY <2>7 DEF h
<1>7. KeyHits(g, t, l) = KeyHits(f, t, l)
  <2>1. ASSUME NEW i \in 1..Len(f) PROVE i \in KeyHits(g, t, l) <=> i \in KeyHits(f, t, l)
    <3> DEFINE h == HeaderOf(f, i)
    <3>1. h \in 0..(i - 1) /\ (h # 0 => f[h].kind = "section")
      BY HeaderIsLast
    <3>2. HeaderOf(g, i) = h
      BY <1>6
    <3>3. i \in KeyHits(f, t, l) <=> /\ f[i].kind = "pair" /\ f[i].key = l
                                     /\ h # 0 /\ f[h].name = t
      BY HitIs
    <3>4. i \in KeyHits(g, t, l) <=> /\ g[i].kind = "pair" /\ g[i].key = l
                                     /\ h # 0 /\ g[h].name = t
      BY <1>1, <3>2, HitIs
    <3> HIDE DEF h
    <3>5. h # 0 => h \in 1..Len(f)
      BY <1>2, <3>1
    <3> QED BY <1>5, <3>1, <3>3, <3>4, <3>5
  <2>2. KeyHits(g, t, l) \in SUBSET (1..Len(f)) /\ KeyHits(f, t, l) \in SUBSET (1..Len(f))
    BY <1>1, FileLines DEF KeyHits
  <2> QED BY <2>1, <2>2
<1> QED BY <1>7

\* With the same pairs besides, they answer alike.
LEMMA AlikeStores ==
  ASSUME PrefixFree, NEW f \in Seq(Lines), NEW g \in Seq(Lines), Alike(f, g),
         \A i \in 1..Len(f) : f[i].kind = "pair" => g[i] = f[i]
  PROVE  Store(g) = Store(f)
<1>1. ASSUME NEW t \in Sections, NEW l \in Keys
      PROVE  read_profile_string(g, t, l) = read_profile_string(f, t, l)
  <2> DEFINE A == KeyHits(f, t, l)
  <2>1. read_profile_string(f, t, l) = IF A = {} THEN None ELSE f[Min(A)].value
    BY DEF read_profile_string
  <2>2. KeyHits(g, t, l) = A
    BY AlikeHits
  <2>3. read_profile_string(g, t, l) = IF A = {} THEN None ELSE g[Min(A)].value
    BY <2>2 DEF read_profile_string
  <2>4. CASE A = {}
    BY <2>1, <2>3, <2>4
  <2>5. CASE A # {}
    <3>1. A \in SUBSET Nat
      BY FileLines DEF KeyHits
    <3>2. Min(A) \in A
      BY <2>5, <3>1, MinIsLeast
    <3>3. Min(A) \in 1..Len(f) /\ f[Min(A)].kind = "pair"
      BY <3>2, HitIs
    <3> HIDE DEF A
    <3> QED BY <2>1, <2>3, <3>3
  <2> QED BY <2>4, <2>5
<1> QED BY <1>1 DEF Store

\* What is printed around a new key: every line as it was, but for a '%' behind
\* the header, and a header without a newline.
LEMMA FormattedLines ==
  ASSUME NEW f \in Seq(Lines), NEW s \in Sections, SectionHits(f, s) # {},
         NEW to \in Expansions(f, s)
  PROVE  LET g == Formatted(f, s, to)
         IN  /\ g \in Seq(Lines) /\ Alike(f, g)
             /\ Marks(f, s) = {} => \A i \in 1..Len(f) : f[i].kind = "pair" => g[i] = f[i]
             /\ \A i \in 1..Len(f) :
                   \/ g[i] = f[i] \/ Spoils(f[i], g[i])
                   \/ /\ noeol /\ i = Len(f)
                      /\ f[i].kind = "section" /\ g[i] = Joined(f[i])
<1> DEFINE g == Formatted(f, s, to)
           M == Marks(f, s)
           Same(i) == g[i] = f[i]
           Marked(i) == f[i].kind = "pair" /\ f[i].value \in Percents /\ i \in M
                          /\ to[i] \in Values /\ g[i] = Pair(f[i].key, to[i])
           Spoilt(i) == f[i] = Comment("percent") /\ g[i] = Comment("spoiled")
           Header(i) == noeol /\ i = Len(f) /\ f[i].kind = "section" /\ g[i] = Joined(f[i])
<1>1. Len(f) \in Nat /\ DOMAIN f = 1..Len(f) /\ \A i \in 1..Len(f) : f[i] \in Lines
  BY FileLines
<1>2. ASSUME NEW i \in M
      PROVE  f[i].kind = "pair" /\ f[i].value \in Percents /\ to[i] \in Values
  BY <1>2 DEF Marks, Expansions
<1>3. ASSUME NEW i \in SectionHits(f, s) PROVE f[i].kind = "section"
  BY <1>3 DEF SectionHits, Headers
<1>4. g = [i \in 1..Len(f) |->
             IF i \in M THEN Pair(f[i].key, to[i])
             ELSE IF i >= SectionEnd(f, s) /\ f[i] = Comment("percent") THEN Comment("spoiled")
             ELSE IF i = Len(f) /\ i \in SectionHits(f, s) /\ noeol THEN Joined(f[i])
             ELSE f[i]]
  BY <1>1 DEF Formatted
<1> HIDE DEF g, M
<1>5. ASSUME NEW i \in 1..Len(f)
      PROVE  Same(i) \/ Marked(i) \/ Spoilt(i) \/ Header(i)
  <2>1. CASE i \in M
    <3>1. g[i] = Pair(f[i].key, to[i])
      BY <1>4, <2>1
    <3> QED BY <1>2, <2>1, <3>1
  <2>2. CASE i \notin M /\ i >= SectionEnd(f, s) /\ f[i] = Comment("percent")
    BY <1>4, <2>2
  <2>3. CASE i \notin M /\ ~(i >= SectionEnd(f, s) /\ f[i] = Comment("percent"))
    <3>1. CASE i = Len(f) /\ i \in SectionHits(f, s) /\ noeol
      <4>1. g[i] = Joined(f[i])
        BY <1>4, <2>3, <3>1
      <4> QED BY <1>3, <3>1, <4>1
    <3>2. CASE ~(i = Len(f) /\ i \in SectionHits(f, s) /\ noeol)
      BY <1>4, <2>3, <3>2
    <3> QED BY <3>1, <3>2
  <2> QED BY <2>1, <2>2, <2>3
<1>6. ASSUME NEW i \in 1..Len(f)
      PROVE  /\ g[i] \in Lines /\ g[i].kind = f[i].kind
             /\ f[i].kind = "section" => g[i].name = f[i].name
             /\ f[i].kind = "pair" => g[i].key = f[i].key
             /\ M = {} => (f[i].kind = "pair" => g[i] = f[i])
             /\ g[i] = f[i] \/ Spoils(f[i], g[i]) \/ Header(i)
  <2> DEFINE a == f[i]
             b == g[i]
  <2>1. a \in Lines
    BY <1>1
  <2>2. CASE Same(i)
    BY <2>1, <2>2
  <2>3. CASE Marked(i)
    <3>1. a.key \in Keys
      BY <2>1, <2>3, LineParts
    <3>2. b \in Lines
      BY <2>3, <3>1 DEF Lines, HandLines
    <3>3. b.kind = "pair" /\ b.key = a.key
      BY <2>3 DEF Pair
    <3>4. Spoils(a, b)
      BY <2>3, <3>3 DEF Spoils
    <3> QED BY <2>3, <3>2, <3>3, <3>4
  <2>4. CASE Spoilt(i)
    <3>1. b \in Lines
      BY <2>4 DEF Lines
    <3>2. a.kind = "comment" /\ b.kind = "comment"
      BY <2>4 DEF Comment
    <3>3. Spoils(a, b)
      BY <2>4 DEF Spoils
    <3> QED BY <3>1, <3>2, <3>3
  <2>5. CASE Header(i)
    BY <2>1, <2>5, JoinedLine
  <2> QED BY <1>5, <2>2, <2>3, <2>4, <2>5
<1>7. g \in Seq(Lines) /\ Len(g) = Len(f)
  <2>1. g \in [1..Len(f) -> Lines]
    <3>1. \A i \in 1..Len(f) : g[i] \in Lines
      BY <1>6
    <3>2. DOMAIN g = 1..Len(f) /\ g = [i \in DOMAIN g |-> g[i]]
      BY <1>4
    <3> QED BY <3>1, <3>2
  <2> QED BY <1>1, <2>1
<1>8. Alike(f, g)
  BY <1>6, <1>7 DEF Alike
<1> QED BY <1>6, <1>7, <1>8 DEF g, M

-----------------------------------------------------------------------------
(* What is read after each of them                                          *)

\* A new section at the end.
LEMMA NewSectionIsExact ==
  ASSUME PrefixFree, NEW f \in Seq(Lines),
         NEW s \in Sections, NEW k \in Keys, NEW v \in Values, SectionHits(f, s) = {}
  PROVE  Store(NewSection(f, s, k, v)) = [Store(f) EXCEPT ![<<s, k>>] = v]
<1> DEFINE g == NewSection(f, s, k, v)
           n == Len(g)
           up == [i \in 0..Len(f) |-> i]
<1>1. /\ g \in Seq(Lines) /\ n >= Len(f) + 2
      /\ \A i \in 1..Len(f) : g[i] = f[i]
      /\ \A i \in (Len(f) + 1)..(n - 2) : g[i].kind = "blank"
      /\ g[n - 1] = Section(s) /\ g[n] = Pair(k, v)
  BY SectionAtEnd
<1> HIDE DEF g
<1>2. Len(f) \in Nat /\ n \in Nat
  BY <1>1, FileLines
<1> HIDE DEF n
<1>3. /\ Section(s).kind = "section" /\ Section(s).name = s
      /\ Pair(k, v).kind = "pair"
  BY NewLines
<1>4. \A j \in 1..n : j \in 1..Len(f) \/ j \in (Len(f) + 1)..(n - 2) \/ j = n - 1 \/ j = n
  BY <1>1, <1>2
<1>5. Grown(f, g, up)
  <2>1. up \in [0..Len(f) -> 0..n] /\ up[0] = 0 /\ \A i \in 0..Len(f) : up[i] = i
    BY <1>1, <1>2
  <2>2. \A i \in 1..Len(f) : up[i] = i
    BY <1>2, <2>1
  <2> HIDE DEF up
  <2>3. \A i, j \in 0..Len(f) : i < j => up[i] < up[j]
    BY <2>1
  <2>4. \A i \in 1..Len(f) : g[up[i]] = f[i]
    BY <1>1, <2>2
  <2>5. ASSUME NEW j \in 1..n, g[j].kind = "section"
        PROVE  (\E i \in 1..Len(f) : up[i] = j) \/ (\A i \in 1..Len(f) : up[i] < j)
    <3>1. CASE j \in 1..Len(f)
      BY <2>2, <3>1
    <3>2. CASE j \notin 1..Len(f)
      BY <1>2, <2>2, <3>2
    <3> QED BY <3>1, <3>2
  <2> QED BY <2>1, <2>3, <2>4, <2>5 DEF Grown, n
<1>6. HeaderOf(g, n) = n - 1
  <2>1. n \in 1..Len(g) /\ n - 1 \in 0..(n - 1)
    BY <1>1, <1>2 DEF n
  <2>2. \A j \in 1..(n - 1) : j <= n - 1
    BY <1>2
  <2> QED BY <1>1, <1>3, <2>1, <2>2, LastIsHeader
<1>7. KeyHits(f, s, k) = {}
  BY DEF KeyHits
<1>8. ASSUME NEW j \in 1..n, g[j].kind = "pair"
      PROVE  j = n \/ \E i \in 1..Len(f) : up[i] = j
  <2>1. j \in 1..Len(f) \/ j = n
    BY <1>1, <1>3, <1>4, <1>8
  <2>2. j \in 1..Len(f) => up[j] = j
    BY <1>2
  <2> QED BY <2>1, <2>2
<1>9. n \in 1..Len(g) /\ HeaderOf(g, n) # 0 /\ g[HeaderOf(g, n)].name = s
  BY <1>1, <1>2, <1>3, <1>6 DEF n
<1> HIDE DEF up
<1>10. \A j \in 1..Len(g) : g[j].kind = "pair" => j = n \/ \E i \in 1..Len(f) : up[i] = j
  BY <1>8 DEF n
<1>11. g \in Seq(Lines) /\ g[n] = Pair(k, v)
  BY <1>1
<1>12. OnePair(f, g, up, n, s, k, v)
  BY <1>5, <1>9, <1>10, <1>11 DEF OnePair
<1>13. Store(g) = [Store(f) EXCEPT ![<<s, k>>] = v]
  BY <1>7, <1>11, <1>12, OnePairMore
<1> QED BY <1>13 DEF g

\* Line p is behind a header of section s and the blanks after it.
Behind(f, s, h, p) ==
  /\ h \in 1..Len(f) /\ f[h].kind = "section" /\ f[h].name = s
  /\ p \in (h + 1)..(Len(f) + 1) /\ \A i \in (h + 1)..(p - 1) : f[i].kind = "blank"

\* A new pair there is all that is new.
LEMMA PairBehindHeader ==
  ASSUME PrefixFree, NEW f \in Seq(Lines),
         NEW s \in Sections, NEW k \in Keys, NEW v \in Values, KeyHits(f, s, k) = {},
         NEW h, NEW p, Behind(f, s, h, p)
  PROVE  Store(InsertAt(f, p, Pair(k, v))) = [Store(f) EXCEPT ![<<s, k>>] = v]
<1> DEFINE g == InsertAt(f, p, Pair(k, v))
           up == [i \in 0..Len(f) |-> IF i < p THEN i ELSE i + 1]
<1>1. /\ h \in 1..Len(f) /\ f[h].kind = "section" /\ f[h].name = s
      /\ p \in (h + 1)..(Len(f) + 1) /\ \A i \in (h + 1)..(p - 1) : f[i].kind = "blank"
  BY DEF Behind
<1>2. Pair(k, v) \in Lines /\ Pair(k, v).kind = "pair"
  BY NewLines
<1>3. g = InsertAt(f, p, Pair(k, v))
  OBVIOUS
<1> HIDE DEF g
<1>4. Len(f) \in Nat /\ p \in 1..(Len(f) + 1)
  BY <1>1, FileLines
<1>5. /\ g \in Seq(Lines) /\ Len(g) = Len(f) + 1 /\ g[p] = Pair(k, v)
      /\ \A i \in 1..Len(f) : g[IF i < p THEN i ELSE i + 1] = f[i]
  BY <1>2, <1>3, <1>4, InsertAtShifts
<1>6. /\ up \in [0..Len(f) -> 0..Len(g)] /\ up[0] = 0
      /\ \A i \in 0..Len(f) : up[i] = IF i < p THEN i ELSE i + 1
  BY <1>4, <1>5
<1> HIDE DEF up
<1>7. \A j \in 1..Len(g) : j = p \/ \E i \in 1..Len(f) : up[i] = j
  <2> SUFFICES ASSUME NEW j \in 1..Len(g), j # p PROVE \E i \in 1..Len(f) : up[i] = j
    OBVIOUS
  <2>1. CASE j < p
    <3>1. j \in 1..Len(f) /\ j \in 0..Len(f)
      BY <1>4, <1>5, <2>1
    <3> QED BY <1>6, <2>1, <3>1
  <2>2. CASE ~(j < p)
    <3>1. j - 1 \in 1..Len(f) /\ j - 1 \in 0..Len(f) /\ ~(j - 1 < p) /\ j - 1 + 1 = j
      BY <1>4, <1>5, <2>2
    <3>2. up[j - 1] = j
      BY <1>6, <3>1
    <3> QED BY <3>1, <3>2
  <2> QED BY <2>1, <2>2
<1>8. Grown(f, g, up)
  <2>1. \A i, j \in 0..Len(f) : i < j => up[i] < up[j]
    BY <1>4, <1>6
  <2>2. ASSUME NEW i \in 1..Len(f) PROVE g[up[i]] = f[i]
    <3>1. up[i] = IF i < p THEN i ELSE i + 1
      BY <1>4, <1>6
    <3> QED BY <1>5, <3>1
  <2>3. ASSUME NEW j \in 1..Len(g), g[j].kind = "section"
        PROVE  \E i \in 1..Len(f) : up[i] = j
    BY <1>2, <1>5, <1>7, <2>3
  <2> QED BY <1>6, <2>1, <2>2, <2>3 DEF Grown
<1>9. \A j \in 1..(p - 1) : j \in 1..Len(f) /\ g[j] = f[j]
  BY <1>4, <1>5
<1>10. p \in 1..Len(g) /\ h \in 0..(p - 1) /\ h \in 1..(p - 1)
  BY <1>1, <1>4, <1>5
<1>11. HeaderOf(g, p) = h
  <2>1. g[h].kind = "section"
    BY <1>1, <1>9, <1>10
  <2>2. ASSUME NEW j \in 1..(p - 1), g[j].kind = "section" PROVE j <= h
    <3>1. f[j].kind = "section"
      BY <1>9, <2>2
    <3>2. j \notin (h + 1)..(p - 1)
      BY <1>1, <3>1
    <3> QED BY <1>4, <1>10, <3>2
  <2> QED BY <1>5, <1>10, <2>1, <2>2, LastIsHeader
<1>12. g[h].name = s
  BY <1>1, <1>9, <1>10
<1>13. HeaderOf(g, p) # 0 /\ g[HeaderOf(g, p)].name = s
  BY <1>10, <1>11, <1>12
<1>14. \A j \in 1..Len(g) : g[j].kind = "pair" => j = p \/ \E i \in 1..Len(f) : up[i] = j
  BY <1>7
<1>15. g \in Seq(Lines) /\ g[p] = Pair(k, v) /\ p \in 1..Len(g)
  BY <1>5, <1>10
<1>16. OnePair(f, g, up, p, s, k, v)
  BY <1>8, <1>13, <1>14, <1>15 DEF OnePair
<1>17. Store(g) = [Store(f) EXCEPT ![<<s, k>>] = v]
  BY <1>15, <1>16, OnePairMore
<1> QED BY <1>17 DEF g

\* A new key behind the header of its section, with no '%' in a value behind it.
LEMMA NewKeyIsExact ==
  ASSUME PrefixFree, NEW f \in Seq(Lines),
         NEW s \in Sections, NEW k \in Keys, NEW v \in Values,
         SectionHits(f, s) # {}, KeyHits(f, s, k) = {},
         Marks(f, s) = {}, NEW to \in Expansions(f, s)
  PROVE  Store(InsertAt(Formatted(f, s, to), SectionEnd(f, s), Pair(k, v)))
           = [Store(f) EXCEPT ![<<s, k>>] = v]
<1> DEFINE g == Formatted(f, s, to)
           p == SectionEnd(f, s)
<1>1. PICK h \in 1..Len(f) :
           /\ h \in SectionHits(f, s) /\ f[h].kind = "section"
           /\ p \in (h + 1)..(Len(f) + 1)
           /\ \A i \in (h + 1)..(p - 1) : f[i].kind = "blank"
  BY SectionEndPlace
<1>2. /\ g \in Seq(Lines) /\ Alike(f, g)
      /\ \A i \in 1..Len(f) : f[i].kind = "pair" => g[i] = f[i]
  BY FormattedLines
<1> HIDE DEF g, p
<1>3. Store(g) = Store(f)
  BY <1>2, AlikeStores
<1>4. KeyHits(g, s, k) = {}
  BY <1>2, AlikeHits
<1>5. /\ Len(g) = Len(f) /\ Len(f) \in Nat
      /\ \A i \in 1..Len(f) :
            /\ g[i].kind = f[i].kind
            /\ f[i].kind = "section" => g[i].name = f[i].name
  BY <1>2, FileLines DEF Alike
<1>6. f[h].name = s
  <2>1. f[h] \in Lines
    BY FileLines
  <2>2. f[h].name \in Sections /\ Matches(f[h].name, s)
    BY <1>1, <2>1, LineParts DEF SectionHits
  <2> QED BY <2>2, MatchesItself
<1>7. g[h].kind = "section" /\ g[h].name = s /\ h \in 1..Len(g) /\ p \in (h + 1)..(Len(g) + 1)
  BY <1>1, <1>5, <1>6
<1>8. ASSUME NEW i \in (h + 1)..(p - 1) PROVE g[i].kind = "blank"
  <2>1. i \in 1..Len(f)
    BY <1>1, <1>5
  <2> QED BY <1>1, <1>5, <2>1
<1>9. Store(InsertAt(g, p, Pair(k, v))) = [Store(g) EXCEPT ![<<s, k>>] = v]
  <2>1. Behind(g, s, h, p)
    BY <1>7, <1>8 DEF Behind
  <2> QED BY <1>2, <1>4, <2>1, PairBehindHeader
<1> QED BY <1>3, <1>9 DEF g, p

\* The value in place.
LEMMA NewValueIsExact ==
  ASSUME PrefixFree, NEW f \in Seq(Lines),
         NEW s \in Sections, NEW k \in Keys, NEW v \in Values,
         KeyHits(f, s, k) # {}
  PROVE  Store([f EXCEPT ![Min(KeyHits(f, s, k))].value = v])
           = [Store(f) EXCEPT ![<<s, k>>] = v]
<1> DEFINE m == Min(KeyHits(f, s, k))
           g == [f EXCEPT ![m].value = v]
<1>1. /\ g \in Seq(Lines) /\ Len(g) = Len(f)
      /\ m \in 1..Len(f) /\ m \in KeyHits(f, s, k)
      /\ f[m].kind = "pair" /\ g[m] = Pair(f[m].key, v)
      /\ \A i \in 1..Len(f) : i # m => g[i] = f[i]
  BY ValueInPlace
<1> HIDE DEF g
<1>2. Len(f) \in Nat /\ DOMAIN f = 1..Len(f)
  BY FileLines
<1>3. f[m].key = k
  BY <1>1, HitIs
<1>4. g[m].kind = "pair" /\ g[m].key = k /\ g[m].value = v
  BY <1>1, <1>3, NewLines
<1> HIDE DEF m
<1>5. Alike(f, g)
  BY <1>1, <1>3, <1>4 DEF Alike
<1>7. ASSUME NEW t \in Sections, NEW l \in Keys PROVE KeyHits(g, t, l) = KeyHits(f, t, l)
  BY <1>1, <1>5, AlikeHits
<1>8. read_profile_string(g, s, k) = v
  <2>1. KeyHits(g, s, k) # {} /\ Min(KeyHits(g, s, k)) = m
    BY <1>1, <1>7 DEF m
  <2> QED BY <1>4, <2>1 DEF read_profile_string
<1>9. ASSUME NEW t \in Sections, NEW l \in Keys, <<t, l>> # <<s, k>>
      PROVE  read_profile_string(g, t, l) = read_profile_string(f, t, l)
  <2> DEFINE A == KeyHits(f, t, l)
  <2>1. read_profile_string(f, t, l) = IF A = {} THEN None ELSE f[Min(A)].value
    BY DEF read_profile_string
  <2>2. read_profile_string(g, t, l) = IF A = {} THEN None ELSE g[Min(A)].value
    BY <1>7 DEF read_profile_string
  <2>3. CASE A = {}
    BY <2>1, <2>2, <2>3
  <2>4. CASE A # {}
    <3>1. A \in SUBSET Nat
      BY FileLines DEF KeyHits
    <3>2. Min(A) \in A
      BY <2>4, <3>1, MinIsLeast
    <3>3. m \notin A
      <4>1. f[HeaderOf(f, m)].name = s
        BY <1>1, HitIs
      <4>2. m \in A => f[m].key = l /\ f[HeaderOf(f, m)].name = t
        BY HitIs
      <4> QED BY <1>3, <1>9, <4>1, <4>2
    <3>4. Min(A) \in 1..Len(f) /\ Min(A) # m
      BY <3>2, <3>3, HitIs
    <3> HIDE DEF A
    <3> QED BY <1>1, <2>1, <2>2, <3>4
  <2> QED BY <2>3, <2>4
<1>10. Store(g) = [Store(f) EXCEPT ![<<s, k>>] = v]
  BY <1>8, <1>9, StoresDiffer
<1> QED BY <1>10 DEF g, m

-----------------------------------------------------------------------------
(* The theorems                                                             *)

\* Every text is a file.
LEMMA NewTextIsFile ==
  ASSUME NEW f \in Seq(Lines), NEW s \in Sections, NEW k \in Keys, NEW v \in Values,
         NEW to \in Expansions(f, s)
  PROVE  NewText(f, s, k, v, to) \in Seq(Lines)
<1>1. CASE SectionHits(f, s) = {}
  BY <1>1, SectionAtEnd DEF NewText
<1>2. CASE SectionHits(f, s) # {} /\ KeyHits(f, s, k) = {}
  <2> DEFINE g == Formatted(f, s, to)
  <2>1. NewText(f, s, k, v, to) = InsertAt(g, SectionEnd(f, s), Pair(k, v))
    BY <1>2 DEF NewText
  <2>2. g \in Seq(Lines) /\ Len(g) = Len(f)
    BY <1>2, FormattedLines DEF Alike
  <2>3. SectionEnd(f, s) \in 1..(Len(f) + 1)
    <3>1. PICK h \in 1..Len(f) : SectionEnd(f, s) \in (h + 1)..(Len(f) + 1)
      BY <1>2, SectionEndPlace
    <3> QED BY <3>1, FileLines
  <2>4. Pair(k, v) \in Lines
    BY NewLines
  <2> HIDE DEF g
  <2> QED BY <2>1, <2>2, <2>3, <2>4, InsertAtShifts
<1>3. CASE SectionHits(f, s) # {} /\ KeyHits(f, s, k) # {}
  BY <1>3, ValueInPlace DEF NewText
<1> QED BY <1>1, <1>2, <1>3

\* The file is lines at all times, whatever is written and wherever it dies.
THEOREM TypeCorrect == Spec => []TypeOK
<1>1. Init => TypeOK
  <2> SUFFICES ASSUME Init PROVE TypeOK
    OBVIOUS
  <2>1. file \in Seq(HandLines) /\ noeol \in BOOLEAN
    BY InitialLinesAssumption DEF Init, BoundedSeq, SeqOf
  <2>2. Seq(HandLines) \subseteq Seq(Lines)
    BY DEF Lines
  <2> QED BY <2>1, <2>2 DEF TypeOK
<1>2. TypeOK /\ [Next]_vars => TypeOK'
  <2> SUFFICES ASSUME TypeOK, [Next]_vars PROVE TypeOK'
    OBVIOUS
  <2>1. ASSUME NEW s \in Sections, NEW k \in Keys, NEW v \in Values,
               write_profile_string(s, k, v)
        PROVE  TypeOK'
    <3>1. file \in Seq(Lines)
      BY DEF TypeOK
    <3>2. PICK to \in Expansions(file, s) : file' = NewText(file, s, k, v, to)
      BY <2>1 DEF write_profile_string
    <3>3. file' \in Seq(Lines)
      BY <3>1, <3>2, NewTextIsFile
    <3>4. noeol' \in BOOLEAN
      BY <2>1 DEF write_profile_string
    <3> QED BY <3>3, <3>4 DEF TypeOK
  <2>2. ASSUME WriteDies PROVE TypeOK'
    <3>1. file' = <<>> /\ noeol' \in BOOLEAN
      BY <2>2 DEF WriteDies
    <3>2. <<>> \in Seq(Lines)
      OBVIOUS
    <3> QED BY <3>1, <3>2 DEF TypeOK
  <2>3. ASSUME UNCHANGED vars PROVE TypeOK'
    BY <2>3 DEF vars, TypeOK
  <2> QED BY <2>1, <2>2, <2>3 DEF Next
<1> QED BY <1>1, <1>2, PTL DEF Spec

\* For any sections, keys and values and files of any length, with or without a
\* last newline: what write_profile_string writes is what read_profile_string
\* reads for that section and key, and what it reads for any other is as before,
\* where no name begins with another and no value that sprintf prints holds a '%'.
THEOREM WritesAreExact == PrefixFree /\ Spec => []WriteIsExact
<1> SUFFICES ASSUME PrefixFree PROVE Spec => []WriteIsExact
  OBVIOUS
<1>1. ASSUME TypeOK PROVE WriteIsExact
  <2> SUFFICES ASSUME NEW s \in Sections, NEW k \in Keys,
                      KeyHits(file, s, k) # {} \/ Marks(file, s) = {},
                      NEW v \in Values, NEW to \in Expansions(file, s)
               PROVE  Store(NewText(file, s, k, v, to)) = [Store(file) EXCEPT ![<<s, k>>] = v]
    BY DEF WriteIsExact
  <2>1. file \in Seq(Lines)
    BY <1>1 DEF TypeOK
  <2>2. CASE SectionHits(file, s) = {}
    BY <2>1, <2>2, NewSectionIsExact DEF NewText
  <2>3. CASE SectionHits(file, s) # {} /\ KeyHits(file, s, k) = {}
    BY <2>1, <2>3, NewKeyIsExact DEF NewText
  <2>4. CASE SectionHits(file, s) # {} /\ KeyHits(file, s, k) # {}
    BY <2>1, <2>4, NewValueIsExact DEF NewText
  <2> QED BY <2>2, <2>3, <2>4
<1>2. TypeOK => WriteIsExact
  BY <1>1
<1> QED BY <1>2, TypeCorrect, PTL

\* Line i of f, where it is in g, after a rewrite with the old lines up to at in
\* their place and the value of line w rewritten.
Keeps(f, g, at, w, i) ==
  LET new == g[IF i <= at THEN i ELSE i + Len(g) - Len(f)]
  IN  \/ new = f[i]
      \/ i = w /\ f[i].kind = "pair" /\ new.kind = "pair" /\ new.key = f[i].key
      \/ Spoils(f[i], new)
      \/ /\ noeol /\ i = Len(f)
         /\ f[i].kind = "section" /\ new = Joined(f[i])

\* The lines of f as sprintf prints them.
Prints(f, d) ==
  \A i \in 1..Len(f) : \/ d[i] = f[i] \/ Spoils(f[i], d[i])
                       \/ /\ noeol /\ i = Len(f)
                          /\ f[i].kind = "section" /\ d[i] = Joined(f[i])

\* A new line among them moves those behind it, all by one.
LEMMA KeyStays ==
  ASSUME NEW f \in Seq(Lines), NEW d \in Seq(Lines), Len(d) = Len(f), Prints(f, d),
         NEW e \in Lines, NEW p \in 1..(Len(f) + 1)
  PROVE  LET g == InsertAt(d, p, e)
         IN  Len(g) = Len(f) + 1 /\ \A i \in 1..Len(f) : Keeps(f, g, p - 1, 0, i)
<1> DEFINE g == InsertAt(d, p, e)
<1>1. Len(f) \in Nat /\ p \in 1..(Len(d) + 1)
  BY FileLines
<1>2. /\ g \in Seq(Lines) /\ Len(g) = Len(d) + 1 /\ g[p] = e
      /\ \A i \in 1..Len(d) : g[IF i < p THEN i ELSE i + 1] = d[i]
  BY <1>1, InsertAtShifts
<1> HIDE DEF g
<1>3. Len(g) = Len(f) + 1
  BY <1>2
<1>4. ASSUME NEW i \in 1..Len(f) PROVE Keeps(f, g, p - 1, 0, i)
  <2>1. (IF i <= p - 1 THEN i ELSE i + Len(g) - Len(f)) = IF i < p THEN i ELSE i + 1
    BY <1>1, <1>3
  <2>2. g[IF i <= p - 1 THEN i ELSE i + Len(g) - Len(f)] = d[i]
    BY <1>2, <2>1
  <2> QED BY <2>2 DEF Keeps, Prints
<1> QED BY <1>3, <1>4 DEF g

\* The lines of a file that is rewritten are all there, in their order.
LEMMA LinesStay ==
  ASSUME NEW f \in Seq(Lines), NEW s \in Sections, NEW k \in Keys, NEW v \in Values,
         NEW to \in Expansions(f, s)
  PROVE  LET g == NewText(f, s, k, v, to)
         IN  /\ Len(g) >= Len(f)
             /\ \E at, w \in 0..Len(f) : \A i \in DOMAIN f : Keeps(f, g, at, w, i)
<1> DEFINE g == NewText(f, s, k, v, to)
           Kept(at, w) == \A i \in DOMAIN f : Keeps(f, g, at, w, i)
<1>1. Len(f) \in Nat /\ DOMAIN f = 1..Len(f) /\ g \in Seq(Lines) /\ Len(g) \in Nat
  BY FileLines, NewTextIsFile
<1>2. Len(f) \in 0..Len(f) /\ 0 \in 0..Len(f)
  BY <1>1
<1> HIDE DEF g
<1>3. ASSUME SectionHits(f, s) = {} PROVE Len(g) >= Len(f) /\ Kept(Len(f), 0)
  <2>1. g = NewSection(f, s, k, v)
    BY <1>3 DEF NewText, g
  <2>2. Len(g) >= Len(f) + 2 /\ \A i \in 1..Len(f) : g[i] = f[i]
    BY <2>1, SectionAtEnd
  <2>3. Len(g) >= Len(f)
    BY <1>1, <2>2
  <2>4. ASSUME NEW i \in 1..Len(f) PROVE Keeps(f, g, Len(f), 0, i)
    <3>1. i <= Len(f) /\ g[i] = f[i]
      BY <1>1, <2>2
    <3> QED BY <3>1 DEF Keeps
  <2> QED BY <1>1, <2>3, <2>4
<1>4. ASSUME SectionHits(f, s) # {}, KeyHits(f, s, k) = {}
      PROVE  Len(g) >= Len(f) /\ \E at \in 0..Len(f) : Kept(at, 0)
  <2> DEFINE p == SectionEnd(f, s)
             d == Formatted(f, s, to)
  <2>1. PICK h \in 1..Len(f) : p \in (h + 1)..(Len(f) + 1)
    BY <1>4, SectionEndPlace
  <2>2. g = InsertAt(d, p, Pair(k, v)) /\ Pair(k, v) \in Lines
    BY <1>4, NewLines DEF NewText, g
  <2>3. d \in Seq(Lines) /\ Len(d) = Len(f) /\ Prints(f, d)
    BY <1>4, FormattedLines DEF Alike, Prints
  <2> HIDE DEF p, d
  <2>4. p \in 1..(Len(f) + 1) /\ p - 1 \in 0..Len(f)
    BY <1>1, <2>1
  <2>5. Len(g) = Len(f) + 1 /\ \A i \in 1..Len(f) : Keeps(f, g, p - 1, 0, i)
    BY <2>2, <2>3, <2>4, KeyStays
  <2>6. Kept(p - 1, 0)
    BY <1>1, <2>5
  <2>7. Len(g) >= Len(f)
    BY <1>1, <2>5
  <2> HIDE DEF Kept
  <2> QED BY <2>4, <2>6, <2>7
<1>5. ASSUME SectionHits(f, s) # {}, KeyHits(f, s, k) # {}
      PROVE  Len(g) >= Len(f) /\ \E w \in 0..Len(f) : Kept(Len(f), w)
  <2> DEFINE m == Min(KeyHits(f, s, k))
  <2>1. g = [f EXCEPT ![m].value = v]
    BY <1>5 DEF NewText, g
  <2>2. /\ Len(g) = Len(f) /\ m \in 1..Len(f)
        /\ f[m].kind = "pair" /\ g[m] = Pair(f[m].key, v)
        /\ \A i \in 1..Len(f) : i # m => g[i] = f[i]
    <3> DEFINE G == [f EXCEPT ![Min(KeyHits(f, s, k))].value = v]
    <3>1. /\ G \in Seq(Lines) /\ Len(G) = Len(f)
          /\ m \in 1..Len(f) /\ m \in KeyHits(f, s, k)
          /\ f[m].kind = "pair" /\ G[m] = Pair(f[m].key, v)
          /\ \A i \in 1..Len(f) : i # m => G[i] = f[i]
      BY <1>5, ValueInPlace
    <3>2. g = G
      BY <2>1
    <3> HIDE DEF G, m
    <3> QED BY <3>1, <3>2
  <2> HIDE DEF m
  <2>3. g[m].kind = "pair" /\ g[m].key = f[m].key /\ m \in 0..Len(f) /\ Len(g) >= Len(f)
    BY <1>1, <2>2 DEF Pair
  <2>4. ASSUME NEW i \in 1..Len(f) PROVE Keeps(f, g, Len(f), m, i)
    <3>1. i <= Len(f)
      BY <1>1
    <3>2. CASE i = m
      BY <2>2, <2>3, <3>1, <3>2 DEF Keeps
    <3>3. CASE i # m
      BY <2>2, <3>1, <3>3 DEF Keeps
    <3> QED BY <3>2, <3>3
  <2>5. Kept(Len(f), m)
    BY <1>1, <2>4
  <2> HIDE DEF Kept
  <2> QED BY <2>3, <2>5
<1> HIDE DEF Kept
<1>6. Len(g) >= Len(f) /\ \E at, w \in 0..Len(f) : Kept(at, w)
  BY <1>2, <1>3, <1>4, <1>5
<1> QED BY <1>6 DEF Kept, g

\* Whatever the names are, prefixes of one another or not: a rewrite takes out
\* and reorders nothing and changes one value, lines with a '%' behind a new key
\* and a last header without a newline aside, unless the process dies in it
\* (write_profile_string).
THEOREM RewritesKeepLines == Spec => RewriteKeepsLines
<1> DEFINE Kept == file' # <<>> => Len(file') >= Len(file) /\
              \E at, w \in 0..Len(file) : \A i \in DOMAIN file :
                 LET new == file'[IF i <= at THEN i ELSE i + Len(file') - Len(file)]
                 IN  \/ new = file[i]
                     \/ i = w /\ file[i].kind = "pair" /\ new.kind = "pair" /\ new.key = file[i].key
                     \/ Spoils(file[i], new)
                     \/ /\ noeol /\ i = Len(file)
                        /\ file[i].kind = "section" /\ new = Joined(file[i])
<1>1. TypeOK /\ [Next]_vars => [Kept]_vars
  <2> SUFFICES ASSUME TypeOK, Next PROVE Kept
    OBVIOUS
  <2>1. ASSUME NEW s \in Sections, NEW k \in Keys, NEW v \in Values,
               write_profile_string(s, k, v)
        PROVE  Kept
    <3>1. file \in Seq(Lines)
      BY DEF TypeOK
    <3>2. PICK to \in Expansions(file, s) : file' = NewText(file, s, k, v, to)
      BY <2>1 DEF write_profile_string
    <3> DEFINE g == file'
    <3>3. /\ Len(g) >= Len(file)
          /\ \E at, w \in 0..Len(file) : \A i \in DOMAIN file : Keeps(file, g, at, w, i)
      BY <3>1, <3>2, LinesStay
    <3> QED BY <3>3 DEF Keeps
  <2>2. ASSUME WriteDies PROVE Kept
    BY <2>2 DEF WriteDies
  <2> QED BY <2>1, <2>2 DEF Next
<1> QED BY <1>1, TypeCorrect, PTL DEF Spec, RewriteKeepsLines
=============================================================================
