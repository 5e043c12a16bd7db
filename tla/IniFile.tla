------------------------------ MODULE IniFile -------------------------------
(***************************************************************************)
(* read_profile_string and write_profile_string of                         *)
(* src/public/rwIni/ini_parser.cpp, and of astConfig                       *)
(* (src/public/astconfig.cpp), which is the same code as a class.          *)
(*                                                                         *)
(* A file is a sequence of lines: a section header, a pair, a blank or a   *)
(* comment.  parse_file compares names by strncmp with the length of the   *)
(* name in the FILE: a name in the file matches the name that is asked for *)
(* when it is a prefix of it.  Which names are prefixes of which others is *)
(* a parameter.  Values fit the caller's buffer, and the file fits w_buf.  *)
(*                                                                         *)
(* A new key is put behind the header of its section, and the rest of the  *)
(* file is printed behind it with sprintf as the FORMAT: what becomes of a *)
(* line with a '%' in it is not defined.  A header may be the last line    *)
(* and without a newline; then the new pair comes onto the header's line.  *)
(***************************************************************************)
EXTENDS Integers, SequencesExt

CONSTANTS Sections, Keys, Values,  \* what the program reads and writes
          Percents,                \* values with a '%' in them
          ProperPrefixes,          \* <<a, b>>: a is a proper prefix of b
          InitialLines,            \* length of a file somebody wrote by hand
          None                     \* no such value

ASSUME NoneAssumption == None \notin Values
ASSUME PercentsAssumption == Percents \subseteq Values
ASSUME InitialLinesAssumption == InitialLines \in Nat

VARIABLES file,
          noeol   \* the last line has no newline

vars == <<file, noeol>>

\* A header, with nothing or with a pair behind it on its line: the pair is the next line.
Section(s) == [kind |-> "section", name |-> s, joined |-> FALSE]
Joined(header) == [header EXCEPT !.joined = TRUE]
Pair(k, v) == [kind |-> "pair", key |-> k, value |-> v]
Blank == [kind |-> "blank"]
Comment(text) == [kind |-> "comment", text |-> text]   \* ';' in front

\* The lines of a file written by hand, and of one that was rewritten.
HandLines == {Section(s) : s \in Sections} \cup {Pair(k, v) : k \in Keys, v \in Values}
               \cup {Blank, Comment("plain"), Comment("percent")}
Lines == HandLines \cup {Joined(Section(s)) : s \in Sections} \cup {Comment("spoiled")}

TypeOK == file \in Seq(Lines) /\ noeol \in BOOLEAN

\* strncmp(asked, inFile, length of inFile) == 0
Matches(inFile, asked) == inFile = asked \/ <<inFile, asked>> \in ProperPrefixes

Headers(f) == {i \in DOMAIN f : f[i].kind = "section"}

\* The header of the section that line i is in, 0 for none.
HeaderOf(f, i) == Max({0} \cup {j \in 1..(i - 1) : f[j].kind = "section"})

(* parse_file: every section that matches is searched, in the order of the  *)
(* file, and the first pair that matches is taken.                          *)
SectionHits(f, s) == {i \in Headers(f) : Matches(f[i].name, s)}

KeyHits(f, s, k) ==
  LET hits == SectionHits(f, s)
  IN  {i \in DOMAIN f : /\ f[i].kind = "pair" /\ Matches(f[i].key, k)
                        /\ HeaderOf(f, i) \in hits}

read_profile_string(f, s, k) ==
  LET hits == KeyHits(f, s, k) IN IF hits = {} THEN None ELSE f[Min(hits)].value

\* sec_e: behind the last header that matched, and the blanks after it.
SectionEnd(f, s) ==
  LET h == Max(SectionHits(f, s))
  IN  Min({i \in (h + 1)..(Len(f) + 1) : i = Len(f) + 1 \/ f[i].kind # "blank"})

\* The pairs behind the header whose values hold a '%', and what sprintf may
\* make of those values.
Marks(f, s) ==
  IF SectionHits(f, s) = {} THEN {}
  ELSE {i \in SectionEnd(f, s)..Len(f) : f[i].kind = "pair" /\ f[i].value \in Percents}

Expansions(f, s) == [Marks(f, s) -> Values]

\* The file as it is printed around a new key of section s.
Formatted(f, s, to) ==
  LET marks == Marks(f, s)
      end == SectionEnd(f, s)
      hits == SectionHits(f, s)
  IN  [i \in DOMAIN f |->
         IF i \in marks THEN Pair(f[i].key, to[i])
         ELSE IF i >= end /\ f[i] = Comment("percent") THEN Comment("spoiled")
         ELSE IF i = Len(f) /\ i \in hits /\ noeol THEN Joined(f[i])
         ELSE f[i]]

\* A new section behind the last line, and behind a blank when that is complete.
NewSection(f, s, k, v) ==
  f \o (IF f = <<>> \/ noeol THEN <<>> ELSE <<Blank>>) \o <<Section(s), Pair(k, v)>>

\* A new key added at the end of the file; one written over the line behind
\* the header.
NewTextAppends(f, s, k, v, to) ==
  IF SectionHits(f, s) = {} THEN NewSection(f, s, k, v)
  ELSE IF KeyHits(f, s, k) = {} THEN Append(f, Pair(k, v))
  ELSE [f EXCEPT ![Min(KeyHits(f, s, k))].value = v]

NewTextOverwrites(f, s, k, v, to) ==
  IF SectionHits(f, s) = {} THEN NewSection(f, s, k, v)
  ELSE IF KeyHits(f, s, k) = {} /\ SectionEnd(f, s) \in DOMAIN f
  THEN [Formatted(f, s, to) EXCEPT ![SectionEnd(f, s)] = Pair(k, v)]
  ELSE IF KeyHits(f, s, k) = {} THEN Append(f, Pair(k, v))
  ELSE [f EXCEPT ![Min(KeyHits(f, s, k))].value = v]

(* The text write_profile_string puts together: a new section at the end, a *)
(* new key behind the header, or the value in place.                        *)
NewText(f, s, k, v, to) ==
  IF SectionHits(f, s) = {} THEN NewSection(f, s, k, v)
  ELSE IF KeyHits(f, s, k) = {}
  THEN InsertAt(Formatted(f, s, to), SectionEnd(f, s), Pair(k, v))
  ELSE [f EXCEPT ![Min(KeyHits(f, s, k))].value = v]

Init == /\ file \in BoundedSeq(HandLines, InitialLines)
        /\ noeol \in BOOLEAN
        /\ noeol => file # <<>> /\ Last(file) # Blank

\* What is added ends in a newline, and may be the end of the file.
AddsLast(f, s, k) ==
  \/ SectionHits(f, s) = {}
  \/ KeyHits(f, s, k) = {} /\ SectionEnd(f, s) > Len(f)

write_profile_string(s, k, v) ==
  /\ \E to \in Expansions(file, s) : file' = NewText(file, s, k, v, to)
  /\ noeol' = (noeol /\ ~AddsLast(file, s, k))

\* fopen(file, "w") has truncated the file when the process dies.
WriteDies == file' = <<>> /\ noeol' = FALSE

Next == \/ \E s \in Sections, k \in Keys, v \in Values : write_profile_string(s, k, v)
        \/ WriteDies

Spec == Init /\ [][Next]_vars

-----------------------------------------------------------------------------
(* Properties.                                                             *)

\* No name the program uses begins with another; so it is with the four keys
\* astPackage keeps in its section.
PrefixFree == \A a, b \in Sections \cup Keys : <<a, b>> \notin ProperPrefixes

Store(f) == [sk \in Sections \X Keys |-> read_profile_string(f, sk[1], sk[2])]

(* Whatever the file looks like, with sections and keys that are repeated,  *)
(* out of order or outside every section, with blanks and comments, with    *)
(* or without a last newline: a write changes what is read for its own      *)
(* section and key, and nothing else; a new key does so when no value       *)
(* behind its header holds a '%'.                                           *)
WriteIsExact ==
  \A s \in Sections, k \in Keys :
    (KeyHits(file, s, k) # {} \/ Marks(file, s) = {}) =>
      \A v \in Values, to \in Expansions(file, s) :
        Store(NewText(file, s, k, v, to)) = [Store(file) EXCEPT ![<<s, k>>] = v]

\* A line with a '%' in it, which sprintf leaves a pair of its key, or a comment.
Spoils(old, new) ==
  \/ old = Comment("percent") /\ new = Comment("spoiled")
  \/ old.kind = "pair" /\ old.value \in Percents /\ new.kind = "pair" /\ new.key = old.key

(* Rewriting takes out and reorders no line somebody wrote.  One pair gets  *)
(* its new value; every other line stays as it is, but for lines that hold  *)
(* a '%', and a header on a last line without a newline, which gets the new *)
(* pair behind it on its line.                                              *)
RewriteKeepsLines ==
  [][file' # <<>> => Len(file') >= Len(file) /\
       \E at, w \in 0..Len(file) : \A i \in DOMAIN file :
          LET new == file'[IF i <= at THEN i ELSE i + Len(file') - Len(file)]
          IN  \/ new = file[i]
              \/ i = w /\ file[i].kind = "pair" /\ new.kind = "pair" /\ new.key = file[i].key
              \/ Spoils(file[i], new)
              \/ /\ noeol /\ i = Len(file)
                 /\ file[i].kind = "section" /\ new = Joined(file[i])]_vars

(* "key [in] name of the key pairs to value": what is read was written for  *)
(* this key in this section.                                                *)
ReadsOwnKey ==
  \A s \in Sections, k \in Keys :
    LET v == read_profile_string(file, s, k)
    IN  v # None => \E i \in DOMAIN file : /\ file[i] = Pair(k, v)
                                          /\ HeaderOf(file, i) # 0
                                          /\ file[HeaderOf(file, i)].name = s
=============================================================================
