------------------------------ MODULE TaskFile ------------------------------
(***************************************************************************)
(* CTaskList::Save and Load of src/public/astTask/astTask.cpp: the task    *)
(* list goes to a text file and comes back after a restart.                *)
(*                                                                         *)
(* The file is a sequence of lines, a line a sequence of words (the runs   *)
(* of non-blank characters fprintf produced).  A word is known by what the *)
(* readers can tell of it: whether it is a tid, the integer %d would read  *)
(* off its front, and what %d would leave behind.  fscanf's blanks, %d and *)
(* %s and fgets are the operators Skip, ScanD, ScanS and GetLine; a stream *)
(* is the part of the file that has not been read yet.                     *)
(***************************************************************************)
EXTENDS TaskOps, ExamPercent

CONSTANTS Tids,      \* task identifiers, long enough for checkTid
          Names,     \* texts of check items
          Checks,    \* lists of check items the server may send
          Ftimes,    \* issue times, 0 or seconds since 1970
          Types,     \* task types
          Year,      \* the year and the hours SetTime may find on the clock; TLC
          Hours,     \* takes a small year, which Load may take for a number of items
          TenDigits, \* the least number of ten digits; TLC takes a smaller one
          MaxTasks   \* bound on the tasks in the list, for TLC

(* A text of a check item is empty or one word; fgets gets a long one, of   *)
(* 1024 to 2045 characters, in two pieces.                                  *)
Word(kind, v) == [kind |-> kind, v |-> v]
Strings == {<<>>} \cup {<<Word(kind, name)>> : kind \in {"name", "long"}, name \in Names}

ASSUME ChecksAssumption ==
  Checks \subseteq Seq([name : Strings, path : Strings, desc : Strings, score : Scores,
                        method : Strings, percent : {0}, type : Int, methodValue : Strings])

ASSUME NumbersAssumption ==
  /\ Ftimes \subseteq Int /\ Types \subseteq Int /\ Hours \subseteq Int
  /\ Year \in Int /\ TenDigits \in Int

TYPE_EXAM_HEALTH == 0

VARIABLES m_TaskList,  \* the list in memory
          file,        \* the lines on disk
          open,        \* whether the last of them has lost its end of line
          left,        \* what LoadExamTask finds in cTmp, which it does not set
          saved,       \* history: the tasks the last Save meant to keep
          phase        \* "up": the agent works with its list; "whole", "cut": it
                       \* left a file and is gone; "loaded", "loadedCut": the next
                       \* process has read that file

vars == <<m_TaskList, file, open, left, saved, phase>>

-----------------------------------------------------------------------------
(* Words                                                                    *)
IntWord(n) == Word("int", n)

NeverRun == Word("stamp", 0)   \* 0000-00-00-00-00-00, the constructor's lasttime
Remains == Word("remains", 0)  \* what %d leaves of a word it only began to read
Stub == Word("cut", 0)         \* the beginning of a word, no tid and no integer
Junk == Word("junk", 0)        \* characters that nobody wrote to the file

\* The integer %d reads off the front of a word; time is the hh:mm:ss of SetTime.
StartsWithInt(w) == w.kind \in {"int", "stamp", "date", "time"}
LeftBehind(w) == IF w.kind = "int" THEN <<>> ELSE <<Remains>>

\* At least ten characters, all of them hexadecimal digits: a tid has them, and
\* so has an ftime of ten decimal digits.
checkTid(w) == \/ w.kind \in {"tid", "cutTid"}
               \/ w.kind = "int" /\ w.v >= TenDigits

-----------------------------------------------------------------------------
(* stdio                                                                    *)
Skip(in) ==
  LET text == {i \in DOMAIN in : in[i] # <<>>} IN
  IF text = {} THEN <<>> ELSE SubSeq(in, Min(text), Len(in))

\* fscanf("%s\n"): eof or a word, and the stream behind it.
ScanS(in) ==
  LET s == Skip(in) IN
  IF s = <<>> THEN [eof |-> TRUE, word |-> Junk, in |-> s]
  ELSE [eof |-> FALSE, word |-> Head(Head(s)), in |-> Skip(<<Tail(Head(s))>> \o Tail(s))]

\* fscanf("%d\n"): a variable keeps its value when there is no integer to read.
ScanD(in, old) ==
  LET s == Skip(in) IN
  IF s # <<>> /\ StartsWithInt(Head(Head(s)))
  THEN LET w == Head(Head(s)) IN
       [v |-> w.v, in |-> Skip(<<LeftBehind(w) \o Tail(Head(s))>> \o Tail(s))]
  ELSE [v |-> old, in |-> s]

\* cTmp[strlen(cTmp)-1] = '\0' where there is no end of line to take off: the last
\* character goes.  (In an empty buffer the zero goes to cTmp[-1], outside of it;
\* what it may hit there is not modelled.)
Trim(line) ==
  IF line = <<>> THEN <<>>
  ELSE LET w == Last(line) IN
       Front(line) \o (IF w.kind # "int" THEN <<Stub>>
                       ELSE IF w.v >= 10 THEN <<IntWord(w.v \div 10)>> ELSE <<>>)

Long(line) == line # <<>> /\ Head(line).kind = "long"

\* fgets and that assignment: one more line in s.got, the last of which is what
\* cTmp holds.  It keeps it at the end of the file, and gets 1023 characters of a
\* longer line.
GetLine(s) ==
  IF s.in = <<>> THEN [got |-> Append(s.got, Trim(Last(s.got))), in |-> <<>>]
  ELSE IF Long(Head(s.in))
  THEN [got |-> Append(s.got, <<Stub>>), in |-> << <<Remains>> >> \o Tail(s.in)]
  ELSE [got |-> Append(s.got, IF open /\ Len(s.in) = 1 THEN Trim(Head(s.in)) ELSE Head(s.in)),
        in |-> Tail(s.in)]

atoi(line) == IF line # <<>> /\ StartsWithInt(Head(line)) THEN Head(line).v ELSE 0

-----------------------------------------------------------------------------
(* Save                                                                     *)
LinesPerItem == 8

SaveItem(item) ==
  <<item.name, item.path, item.desc, <<IntWord(item.score)>>, item.method,
    <<IntWord(item.percent)>>, <<IntWord(item.type)>>, item.methodValue>>

\* A save that swaps two lines.
SaveExamTaskSwapped(t) ==
  << <<t.tid>>, <<IntWord(t.cycle)>>, <<IntWord(t.type)>>, t.lasttime,
     <<IntWord(t.ftime)>>, <<IntWord(t.invalid)>>, <<IntWord(Len(t.items))>> >>
  \o FlattenSeq([i \in DOMAIN t.items |-> SaveItem(t.items[i])])

SaveExamTask(t) ==
  << <<t.tid>>, <<IntWord(t.cycle)>>, <<IntWord(t.type)>>, t.lasttime,
     <<IntWord(t.invalid)>>, <<IntWord(t.ftime)>>, <<IntWord(Len(t.items))>> >>
  \o FlattenSeq([i \in DOMAIN t.items |-> SaveItem(t.items[i])])

\* Only enabled health checks are kept.
Kept(list) ==
  FlattenSeq([k \in DOMAIN list |->
    IF list[k].invalid = Enabled /\ list[k].type = TYPE_EXAM_HEALTH THEN <<list[k]>> ELSE <<>>])

Image(kept) ==
  << <<IntWord(Len(kept))>> >> \o FlattenSeq([k \in DOMAIN kept |-> SaveExamTask(kept[k])])

-----------------------------------------------------------------------------
(* Load                                                                     *)
ItemOf(l) ==
  [name |-> l[1], path |-> l[2], desc |-> l[3], score |-> atoi(l[4]), method |-> l[5],
   percent |-> atoi(l[6]), type |-> atoi(l[7]), methodValue |-> l[8]]

LoadExamTask(in) ==
  LET nNum == ScanD(in, 0)
      n == Max({0, nNum.v})
      read[k \in 0..(LinesPerItem * n)] ==
        IF k = 0 THEN [got |-> <<left>>, in |-> nNum.in] ELSE GetLine(read[k - 1])
      all == read[LinesPerItem * n]
  IN [items |-> [i \in 1..n |-> ItemOf(SubSeq(all.got, LinesPerItem * (i - 1) + 2,
                                                      LinesPerItem * i + 1))],
      in |-> all.in]

\* err is -1 at the end of the file, 1 when the word is no tid, else 0.
LoadTask(in) ==
  LET tid == ScanS(in)
      cycle == ScanD(tid.in, 0)
      type == ScanD(cycle.in, 0)
      lasttime == ScanS(type.in)
      invalid == ScanD(lasttime.in, 0)
      ftime == ScanD(invalid.in, 0)
      body == IF type.v = TYPE_EXAM_HEALTH THEN LoadExamTask(ftime.in)
                                           ELSE [items |-> <<>>, in |-> ftime.in]
      task == [tid |-> tid.word, cycle |-> cycle.v, type |-> type.v,
               lasttime |-> IF lasttime.eof THEN <<NeverRun>> ELSE <<lasttime.word>>,
               invalid |-> IF invalid.v = Running THEN Enabled ELSE invalid.v,
               ftime |-> ftime.v, items |-> FinishInit(body.items)]
  IN IF tid.eof THEN [err |-> -1, task |-> task, in |-> tid.in]
     ELSE IF ~checkTid(tid.word) THEN [err |-> 1, task |-> task, in |-> tid.in]
     ELSE [err |-> 0, task |-> task, in |-> body.in]

WordsPerLine == 2  \* no line of a file that Save began holds more

\* A loop that does not stop at the end of the file.
LoadLoopPastEnd(text) ==
  LET nNum == ScanD(text, 0)
      turns == WordsPerLine * Len(text)
      loop[k \in 0..turns] ==
        IF k = 0 THEN [list |-> <<>>, i |-> 0, in |-> nNum.in]
        ELSE LET s == loop[k - 1]
                 r == LoadTask(s.in)
             IN IF s.i >= nNum.v THEN s
                ELSE IF r.err > 0 THEN [s EXCEPT !.in = r.in]
                ELSE [list |-> _AddTask(s.list, r.task), i |-> s.i + 1, in |-> r.in]
  IN loop[turns].list

\* The loop reads at least one word in each turn, so the number of words bounds
\* its turns; nNum is left to chance when the file holds nothing, but then the
\* first LoadTask ends the loop.
LoadLoop(text) ==
  LET nNum == ScanD(text, 0)
      turns == WordsPerLine * Len(text)
      loop[k \in 0..turns] ==
        IF k = 0 THEN [list |-> <<>>, i |-> 0, in |-> nNum.in]
        ELSE LET s == loop[k - 1]
                 r == LoadTask(s.in)
             IN IF s.i >= nNum.v \/ r.err < 0 THEN s
                ELSE IF r.err # 0 THEN [s EXCEPT !.in = r.in]
                ELSE [list |-> _AddTask(s.list, r.task), i |-> s.i + 1, in |-> r.in]
  IN loop[turns].list

-----------------------------------------------------------------------------
(* The agent                                                                *)
\* Some of what the stack may hold under cTmp: nothing, text, or a number.
Remnants == {<<>>, <<Junk>>} \cup {<<IntWord(score)>> : score \in Scores}

Received(tid, type, ftime, items) ==
  [tid |-> Word("tid", tid), cycle |-> 1, type |-> type, lasttime |-> <<NeverRun>>,
   invalid |-> Enabled, ftime |-> ftime, items |-> FinishInit(items)]

\* Only health checks have items.
NewTask == {Received(tid, TYPE_EXAM_HEALTH, ftime, items) :
              tid \in Tids, ftime \in Ftimes, items \in Checks}
           \cup {Received(tid, type, ftime, <<>>) :
              tid \in Tids, type \in Types \ {TYPE_EXAM_HEALTH}, ftime \in Ftimes}

Init == /\ m_TaskList = <<>>
        /\ file = <<>>
        /\ open = FALSE
        /\ left = <<>>
        /\ saved = <<>>
        /\ phase = "up"

Change(list) == /\ phase = "up"
                /\ m_TaskList' = list
                /\ UNCHANGED <<file, open, left, saved, phase>>

AddTask(task) == /\ Change(_AddTask(m_TaskList, task))
                 /\ Len(m_TaskList') <= MaxTasks

InvalidTask(type) == Change(Invalidate(m_TaskList, type))

\* The owner of the list starts a task it found.
Start(k) == /\ m_TaskList[k].invalid = Enabled
            /\ Change([m_TaskList EXCEPT ![k].invalid = Running])

(* When the task is done SetTime writes the date and the time, with a blank *)
(* between them, where the constructor wrote one word.                      *)
SetTime(k, hour) ==
  /\ m_TaskList[k].invalid = Running
  /\ Change([m_TaskList EXCEPT
               ![k].invalid = Enabled,
               ![k].lasttime = <<Word("date", Year), Word("time", hour)>>])

Save == /\ phase = "up"
        /\ file' = Image(Kept(m_TaskList))
        /\ open' = FALSE
        /\ left' \in Remnants
        /\ saved' = Kept(m_TaskList)
        /\ phase' = "whole"
        /\ m_TaskList' = <<>>

(* The agent dies in Save: fopen has emptied the file, and what reached the *)
(* disk is some of the lines and perhaps the beginning of the next, without *)
(* its end of line: of a tid enough to pass for one or too little, of an    *)
(* integer some digits or all, of a text some characters or all.  The       *)
(* beginning of a lasttime passes for it, and a stamp's time goes whole.    *)
BeginningOf(w) ==
  {w} \cup (IF w.kind \in {"tid", "cutTid"} THEN {Word("cutTid", w.v), Stub} ELSE {})
      \cup (IF w.kind = "int" /\ w.v >= 10 THEN {IntWord(w.v \div 10)} ELSE {})
      \cup (IF w.kind \in {"name", "long"} THEN {Stub} ELSE {})

CutLine(line) ==
  {<<>>} \cup (IF line = <<>> THEN {} ELSE {<< <<w>> >> : w \in BeginningOf(Head(line))})

CrashInSave ==
  /\ phase = "up"
  /\ LET text == Image(Kept(m_TaskList)) IN
     \E n \in 0..(Len(text) - 1) : \E cut \in CutLine(text[n + 1]) :
        file' = SubSeq(text, 1, n) \o cut /\ open' = (cut # <<>>)
  /\ left' \in Remnants
  /\ saved' = Kept(m_TaskList)
  /\ phase' = "cut"
  /\ m_TaskList' = <<>>

\* A new process, whose list is empty, reads the file.
Load == /\ phase \in {"whole", "cut"}
        /\ m_TaskList' = LoadLoop(file)
        /\ phase' = IF phase = "whole" THEN "loaded" ELSE "loadedCut"
        /\ UNCHANGED <<file, open, left, saved>>

\* It goes on with the list it read; the next Save rewrites the file.
GoOn == /\ phase \in {"loaded", "loadedCut"}
        /\ phase' = "up"
        /\ file' = <<>>
        /\ open' = FALSE
        /\ left' = <<>>
        /\ saved' = <<>>
        /\ UNCHANGED m_TaskList

Next == \/ \E task \in NewTask : AddTask(task)
        \/ \E type \in Types : InvalidTask(type)
        \/ \E k \in DOMAIN m_TaskList : Start(k) \/ \E hour \in Hours : SetTime(k, hour)
        \/ Save
        \/ CrashInSave
        \/ Load
        \/ GoOn

Spec == Init /\ [][Next]_vars

-----------------------------------------------------------------------------
TypeOK == /\ phase \in {"up", "whole", "cut", "loaded", "loadedCut"}
          /\ \A t \in ToSet(m_TaskList) \cup ToSet(saved) :
                /\ t.cycle \in Int /\ t.type \in Int /\ t.ftime \in Int
                /\ t.invalid \in Int \ {Running} \/ phase = "up"
                /\ Len(t.lasttime) \in 1..2
          /\ \A line \in ToSet(file) : Len(line) <= WordsPerLine
          /\ open => phase \in {"cut", "loadedCut"}

Stamped(t) == Len(t.lasttime) = 2

\* "%d\n" before the first name skips every blank character, an empty name too.
Readable(t) == t.items = <<>> \/ t.items[1].name # <<>>

\* fgets gets every line of its items in one piece.
Fits(t) == \A item \in ToSet(t.items) :
  ~\E text \in {item.name, item.path, item.desc, item.method, item.methodValue} : Long(text)

\* The list is the last task of each tid of all, in their order.
LastOfEach(list, all) ==
  LET last == {k \in DOMAIN all : \A j \in DOMAIN all : all[j].tid = all[k].tid => j <= k}
  IN \E at \in [DOMAIN list -> last] :
       /\ \A k \in last : \E i \in DOMAIN list : at[i] = k
       /\ \A i, j \in DOMAIN list : i < j => at[i] < at[j]
       /\ \A i \in DOMAIN list : list[i] = all[at[i]]

(* What Save kept is what Load gives the next process: every health check   *)
(* that was enabled, field by field, as long as none has been stamped with  *)
(* SetTime, has a first item without a name or a text too long for cTmp.    *)
(* Were a tid listed twice, the later task would stay.                      *)
RoundTrip ==
  phase = "loaded" /\ (\A t \in ToSet(saved) : ~Stamped(t) /\ Readable(t) /\ Fits(t))
    => LastOfEach(m_TaskList, saved)

(* The same for tasks that have run.  TASKHEAD says of lasttime             *)
(* "上次检查时间 YYYY-MM-DD-hh-mm-ss", one word, and Load reads one word.      *)
RoundTripAfterRun ==
  phase = "loaded" /\ (\A t \in ToSet(saved) : Readable(t) /\ Fits(t))
    => LastOfEach(m_TaskList, saved)

\* The crash came behind the end of the w-th task and before that of the next: open
\* or not, the lines the crash left whole hold w tasks and no more.
WrittenBefore(w) ==
  LET lines == Len(file) - (IF open THEN 1 ELSE 0) IN
  /\ w = 0 \/ Len(Image(SubSeq(saved, 1, w))) <= lines
  /\ w = Len(saved) \/ lines < Len(Image(SubSeq(saved, 1, w + 1)))

(* A crash in the middle of Save damages at most one task, the one it was   *)
(* writing: the w tasks written before it are loaded as they were, the one  *)
(* that is cut may follow them, with some of its fields, and nothing is     *)
(* made up behind it.  Only a task whose tid is what the crash left of the  *)
(* damaged one's (the last crash may have left the same) gives way to it,   *)
(* as to an update.                                                         *)
CrashDamagesOne ==
  phase = "loadedCut"
  /\ (\A t \in ToSet(saved) : ~Stamped(t) /\ Readable(t) /\ Fits(t))
  /\ (\A i, j \in DOMAIN saved : saved[i].tid = saved[j].tid => i = j)
    => \E w \in 0..Len(saved) :
         /\ WrittenBefore(w)
         /\ LET whole == SubSeq(saved, 1, w) IN
            \/ m_TaskList = whole
            \/ /\ m_TaskList # <<>>
               /\ \/ Front(m_TaskList) = whole
                  \/ \E k \in 1..w : /\ saved[k].tid = Last(m_TaskList).tid
                                     /\ Front(m_TaskList) = RemoveAt(whole, k)
=============================================================================
