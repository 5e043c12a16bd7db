--------------------------- MODULE TaskListProofs ---------------------------
(***************************************************************************)
(* While InvalidTask has disabled nothing, a CTaskList holds each tid at   *)
(* most once and FindTask gives its newest version: for every set of tids, *)
(* types and times and every length of the list.  Whatever is disabled, an *)
(* update costs no other wanted task, and deleting the task under the      *)
(* cursor moves the cursor on.                                             *)
(*                                                                         *)
(* The reference count of TASKHEAD is exact for any number of heads and    *)
(* blocks.  CountExact, NoDangling and NoLeak are inductive together and   *)
(* not one by one: that operator= does not delete the block it is about to *)
(* share needs the count to be exact, and that a fresh block starts with   *)
(* one owner needs that no head points to memory that was given back.      *)
(***************************************************************************)
EXTENDS TaskList, TaskHead, FiniteSetTheorems, WellFoundedInduction, SequenceTheorems, TLAPS

NoneDisabled(list) == \A k \in DOMAIN list : list[k].invalid # Disabled

\* Every listed task is the newest of its tid, and no newest task is missing.
ListsNewest(list, new) ==
  /\ \A k \in DOMAIN list : new[list[k].tid] = list[k].ftime
  /\ \A tid \in Tids : new[tid] # Gone => \E k \in DOMAIN list : list[k].tid = tid

Good(list, new) ==
  UniqueTids(list) /\ NoneDisabled(list) /\ ListsNewest(list, new)

IInv == TypeOK /\ (~everDisabled => Good(m_TaskList, newest))

-----------------------------------------------------------------------------
(* What the sequence operators of the model return                          *)

\* A non-empty set of naturals has a least element, which is its Min.
LEMMA MinIsLeast ==
  ASSUME NEW S \in SUBSET Nat, S # {}
  PROVE  Min(S) \in S /\ \A y \in S : Min(S) <= y
<1>1. PICK x \in S : \A y \in S : ~(<<y, x>> \in OpToRel(<, Nat))
  BY NatLessThanWellFounded, WFMin
<1>2. ASSUME NEW y \in S PROVE x <= y
  <2>1. ~(<<y, x>> \in OpToRel(<, Nat))
    BY <1>1
  <2>2. ~(y < x)
    BY <2>1 DEF OpToRel
  <2> QED BY <2>2
<1> QED
  BY <1>2 DEF Min

\* The elements of a list are tasks.
LEMMA ListElements ==
  ASSUME NEW list \in Seq(Task)
  PROVE  \A k \in 1..Len(list) : /\ list[k] \in Task
                                 /\ list[k].tid \in Tids
                                 /\ list[k].ftime \in Ftimes
<1>1. list \in [1..Len(list) -> Task]
  BY LenProperties
<1>2. \A k \in 1..Len(list) : list[k] \in Task
  BY <1>1
<1> QED BY <1>2 DEF Task

\* vector::erase: the elements behind the erased one move one place down.
LEMMA RemoveAtShifts ==
  ASSUME NEW T, NEW s \in Seq(T), NEW i \in 1..Len(s)
  PROVE  /\ RemoveAt(s, i) \in Seq(T)
         /\ Len(RemoveAt(s, i)) = Len(s) - 1
         /\ \A k \in 1..(Len(s) - 1) :
               RemoveAt(s, i)[k] = IF k < i THEN s[k] ELSE s[k + 1]
<1> DEFINE l == SubSeq(s, 1, i - 1)
           r == SubSeq(s, i + 1, Len(s))
<1>1. /\ l \in Seq(T)
      /\ Len(l) = i - 1
      /\ \A k \in 1..(i - 1) : l[k] = s[k]
  BY SubSeqProperties
<1>2. /\ r \in Seq(T)
      /\ Len(r) = Len(s) - i
      /\ \A k \in 1..(Len(s) - i) : r[k] = s[i + k]
  BY SubSeqProperties
<1>3. RemoveAt(s, i) = l \o r
  BY DEF RemoveAt
<1> HIDE DEF l, r
<1>4. /\ l \o r \in Seq(T)
      /\ Len(l \o r) = Len(l) + Len(r)
      /\ \A k \in 1..(Len(l) + Len(r)) :
            (l \o r)[k] = IF k <= Len(l) THEN l[k] ELSE r[k - Len(l)]
  BY <1>1, <1>2, ConcatProperties
<1>5. Len(s) \in Nat /\ i \in Int
  BY LenProperties
<1>6. RemoveAt(s, i) \in Seq(T) /\ Len(RemoveAt(s, i)) = Len(s) - 1
  BY <1>1, <1>2, <1>3, <1>4, <1>5
<1>7. ASSUME NEW k \in 1..(Len(s) - 1)
      PROVE  RemoveAt(s, i)[k] = IF k < i THEN s[k] ELSE s[k + 1]
  <2>1. k \in 1..(Len(l) + Len(r))
    BY <1>1, <1>2, <1>5
  <2>2. (l \o r)[k] = IF k <= Len(l) THEN l[k] ELSE r[k - Len(l)]
    BY <1>4, <2>1
  <2>3. CASE k < i
    <3>1. k \in 1..(i - 1) /\ k <= Len(l)
      BY <1>1, <1>5, <2>3
    <3> QED BY <1>1, <1>3, <2>2, <2>3, <3>1
  <2>4. CASE ~(k < i)
    <3>1. ~(k <= Len(l)) /\ k - Len(l) = k - i + 1 /\ i + (k - i + 1) = k + 1
      BY <1>1, <1>5, <2>4
    <3>2. k - i + 1 \in 1..(Len(s) - i)
      BY <1>5, <2>4
    <3>3. r[k - i + 1] = s[k + 1]
      BY <1>2, <3>1, <3>2
    <3> QED BY <1>3, <2>2, <2>4, <3>1, <3>3
  <2> QED BY <2>3, <2>4
<1> QED BY <1>6, <1>7

\* FindTask returns the index of a task with that tid, 0 if there is none.
LEMMA FindTaskFinds ==
  ASSUME NEW list \in Seq(Task), NEW tid \in Tids
  PROVE  LET it == FindTask(list, tid) IN
         \/ it = 0 /\ \A k \in 1..Len(list) : list[k].tid # tid
         \/ it \in 1..Len(list) /\ list[it].tid = tid
<1> DEFINE I == {k \in 1..Len(list) : list[k].tid = tid}
<1>1. FindTask(list, tid) = IF I # {} THEN Min(I) ELSE 0
  BY DEF FindTask, SelectInSeq
<1>2. I \in SUBSET Nat
  OBVIOUS
<1>3. CASE I = {}
  BY <1>1, <1>3
<1>4. CASE I # {}
  <2>1. Min(I) \in I
    BY <1>2, <1>4, MinIsLeast
  <2> QED BY <1>1, <1>4, <2>1
<1> QED BY <1>3, <1>4

\* _AddTask erases at most one task, which clashes with the new one, and
\* appends, whatever else is disabled or listed twice.
LEMMA AddTaskErases ==
  ASSUME NEW list \in Seq(Task), NEW task \in Task
  PROVE  \/ /\ \A k \in 1..Len(list) : ~Clashes(list[k], task)
            /\ _AddTask(list, task) = Append(list, task)
         \/ \E i \in 1..Len(list) : /\ Clashes(list[i], task)
                                    /\ _AddTask(list, task) = Append(RemoveAt(list, i), task)
<1> DEFINE I == {k \in 1..Len(list) : Clashes(list[k], task)}
<1>1. _AddTask(list, task) =
        Append(IF I # {} THEN RemoveAt(list, Min(I)) ELSE list, task)
  <2>1. (\E k \in 1..Len(list) : Clashes(list[k], task)) <=> I # {}
    OBVIOUS
  <2> QED BY <2>1 DEF _AddTask, RemoveFirstMatch, SelectInSeq
<1>2. CASE I = {}
  BY <1>1, <1>2
<1>3. CASE I # {}
  <2>1. I \in SUBSET Nat
    OBVIOUS
  <2>2. Min(I) \in I
    BY <1>3, <2>1, MinIsLeast
  <2>3. Min(I) \in 1..Len(list) /\ Clashes(list[Min(I)], task)
    BY <2>2
  <2> HIDE DEF I
  <2> QED BY <1>1, <1>3, <2>3
<1> QED BY <1>2, <1>3

\* In a list without disabled tasks the erased task has the new one's tid.
LEMMA AddTaskReplaces ==
  ASSUME NEW list \in Seq(Task), NEW task \in Task, NoneDisabled(list)
  PROVE  \/ /\ \A k \in 1..Len(list) : list[k].tid # task.tid
            /\ _AddTask(list, task) = Append(list, task)
         \/ \E i \in 1..Len(list) : /\ list[i].tid = task.tid
                                    /\ _AddTask(list, task) = Append(RemoveAt(list, i), task)
<1>1. \A k \in 1..Len(list) : Clashes(list[k], task) <=> list[k].tid = task.tid
  BY LenProperties DEF NoneDisabled, Clashes
<1> QED BY <1>1, AddTaskErases

\* _AddTask returns a list of tasks.
LEMMA AddTaskType ==
  ASSUME NEW list \in Seq(Task), NEW task \in Task
  PROVE  _AddTask(list, task) \in Seq(Task)
<1>1. CASE _AddTask(list, task) = Append(list, task)
  BY <1>1, AppendProperties
<1>2. ASSUME NEW i \in 1..Len(list), _AddTask(list, task) = Append(RemoveAt(list, i), task)
      PROVE  _AddTask(list, task) \in Seq(Task)
  <2>1. RemoveAt(list, i) \in Seq(Task)
    BY RemoveAtShifts
  <2> QED BY <1>2, <2>1, AppendProperties
<1> QED BY <1>1, <1>2, AddTaskErases

-----------------------------------------------------------------------------
(* Good lists stay good                                                     *)

\* Appending a task whose tid is not listed.
LEMMA GoodAppend ==
  ASSUME NEW list \in Seq(Task), NEW new \in [Tids -> Ftimes \cup {Gone}],
         NEW task \in NewTask, Good(list, new),
         \A k \in 1..Len(list) : list[k].tid # task.tid
  PROVE  Good(Append(list, task), [new EXCEPT ![task.tid] = task.ftime])
<1> DEFINE app == Append(list, task)
           upd == [new EXCEPT ![task.tid] = task.ftime]
           n == Len(list)
<1>1. task \in Task /\ task.tid \in Tids /\ task.invalid # Disabled
  BY DEF NewTask, Task, Enabled, Disabled, Running
<1>2. /\ app \in Seq(Task)
      /\ Len(app) = n + 1
      /\ \A k \in 1..n : app[k] = list[k]
      /\ app[n + 1] = task
      /\ n \in Nat
      /\ DOMAIN list = 1..n
      /\ DOMAIN app = 1..(n + 1)
  BY <1>1, AppendProperties, LenProperties
<1>3. \A k \in 1..n : list[k].tid \in Tids /\ list[k] \in Task
  BY ListElements
<1> HIDE DEF app, n
<1>4. UniqueTids(app)
  BY <1>2 DEF Good, UniqueTids, n
<1>5. NoneDisabled(app)
  BY <1>1, <1>2 DEF Good, NoneDisabled, n
<1>6. ListsNewest(app, upd)
  <2>1. ASSUME NEW k \in DOMAIN app PROVE upd[app[k].tid] = app[k].ftime
    <3>1. CASE k = n + 1
      BY <3>1, <1>1, <1>2
    <3>2. CASE k \in 1..n
      BY <3>2, <1>1, <1>2, <1>3 DEF Good, ListsNewest, n
    <3> QED BY <3>1, <3>2, <1>2
  <2>2. ASSUME NEW tid \in Tids, upd[tid] # Gone
        PROVE  \E k \in DOMAIN app : app[k].tid = tid
    <3>1. CASE tid = task.tid
      BY <3>1, <1>2
    <3>2. CASE tid # task.tid
      <4>1. PICK k \in 1..n : list[k].tid = tid
        BY <3>2, <2>2, <1>1, <1>2 DEF Good, ListsNewest
      <4> QED BY <4>1, <1>2
    <3> QED BY <3>1, <3>2
  <2> QED BY <2>1, <2>2 DEF ListsNewest
<1> QED BY <1>4, <1>5, <1>6 DEF Good, app

\* Erasing a task and forgetting its tid.
LEMMA GoodErase ==
  ASSUME NEW list \in Seq(Task), NEW new \in [Tids -> Ftimes \cup {Gone}],
         Good(list, new), NEW i \in 1..Len(list)
  PROVE  /\ Good(RemoveAt(list, i), [new EXCEPT ![list[i].tid] = Gone])
         /\ \A k \in 1..Len(RemoveAt(list, i)) : RemoveAt(list, i)[k].tid # list[i].tid
<1> DEFINE rem == RemoveAt(list, i)
           upd == [new EXCEPT ![list[i].tid] = Gone]
           n == Len(list)
           old(k) == IF k < i THEN k ELSE k + 1
<1>1. /\ rem \in Seq(Task)
      /\ Len(rem) = n - 1
      /\ \A k \in 1..(n - 1) : rem[k] = IF k < i THEN list[k] ELSE list[k + 1]
      /\ n \in Nat
      /\ DOMAIN list = 1..n
      /\ DOMAIN rem = 1..(n - 1)
  BY RemoveAtShifts, LenProperties
<1>2. \A k \in 1..n : list[k].tid \in Tids
  BY ListElements
<1>3. \A k \in 1..(n - 1) : old(k) \in 1..n /\ old(k) # i /\ rem[k] = list[old(k)]
  BY <1>1
<1>4. \A k, m \in 1..(n - 1) : old(k) = old(m) => k = m
  BY <1>1
<1> HIDE DEF rem, n, old
<1>5. \A k \in 1..(n - 1) : rem[k].tid # list[i].tid
  BY <1>1, <1>3 DEF Good, UniqueTids, n
<1>6. UniqueTids(rem)
  <2>1. SUFFICES ASSUME NEW k \in 1..(n - 1), NEW m \in 1..(n - 1), rem[k].tid = rem[m].tid
                 PROVE  k = m
    BY <1>1 DEF UniqueTids
  <2>2. old(k) \in DOMAIN list /\ old(m) \in DOMAIN list
    BY <1>1, <1>3
  <2>3. list[old(k)].tid = list[old(m)].tid
    BY <1>3, <2>1
  <2>4. old(k) = old(m)
    BY <2>2, <2>3 DEF Good, UniqueTids
  <2> QED BY <1>4, <2>4
<1>7. NoneDisabled(rem)
  BY <1>1, <1>3 DEF Good, NoneDisabled
<1>8. ListsNewest(rem, upd)
  <2>1. ASSUME NEW k \in 1..(n - 1) PROVE upd[rem[k].tid] = rem[k].ftime
    BY <1>1, <1>2, <1>3, <1>5 DEF Good, ListsNewest
  <2>2. ASSUME NEW tid \in Tids, upd[tid] # Gone
        PROVE  \E k \in 1..(n - 1) : rem[k].tid = tid
    <3>1. tid # list[i].tid /\ new[tid] # Gone
      BY <2>2, <1>2
    <3>2. PICK m \in 1..n : list[m].tid = tid
      BY <3>1, <1>1 DEF Good, ListsNewest
    <3>3. m # i
      BY <3>1, <3>2
    <3>4. CASE m < i
      BY <3>2, <3>4, <1>1 DEF n
    <3>5. CASE m > i
      <4>1. m - 1 \in 1..(n - 1) /\ rem[m - 1] = list[m]
        BY <3>5, <1>1 DEF n
      <4> QED BY <4>1, <3>2
    <3> QED BY <3>3, <3>4, <3>5
  <2> QED BY <1>1, <2>1, <2>2 DEF ListsNewest
<1> QED BY <1>1, <1>5, <1>6, <1>7, <1>8 DEF Good, rem

-----------------------------------------------------------------------------
\* AddTask keeps the invariant: it erases the task it updates, and only that.
LEMMA AddTaskStep ==
  ASSUME IInv, NEW task \in NewTask, AddTask(task)
  PROVE  IInv'
<1> DEFINE list == m_TaskList
<1>1. /\ m_TaskList' = _AddTask(list, task)
      /\ m_iCurrent' = 1
      /\ newest' = [newest EXCEPT ![task.tid] = task.ftime]
      /\ everDisabled' = everDisabled
  BY DEF AddTask
<1>2. /\ list \in Seq(Task)
      /\ newest \in [Tids -> Ftimes \cup {Gone}]
      /\ everDisabled \in BOOLEAN
  BY DEF IInv, TypeOK
<1>3. task \in Task /\ task.tid \in Tids /\ task.ftime \in Ftimes
  BY DEF NewTask, Task, Enabled, Running
<1>4. TypeOK'
  <2>1. m_TaskList' \in Seq(Task)
    BY <1>1, <1>2, <1>3, AddTaskType
  <2>2. newest' \in [Tids -> Ftimes \cup {Gone}]
    BY <1>1, <1>2, <1>3
  <2> QED BY <1>1, <1>2, <2>1, <2>2 DEF TypeOK
<1>5. ASSUME ~everDisabled PROVE Good(_AddTask(list, task), newest')
  <2>1. Good(list, newest)
    BY <1>5 DEF IInv
  <2>2. CASE /\ \A k \in 1..Len(list) : list[k].tid # task.tid
             /\ _AddTask(list, task) = Append(list, task)
    BY <1>1, <1>2, <2>1, <2>2, GoodAppend
  <2>3. CASE \E i \in 1..Len(list) :
                /\ list[i].tid = task.tid
                /\ _AddTask(list, task) = Append(RemoveAt(list, i), task)
    <3>1. PICK i \in 1..Len(list) :
                /\ list[i].tid = task.tid
                /\ _AddTask(list, task) = Append(RemoveAt(list, i), task)
      BY <2>3
    <3> DEFINE rem == RemoveAt(list, i)
               upd == [newest EXCEPT ![task.tid] = Gone]
    <3>2. /\ Good(rem, upd)
          /\ \A k \in 1..Len(rem) : rem[k].tid # task.tid
      <4>1. Good(list, newest) /\ i \in 1..Len(list) /\ list[i].tid = task.tid
        BY <2>1, <3>1
      <4> HIDE DEF list
      <4>2. Good(RemoveAt(list, i), [newest EXCEPT ![list[i].tid] = Gone])
        BY ONLY <1>2, <4>1, GoodErase
      <4>3. \A k \in 1..Len(RemoveAt(list, i)) : RemoveAt(list, i)[k].tid # list[i].tid
        BY ONLY <1>2, <4>1, GoodErase
      <4> QED BY <4>1, <4>2, <4>3
    <3>3. rem \in Seq(Task) /\ upd \in [Tids -> Ftimes \cup {Gone}]
      BY <1>2, RemoveAtShifts
    <3>4. Good(Append(rem, task), [upd EXCEPT ![task.tid] = task.ftime])
      <4> HIDE DEF rem, upd
      <4> QED BY <3>2, <3>3, GoodAppend
    <3>5. [upd EXCEPT ![task.tid] = task.ftime] = newest'
      BY <1>1, <1>2
    <3> QED BY <3>1, <3>4, <3>5
  <2>4. NoneDisabled(list)
    BY <2>1 DEF Good
  <2> QED BY <2>2, <2>3, <2>4, <1>2, <1>3, AddTaskReplaces
<1> QED BY <1>1, <1>4, <1>5 DEF IInv

\* DelTask erases the only task of its tid.
LEMMA DelTaskStep ==
  ASSUME IInv, NEW tid \in Tids, DelTask(tid)
  PROVE  IInv'
<1> DEFINE list == m_TaskList
           it == FindTask(list, tid)
<1>1. /\ m_TaskList' = IF it = 0 THEN list ELSE RemoveAt(list, it)
      /\ m_iCurrent' \in {1, m_iCurrent}
      /\ newest' = [newest EXCEPT ![tid] = Gone]
      /\ everDisabled' = everDisabled
  BY DEF DelTask
<1>2. /\ list \in Seq(Task)
      /\ newest \in [Tids -> Ftimes \cup {Gone}]
      /\ everDisabled \in BOOLEAN
      /\ m_iCurrent \in Nat \ {0}
  BY DEF IInv, TypeOK
<1>3. \/ it = 0 /\ \A k \in 1..Len(list) : list[k].tid # tid
      \/ it \in 1..Len(list) /\ list[it].tid = tid
  BY <1>2, FindTaskFinds
<1> HIDE DEF it
<1>4. CASE it = 0
  <2>1. m_TaskList' = list
    BY <1>1, <1>4
  <2>2. TypeOK'
    BY <1>1, <1>2, <2>1 DEF TypeOK
  <2>3. ASSUME Good(list, newest) PROVE Good(list, newest')
    <3>1. \A k \in DOMAIN list : list[k].tid # tid /\ list[k].tid \in Tids
      BY <1>2, <1>3, <1>4, ListElements, LenProperties
    <3> QED BY <1>1, <1>2, <2>3, <3>1 DEF Good, ListsNewest
  <2> QED BY <1>1, <2>1, <2>2, <2>3 DEF IInv
<1>5. CASE it # 0
  <2>1. /\ it \in 1..Len(list)
        /\ list[it].tid = tid
        /\ m_TaskList' = RemoveAt(list, it)
    BY <1>1, <1>3, <1>5
  <2>2. TypeOK'
    <3>1. m_TaskList' \in Seq(Task)
      BY <1>2, <2>1, RemoveAtShifts
    <3> QED BY <1>1, <1>2, <3>1 DEF TypeOK
  <2>3. ASSUME Good(list, newest) PROVE Good(m_TaskList', newest')
    BY <1>1, <1>2, <2>1, <2>3, GoodErase
  <2> QED BY <1>1, <2>2, <2>3 DEF IInv
<1> QED BY <1>4, <1>5

\* Setting `invalid' of one task to anything but Disabled keeps the invariant.
LEMMA MarkTaskStep ==
  ASSUME IInv, NEW k \in 1..Len(m_TaskList),
         NEW v \in {Enabled, Deleted, Running}, MarkTask(k, v)
  PROVE  IInv'
<1> DEFINE list == m_TaskList
<1>1. /\ list \in Seq(Task)
      /\ list \in [1..Len(list) -> Task]
      /\ Len(list) \in Nat
      /\ DOMAIN list = 1..Len(list)
  BY LenProperties DEF IInv, TypeOK
<1> DEFINE e == [list[k] EXCEPT !.invalid = v]
<1>2. /\ e \in Task
      /\ e.tid = list[k].tid /\ e.ftime = list[k].ftime /\ e.invalid # Disabled
  BY <1>1 DEF Task, Enabled, Disabled, Deleted, Running
<1>3. m_TaskList' = [list EXCEPT ![k] = e]
  BY DEF MarkTask
<1> HIDE DEF e
<1>4. /\ m_TaskList' \in Seq(Task)
      /\ DOMAIN m_TaskList' = DOMAIN list
      /\ \A j \in 1..Len(list) : m_TaskList'[j] = IF j = k THEN e ELSE list[j]
  BY <1>1, <1>2, <1>3, ExceptSeq
<1>5. TypeOK'
  BY <1>4 DEF MarkTask, IInv, TypeOK
<1>6. /\ \A j \in DOMAIN list : /\ m_TaskList'[j].tid = list[j].tid
                                /\ m_TaskList'[j].ftime = list[j].ftime
      /\ NoneDisabled(list) => NoneDisabled(m_TaskList')
  BY <1>1, <1>2, <1>4 DEF NoneDisabled
<1>7. Good(list, newest) => Good(m_TaskList', newest)
  BY <1>4, <1>6 DEF Good, UniqueTids, ListsNewest
<1> QED BY <1>5, <1>7 DEF MarkTask, IInv

\* InvalidTask that disables nothing changes nothing; otherwise the history
\* variable records that it did.
LEMMA InvalidTaskStep ==
  ASSUME IInv, NEW type \in Types, InvalidTask(type)
  PROVE  IInv'
<1> DEFINE list == m_TaskList
           f(k) == IF list[k].type = type THEN [list[k] EXCEPT !.invalid = Disabled]
                                          ELSE list[k]
<1>1. /\ list \in Seq(Task)
      /\ Len(list) \in Nat
      /\ DOMAIN list = 1..Len(list)
      /\ list \in [1..Len(list) -> Task]
  BY LenProperties DEF IInv, TypeOK
<1>2. m_TaskList' = [k \in 1..Len(list) |-> f(k)]
  BY <1>1 DEF InvalidTask, Invalidate
<1>3. \A k \in 1..Len(list) : f(k) \in Task
  BY <1>1 DEF Task, Enabled, Disabled, Running
<1> HIDE DEF f
<1>4. [k \in 1..Len(list) |-> f(k)] \in Seq(Task)
  BY <1>1, <1>3
<1>5. TypeOK'
  BY <1>2, <1>4 DEF InvalidTask, IInv, TypeOK
<1>6. ASSUME ~everDisabled' PROVE Good(m_TaskList', newest')
  <2>1. ~everDisabled /\ \A k \in 1..Len(list) : list[k].type # type
    BY <1>1, <1>6 DEF InvalidTask, IInv, TypeOK
  <2>2. m_TaskList' = list
    BY <1>1, <1>2, <2>1 DEF f
  <2> QED BY <2>1, <2>2 DEF InvalidTask, IInv
<1> QED BY <1>5, <1>6 DEF IInv

\* FindFirst, too, returns the index of a task or 0.
LEMMA FindFirstFinds ==
  ASSUME NEW list \in Seq(Task), NEW type \in Types, FindFirst(list, type) # 0
  PROVE  FindFirst(list, type) \in 1..Len(list)
<1> DEFINE I == {k \in 1..Len(list) : list[k].type = type /\ list[k].invalid = Enabled}
<1>1. FindFirst(list, type) = IF I # {} THEN Min(I) ELSE 0
  BY DEF FindFirst, SelectInSeq
<1>2. I \in SUBSET Nat /\ I # {}
  BY <1>1
<1>3. Min(I) \in I
  BY <1>2, MinIsLeast
<1> QED BY <1>1, <1>2, <1>3

\* The inductive invariant: the type invariant, and the list is duplicate-free,
\* undisabled and in step with `newest' until something is disabled.
THEOREM Invariance == Spec => []IInv
<1>1. Init => IInv
  <2> SUFFICES ASSUME Init PROVE IInv
    OBVIOUS
  <2>1. <<>> \in Seq(Task)
    BY EmptySeq
  <2>2. everDisabled \in BOOLEAN
    BY Zenon DEF Init
  <2>3. newest \in [Tids -> Ftimes \cup {Gone}] /\ m_iCurrent \in Nat \ {0}
    BY DEF Init
  <2>4. TypeOK
    BY <2>1, <2>2, <2>3, Zenon DEF Init, TypeOK
  <2>5. Good(<<>>, newest)
    BY DEF Init, Good, UniqueTids, NoneDisabled, ListsNewest
  <2> QED BY <2>4, <2>5 DEF Init, IInv
<1>2. IInv /\ [Next]_vars => IInv'
  <2> SUFFICES ASSUME IInv, [Next]_vars PROVE IInv'
    OBVIOUS
  <2>0. m_TaskList \in Seq(Task)
    BY DEF IInv, TypeOK
  <2>1. CASE UNCHANGED vars
    BY <2>1 DEF vars, IInv, TypeOK
  <2>2. ASSUME NEW task \in NewTask, AddTask(task) PROVE IInv'
    BY <2>2, AddTaskStep
  <2>3. ASSUME NEW tid \in Tids, DelTask(tid) PROVE IInv'
    BY <2>3, DelTaskStep
  <2>4. ASSUME NEW tid \in Tids, NEW v \in {Enabled, Deleted}, MarkFound(tid, v)
        PROVE  IInv'
    <3>1. FindTask(m_TaskList, tid) \in 1..Len(m_TaskList)
      BY <2>0, <2>4, FindTaskFinds DEF MarkFound
    <3> QED BY <2>4, <3>1, MarkTaskStep DEF MarkFound
  <2>5. ASSUME NEW type \in Types, InvalidTask(type) PROVE IInv'
    BY <2>5, InvalidTaskStep
  <2>6. ASSUME NEW type \in Types, StartFirst(type) PROVE IInv'
    <3>1. FindFirst(m_TaskList, type) \in 1..Len(m_TaskList)
      BY <2>0, <2>6, FindFirstFinds DEF StartFirst
    <3> QED BY <2>6, <3>1, MarkTaskStep DEF StartFirst
  <2>7. CASE TaskClear
    <3>1. TypeOK'
      BY <2>7, EmptySeq DEF TaskClear, IInv, TypeOK
    <3>2. Good(<<>>, newest')
      BY <2>7 DEF TaskClear, Good, UniqueTids, NoneDisabled, ListsNewest
    <3> QED BY <2>7, <3>1, <3>2 DEF TaskClear, IInv
  <2>8. CASE Begin
    BY <2>8 DEF Begin, IInv, TypeOK
  <2>9. CASE NextTask
    BY <2>9 DEF NextTask, IInv, TypeOK
  <2> QED BY <2>1, <2>2, <2>3, <2>4, <2>5, <2>6, <2>7, <2>8, <2>9 DEF Next, ListOps
<1> QED BY <1>1, <1>2, PTL DEF Spec

\* The list, the cursor and the history variables keep their types.
THEOREM TypeCorrect == Spec => []TypeOK
<1>1. IInv => TypeOK
  BY DEF IInv
<1> QED BY <1>1, Invariance, PTL

\* Until a task is disabled, a tid is listed at most once.
THEOREM TidsUnique == Spec => []OneTaskPerTid
<1>1. IInv => OneTaskPerTid
  BY DEF IInv, Good, OneTaskPerTid
<1> QED BY <1>1, Invariance, PTL

\* Until a task is disabled, FindTask returns the newest version of a task, and
\* NULL exactly when the tid was never added or has been deleted since.
THEOREM FindTaskIsNewest == Spec => []FindsNewest
<1>1. IInv => FindsNewest
  <2> SUFFICES ASSUME IInv, ~everDisabled, NEW tid \in Tids
               PROVE  LET k == FindTask(m_TaskList, tid) IN
                      newest[tid] = IF k = 0 THEN Gone ELSE m_TaskList[k].ftime
    BY DEF FindsNewest
  <2>1. m_TaskList \in Seq(Task) /\ ListsNewest(m_TaskList, newest)
    BY DEF IInv, TypeOK, Good
  <2>2. DOMAIN m_TaskList = 1..Len(m_TaskList)
    BY <2>1, LenProperties
  <2>3. LET it == FindTask(m_TaskList, tid) IN
        \/ it = 0 /\ \A k \in 1..Len(m_TaskList) : m_TaskList[k].tid # tid
        \/ it \in 1..Len(m_TaskList) /\ m_TaskList[it].tid = tid
    BY <2>1, FindTaskFinds
  <2> QED BY <2>1, <2>2, <2>3 DEF ListsNewest
<1> QED BY <1>1, Invariance, PTL
-----------------------------------------------------------------------------
(* What an update and a deletion do to the other tasks                      *)

\* A list whose tasks, but for an unwanted one at place i (none if i is past
\* the end), are those of another list in their order, with the unwanted task
\* `last' behind them, has the same wanted tasks.
LEMMA ShiftKeepsTasks ==
  ASSUME NEW old \in Seq(Task), NEW new \in Seq(Task), NEW tid,
         NEW i \in 1..(Len(old) + 1), NEW n \in Nat,
         n = IF i <= Len(old) THEN Len(old) ELSE Len(old) + 1,
         Len(new) = n, new[n].tid = tid,
         i <= Len(old) => old[i].tid = tid \/ old[i].invalid = Disabled,
         \A k \in 1..(n - 1) : new[k] = IF k < i THEN old[k] ELSE old[k + 1]
  PROVE  SameTasks(old, new, tid)
<1> DEFINE L == Len(old)
           W == Wanted(old, tid)
           V == Wanted(new, tid)
           new_place(k) == IF k < i THEN k ELSE k - 1
           to == [k \in W |-> new_place(k)]
<1>1. /\ L \in Nat /\ i \in Nat /\ 1 <= i
      /\ i <= L => n = L
      /\ ~(i <= L) => i = L + 1 /\ n = L + 1
  BY LenProperties
<1>2. /\ \A k : k \in W <=> k \in 1..L /\ old[k].tid # tid /\ old[k].invalid # Disabled
      /\ \A k : k \in V <=> k \in 1..n /\ new[k].tid # tid /\ new[k].invalid # Disabled
  BY LenProperties DEF Wanted
<1>3. i <= L => i \notin W
  BY <1>2
<1> HIDE DEF W, V, L
<1>4. \A k \in W : k \in 1..L /\ k # i
  BY ONLY <1>1, <1>2, <1>3
<1>5. \A k \in V : k \in 1..(n - 1)
  <2>1. n \notin V
    BY <1>2
  <2> QED BY ONLY <1>2, <2>1, n \in Nat
<1>6. ASSUME NEW k \in W PROVE new_place(k) \in 1..(n - 1) /\ new[new_place(k)] = old[k]
  <2>1. k \in 1..L /\ k # i
    BY <1>4
  <2>2. CASE k < i
    <3>1. k \in 1..(n - 1) /\ new_place(k) = k
      BY ONLY <1>1, <2>1, <2>2
    <3> QED BY <2>2, <3>1
  <2>3. CASE ~(k < i)
    <3>1. k - 1 \in 1..(n - 1) /\ ~(k - 1 < i) /\ (k - 1) + 1 = k /\ new_place(k) = k - 1
      BY ONLY <1>1, <2>1, <2>3
    <3> HIDE DEF new_place
    <3> QED BY <3>1
  <2> QED BY <2>2, <2>3
<1>7. \A k, m \in W : /\ k < m => new_place(k) < new_place(m)
                      /\ new_place(k) = new_place(m) => k = m
  BY ONLY <1>1, <1>4
<1>8. \A k \in W : new_place(k) \in V
  <2> HIDE DEF new_place
  <2>1. \A k \in 1..(n - 1) : k \in 1..n
    BY ONLY n \in Nat
  <2> QED BY ONLY <1>2, <1>6, <2>1
<1>9. ASSUME NEW v \in V PROVE \E k \in W : new_place(k) = v
  <2>1. v \in 1..(n - 1) /\ new[v].tid # tid /\ new[v].invalid # Disabled
    BY ONLY <1>2, <1>5, v \in V
  <2>2. CASE v < i
    <3>1. v \in 1..L /\ new_place(v) = v
      BY ONLY <1>1, <2>1, <2>2
    <3>2. new[v] = old[v]
      BY <2>1, <2>2
    <3>3. v \in W
      BY ONLY <1>2, <2>1, <3>1, <3>2
    <3> QED BY <3>1, <3>3
  <2>3. CASE ~(v < i)
    <3>1. v + 1 \in 1..L /\ new_place(v + 1) = v
      BY ONLY <1>1, <2>1, <2>3
    <3>2. new[v] = old[v + 1]
      BY <2>1, <2>3
    <3>3. v + 1 \in W
      BY ONLY <1>2, <2>1, <3>1, <3>2
    <3> QED BY <3>1, <3>3
  <2> QED BY <2>2, <2>3
<1> HIDE DEF new_place
<1>10. to \in [W -> V] /\ \A k \in W : to[k] = new_place(k)
  BY ONLY <1>8
<1> HIDE DEF to
<1>11. to \in Bijection(W, V)
  BY ONLY <1>7, <1>9, <1>10 DEF Bijection, Injection, Surjection, IsInjective
<1>12. \A k, m \in W : new[to[k]] = old[k] /\ (k < m => to[k] < to[m])
  BY ONLY <1>6, <1>7, <1>10
<1> QED BY ONLY <1>11, <1>12 DEF SameTasks, W, V

\* An update keeps the tasks of other tids that are not disabled.
LEMMA AddTaskKeeps ==
  ASSUME NEW list \in Seq(Task), NEW task \in Task
  PROVE  SameTasks(list, _AddTask(list, task), task.tid)
<1> DEFINE new == _AddTask(list, task)
<1>1. new \in Seq(Task) /\ Len(list) \in Nat
  BY AddTaskType, LenProperties
<1>2. ASSUME new = Append(list, task) PROVE SameTasks(list, new, task.tid)
  <2>1. /\ Len(new) = Len(list) + 1 /\ new[Len(list) + 1] = task
        /\ \A k \in 1..Len(list) : new[k] = list[k]
    BY <1>2, AppendProperties
  <2> DEFINE i == Len(list) + 1
  <2>2. /\ i \in 1..(Len(list) + 1) /\ ~(i <= Len(list)) /\ i \in Nat
        /\ \A k \in 1..(i - 1) : new[k] = IF k < i THEN list[k] ELSE list[k + 1]
        /\ Len(new) = i /\ new[i].tid = task.tid
    BY <1>1, <2>1
  <2>3. \A n \in Nat : n = i => n = IF i <= Len(list) THEN Len(list) ELSE Len(list) + 1
    BY <2>2
  <2> HIDE DEF new, i
  <2> QED BY <1>1, <2>2, <2>3, ShiftKeepsTasks
<1>3. ASSUME NEW i \in 1..Len(list), Clashes(list[i], task),
             new = Append(RemoveAt(list, i), task)
      PROVE  SameTasks(list, new, task.tid)
  <2> DEFINE rem == RemoveAt(list, i)
             n == Len(list)
  <2>1. /\ rem \in Seq(Task) /\ Len(rem) = n - 1
        /\ \A k \in 1..(n - 1) : rem[k] = IF k < i THEN list[k] ELSE list[k + 1]
    BY RemoveAtShifts
  <2>2. /\ Len(Append(rem, task)) = Len(rem) + 1
        /\ Append(rem, task)[Len(rem) + 1] = task
        /\ \A k \in 1..Len(rem) : Append(rem, task)[k] = rem[k]
    <3> HIDE DEF rem
    <3> QED BY <2>1, AppendProperties
  <2>3. /\ Len(new) = n /\ new[n] = task
        /\ \A k \in 1..(n - 1) : new[k] = IF k < i THEN list[k] ELSE list[k + 1]
    <3> HIDE DEF rem
    <3>1. new = Append(rem, task)
      BY <1>3 DEF rem
    <3>2. Len(rem) + 1 = n
      BY <1>1, <2>1
    <3> QED BY <2>1, <2>2, <3>1, <3>2
  <2>4. list[i].tid = task.tid \/ list[i].invalid = Disabled
    BY <1>3 DEF Clashes
  <2>5. n \in Nat /\ i \in 1..(n + 1) /\ i <= n
    BY <1>1
  <2>6. new[n].tid = task.tid
    BY <2>3
  <2> HIDE DEF new, rem
  <2> QED BY <1>1, <2>3, <2>4, <2>5, <2>6, ShiftKeepsTasks
<1> HIDE DEF new
<1>4. \/ new = Append(list, task)
      \/ \E i \in 1..Len(list) : Clashes(list[i], task) /\ new = Append(RemoveAt(list, i), task)
  BY AddTaskErases DEF new
<1>5. SameTasks(list, new, task.tid)
  BY <1>2, <1>3, <1>4
<1> QED BY <1>5 DEF new

\* However many tasks are disabled or listed twice, AddTask costs the agent
\* no task of another tid that is not disabled, and keeps their order.
THEOREM UpdatesKeepOtherTasks == Spec => AddKeepsOthers
<1>1. IInv /\ [Next]_vars
        => [\A task \in NewTask : AddTask(task) => SameTasks(m_TaskList, m_TaskList', task.tid)]_vars
  <2> SUFFICES ASSUME IInv, NEW task \in NewTask, AddTask(task)
               PROVE  SameTasks(m_TaskList, m_TaskList', task.tid)
    OBVIOUS
  <2>1. m_TaskList \in Seq(Task) /\ m_TaskList' = _AddTask(m_TaskList, task)
    BY DEF IInv, TypeOK, AddTask
  <2>2. task \in Task
    BY DEF NewTask, Task, Enabled, Running
  <2>3. SameTasks(m_TaskList, _AddTask(m_TaskList, task), task.tid)
    BY <2>1, <2>2, AddTaskKeeps
  <2> QED BY <2>1, <2>3
<1> QED BY <1>1, Invariance, PTL DEF Spec, AddKeepsOthers

\* A caller that deletes the task its cursor is on finds the cursor on the
\* next task, or on the first when it deleted the last.
THEOREM DeletionLoopMovesOn == Spec => DelCurrentMovesOn
<1> DEFINE MovesOn(tid) ==
      LET it == FindTask(m_TaskList, tid) IN
      DelTask(tid) /\ it # 0 /\ it = m_iCurrent =>
        IF it = Len(m_TaskList) THEN m_iCurrent' = 1
                                ELSE m_TaskList'[m_iCurrent'] = m_TaskList[it + 1]
<1>1. IInv /\ [Next]_vars => [\A tid \in Tids : MovesOn(tid)]_vars
  <2> SUFFICES ASSUME IInv, NEW tid \in Tids PROVE MovesOn(tid)
    OBVIOUS
  <2> DEFINE it == FindTask(m_TaskList, tid)
  <2> SUFFICES ASSUME DelTask(tid), it # 0, it = m_iCurrent
               PROVE  IF it = Len(m_TaskList) THEN m_iCurrent' = 1
                      ELSE m_TaskList'[m_iCurrent'] = m_TaskList[it + 1]
    OBVIOUS
  <2>1. m_TaskList \in Seq(Task)
    BY DEF IInv, TypeOK
  <2>2. it \in 1..Len(m_TaskList)
    BY <2>1, FindTaskFinds
  <2>3. /\ m_TaskList' = RemoveAt(m_TaskList, it)
        /\ m_iCurrent' = IF it = Len(m_TaskList) THEN 1 ELSE it
    BY DEF DelTask
  <2> HIDE DEF it
  <2>4. \A k \in 1..(Len(m_TaskList) - 1) :
           m_TaskList'[k] = IF k < it THEN m_TaskList[k] ELSE m_TaskList[k + 1]
    BY <2>1, <2>2, <2>3, RemoveAtShifts
  <2>5. Len(m_TaskList) \in Nat
    BY <2>1, LenProperties
  <2> QED BY <2>2, <2>3, <2>4, <2>5
<1> QED BY <1>1, Invariance, PTL DEF Spec, DelCurrentMovesOn

-----------------------------------------------------------------------------
(* TASKHEAD, the elements of the list                                       *)

HeadIInv == HeadTypeOK /\ CountExact /\ NoDangling /\ NoLeak

-----------------------------------------------------------------------------
(* How the owners of a block change when one head is made to point elsewhere *)

Own(f, p) == {h \in Heads : f[h] = p}

\* The owners of a block are finitely many, whatever the heads point to.
LEMMA OwnFinite ==
  ASSUME NEW f, NEW p
  PROVE  /\ IsFiniteSet(Own(f, p))
         /\ Cardinality(Own(f, p)) \in Nat
         /\ Cardinality(Own(f, p)) = 0 <=> Own(f, p) = {}
<1>1. Own(f, p) \subseteq Heads
  BY DEF Own
<1>2. IsFiniteSet(Own(f, p))
  BY <1>1, HeadsFinite, FS_Subset
<1> QED
  BY <1>2, FS_CardinalityType, FS_EmptySet

\* A head that starts to point to p is one more owner of p.
LEMMA OwnGain ==
  ASSUME NEW h, NEW f, NEW g, NEW p,
         IsFiniteSet(Own(f, p)), h \notin Own(f, p), Own(g, p) = Own(f, p) \cup {h}
  PROVE  Cardinality(Own(g, p)) = Cardinality(Own(f, p)) + 1
<1>1. ASSUME NEW S, IsFiniteSet(S), h \notin S
      PROVE  Cardinality(S \cup {h}) = Cardinality(S) + 1
  BY ONLY <1>1, FS_AddElement
<1> QED BY <1>1

\* A head that stops pointing to p is one owner of p less.
LEMMA OwnLoss ==
  ASSUME NEW f \in [Heads -> Blocks \cup {None}], NEW h \in Heads, NEW q,
         NEW g, g = [f EXCEPT ![h] = q], f[h] # q
  PROVE  /\ Cardinality(Own(g, f[h])) = Cardinality(Own(f, f[h])) - 1
         /\ Own(g, f[h]) = Own(f, f[h]) \ {h}
<1>1. Own(g, f[h]) = Own(f, f[h]) \ {h}
  BY DEF Own
<1>2. h \in Own(f, f[h])
  BY DEF Own
<1>3. /\ IsFiniteSet(Own(f, f[h]))
      /\ Cardinality(Own(f, f[h])) \in Nat
  BY OwnFinite
<1>4. ASSUME NEW S, IsFiniteSet(S), h \in S
      PROVE  Cardinality(S \ {h}) = Cardinality(S) - 1
  BY ONLY <1>4, FS_RemoveElement
<1>5. Cardinality(Own(f, f[h]) \ {h}) = Cardinality(Own(f, f[h])) - 1
  BY ONLY <1>2, <1>3, <1>4
<1> QED
  BY ONLY <1>1, <1>5

\* CountExact and NoLeak in terms of Own.
LEMMA OwnersOwn == /\ \A p : Owners(p) = Own(atpr, p)
                   /\ \A p : Owners(p)' = Own(atpr', p)
BY DEF Owners, Own

-----------------------------------------------------------------------------
\* Construction: nobody owns the fresh block yet, because no head dangles.
LEMMA ConstructStep ==
  ASSUME HeadIInv, NEW h \in Heads, Construct(h)
  PROVE  HeadIInv'
<1> USE DEF HeadIInv, HeadTypeOK
<1>1. PICK p \in Blocks \ heap : /\ heap' = heap \cup {p}
                                 /\ ref' = [ref EXCEPT ![p] = 1]
                                 /\ atpr' = [atpr EXCEPT ![h] = p]
  BY DEF Construct
<1>2. /\ atpr[h] = None
      /\ atpr[h] # p
  BY NoneAssumption DEF Construct, Live
<1>3. Own(atpr, p) = {}
  BY <1>1, NoneAssumption DEF NoDangling, Live, Own
<1>4. Cardinality(Own(atpr', p)) = 1
  <2>1. Cardinality(Own(atpr', p)) = Cardinality(Own(atpr, p)) + 1
    <3>1. atpr \in [Heads -> Blocks \cup {None}]
      OBVIOUS
    <3>2. atpr' = [atpr EXCEPT ![h] = p] /\ atpr[h] # p
      BY <1>1, <1>2
    <3>3. Own(atpr', p) = Own(atpr, p) \cup {h} /\ h \notin Own(atpr, p)
      BY ONLY h \in Heads, <3>1, <3>2 DEF Own
    <3>4. IsFiniteSet(Own(atpr, p))
      BY OwnFinite
    <3> QED BY ONLY <3>3, <3>4, OwnGain
  <2>2. Cardinality(Own(atpr, p)) = 0
    BY <1>3, FS_EmptySet
  <2> QED BY <2>1, <2>2
<1>5. \A q \in heap : q # p /\ Own(atpr', q) = Own(atpr, q)
  <2> TAKE q \in heap
  <2>1. q # p /\ q # None
    BY <1>1, NoneAssumption
  <2>2. Own(atpr', q) = Own(atpr, q)
    BY <1>1, <1>2, <2>1 DEF Own
  <2> QED BY <2>1, <2>2
<1>6. HeadTypeOK'
  BY <1>1
<1>7. CountExact'
  BY <1>1, <1>4, <1>5, OwnersOwn DEF CountExact
<1>8. NoDangling'
  BY <1>1 DEF NoDangling, Live
<1>9. NoLeak'
  <2>1. h \in Own(atpr', p)
    BY <1>1 DEF Own
  <2> QED BY <1>1, <1>5, <2>1, OwnersOwn DEF NoLeak
<1> QED BY <1>6, <1>7, <1>8, <1>9

\* Copy construction: one owner more, one reference more.
LEMMA CopyConstructStep ==
  ASSUME HeadIInv, NEW h \in Heads, NEW old \in Heads, CopyConstruct(h, old)
  PROVE  HeadIInv'
<1> USE DEF HeadIInv, HeadTypeOK
<1> DEFINE p == atpr[old]
<1>1. /\ atpr[h] = None
      /\ p \in heap
      /\ p # None
      /\ p \in Blocks
      /\ atpr' = [atpr EXCEPT ![h] = p]
      /\ ref' = [ref EXCEPT ![p] = ref[p] + 1]
      /\ heap' = heap
  BY NoneAssumption DEF CopyConstruct, Live, NoDangling
<1>2. Cardinality(Own(atpr', p)) = Cardinality(Own(atpr, p)) + 1
  <2>1. atpr \in [Heads -> Blocks \cup {None}] /\ atpr[h] # p
    BY <1>1
  <2>2. atpr' = [atpr EXCEPT ![h] = p]
    BY <1>1
  <2> HIDE DEF p
  <2>3. Own(atpr', p) = Own(atpr, p) \cup {h} /\ h \notin Own(atpr, p)
    BY ONLY h \in Heads, <2>1, <2>2 DEF Own
  <2>4. IsFiniteSet(Own(atpr, p))
    BY OwnFinite
  <2> QED BY ONLY <2>3, <2>4, OwnGain
<1>3. ASSUME NEW q \in heap, q # p PROVE Own(atpr', q) = Own(atpr, q)
  <2>1. atpr[h] # q
    BY <1>1, NoneAssumption
  <2> QED BY <1>1, <1>3, <2>1 DEF Own
<1>4. HeadTypeOK'
  BY <1>1
<1>5. CountExact'
  BY <1>1, <1>2, <1>3, OwnersOwn DEF CountExact
<1>6. NoDangling'
  BY <1>1 DEF NoDangling, Live
<1>7. NoLeak'
  <2>1. old \in Own(atpr', p)
    BY <1>1 DEF Own
  <2> QED BY <1>1, <1>3, <2>1, OwnersOwn DEF NoLeak
<1> QED BY <1>4, <1>5, <1>6, <1>7

\* Destruction: the block goes exactly when the last owner does.
LEMMA DestroyStep ==
  ASSUME HeadIInv, NEW h \in Heads, Destroy(h)
  PROVE  HeadIInv'
<1> USE DEF HeadIInv, HeadTypeOK
<1> DEFINE p == atpr[h]
<1>1. /\ p # None
      /\ p \in heap
      /\ p \in Blocks
      /\ atpr' = [atpr EXCEPT ![h] = None]
  BY NoneAssumption DEF Destroy, Live, NoDangling
<1>2. /\ Cardinality(Own(atpr', p)) = Cardinality(Own(atpr, p)) - 1
      /\ Own(atpr', p) = Own(atpr, p) \ {h}
  <2>1. atpr \in [Heads -> Blocks \cup {None}] /\ atpr[h] # None
    BY <1>1
  <2> HIDE DEF HeadIInv, HeadTypeOK
  <2> QED BY <1>1, <2>1, OwnLoss
<1>3. ref[p] = Cardinality(Own(atpr, p))
  BY <1>1, OwnersOwn DEF CountExact
<1>4. /\ Cardinality(Own(atpr, p)) \in Nat
      /\ Cardinality(Own(atpr, p)) # 0
      /\ Cardinality(Own(atpr', p)) \in Nat
      /\ Cardinality(Own(atpr', p)) = 0 <=> Own(atpr', p) = {}
  <2>1. h \in Own(atpr, p)
    BY DEF Own
  <2> QED BY <2>1, OwnFinite
<1>5. /\ ref' = [ref EXCEPT ![p] = ref[p] - 1]
      /\ heap' = IF Own(atpr', p) = {} THEN heap \ {p} ELSE heap
  <2> HIDE DEF p
  <2>1. ~(ref[p] - 1 < 0)
    BY <1>3, <1>4
  <2>2. ref[p] - 1 <= 0 <=> Own(atpr', p) = {}
    BY <1>2, <1>3, <1>4
  <2> QED BY <2>1, <2>2 DEF Destroy, p
<1>6. ASSUME NEW q \in heap, q # p PROVE Own(atpr', q) = Own(atpr, q)
  <2>1. q # None
    BY NoneAssumption
  <2> QED BY <1>1, <1>6, <2>1 DEF Own
<1>7. HeadTypeOK'
  <2>1. ref[p] - 1 \in Nat
    BY <1>3, <1>4
  <2> QED BY <1>1, <1>5, <2>1
<1>8. CountExact'
  <2> SUFFICES ASSUME NEW q \in heap'
               PROVE  ref'[q] = Cardinality(Own(atpr', q))
    BY OwnersOwn DEF CountExact
  <2>1. CASE q = p
    BY <2>1, <1>1, <1>2, <1>3, <1>5
  <2>2. CASE q # p
    BY <2>2, <1>5, <1>6, OwnersOwn DEF CountExact
  <2> QED BY <2>1, <2>2
<1>9. NoDangling'
  <2> SUFFICES ASSUME NEW k \in Heads, atpr'[k] # None
               PROVE  atpr'[k] \in heap'
    BY DEF NoDangling, Live
  <2>1. k # h /\ atpr'[k] = atpr[k] /\ atpr[k] \in heap
    BY <1>1 DEF NoDangling, Live
  <2>2. CASE atpr[k] = p
    BY <2>1, <2>2, <1>5 DEF Own
  <2>3. CASE atpr[k] # p
    BY <2>1, <2>3, <1>5
  <2> QED BY <2>2, <2>3
<1>10. NoLeak'
  BY <1>5, <1>6, OwnersOwn DEF NoLeak
<1> QED BY <1>7, <1>8, <1>9, <1>10

\* Assignment: releasing the old link cannot delete the block that is about
\* to be shared, because `old' still owns it.
LEMMA AssignStep ==
  ASSUME HeadIInv, NEW h \in Heads, NEW old \in Heads, Assign(h, old)
  PROVE  HeadIInv'
<1> USE DEF HeadIInv, HeadTypeOK
<1> DEFINE p == atpr[h]
           q == atpr[old]
<1>1. /\ h # old
      /\ p # None /\ p \in heap /\ p \in Blocks
      /\ q # None /\ q \in heap /\ q \in Blocks
      /\ atpr' = [atpr EXCEPT ![h] = q]
      /\ ref' = [[ref EXCEPT ![p] = @ - 1] EXCEPT ![q] = @ + 1]
      /\ heap' = IF ref[p] - 1 <= 0 THEN heap \ {p} ELSE heap
  BY NoneAssumption DEF Assign, Live, NoDangling
<1>2. /\ ref[p] = Cardinality(Own(atpr, p))
      /\ ref[q] = Cardinality(Own(atpr, q))
      /\ ref[p] \in Nat
      /\ ref[q] \in Nat
  BY <1>1, OwnersOwn, OwnFinite DEF CountExact
<1>3. h \in Own(atpr, p) /\ old \in Own(atpr, q)
  BY DEF Own
<1>4. HeadTypeOK'
  <2>1. Own(atpr, p) # {}
    BY <1>3
  <2>2. ref[p] # 0
    BY <1>2, <2>1, OwnFinite
  <2>3. ref[p] - 1 \in Nat
    BY <1>2, <2>2
  <2> QED BY <1>1, <2>3
<1>5. CASE p = q
  <2>1. atpr' = atpr
    BY <1>1, <1>5
  <2>2. ref' = ref
    BY <1>1, <1>2, <1>5
  <2>3. ref[p] - 1 > 0
    <3>1. {h, old} \subseteq Own(atpr, p)
      BY <1>3, <1>5
    <3>2. Cardinality({h, old}) <= Cardinality(Own(atpr, p))
      BY <3>1, OwnFinite, FS_Subset
    <3>3. Cardinality({h, old}) = 2
      <4>1. {h, old} = {h} \cup {old}
        OBVIOUS
      <4>2. IsFiniteSet({h}) /\ Cardinality({h}) = 1
        BY FS_Singleton
      <4>3. old \notin {h}
        BY <1>1
      <4>4. Cardinality({h} \cup {old}) = Cardinality({h}) + 1
        BY ONLY <4>2, <4>3, FS_AddElement
      <4>5. Cardinality({h} \cup {old}) = 2
        <5> DEFINE both == Cardinality({h} \cup {old})
                   one == Cardinality({h})
        <5>1. one = 1 /\ both = one + 1
          BY <4>2, <4>4
        <5> HIDE DEF both, one
        <5>2. both = 2
          BY ONLY <5>1
        <5> QED BY <5>2 DEF both
      <4> QED BY ONLY <4>1, <4>5, Zenon
    <3> QED BY <3>2, <3>3, <1>2
  <2>4. heap' = heap
    BY <1>1, <2>3, <1>2
  <2> QED BY <1>4, <2>1, <2>2, <2>4
          DEF CountExact, NoDangling, NoLeak, Owners, Live
<1>6. CASE p # q
  <2>1. /\ Cardinality(Own(atpr', p)) = Cardinality(Own(atpr, p)) - 1
        /\ Own(atpr', p) = Own(atpr, p) \ {h}
    <3>1. atpr \in [Heads -> Blocks \cup {None}] /\ atpr[h] # q
      BY <1>6
    <3> HIDE DEF q, HeadIInv, HeadTypeOK
    <3> QED BY <1>1, <3>1, OwnLoss
  <2>2. Cardinality(Own(atpr', q)) = Cardinality(Own(atpr, q)) + 1
    <3>1. atpr \in [Heads -> Blocks \cup {None}] /\ atpr[h] # q
      BY <1>6
    <3>2. atpr' = [atpr EXCEPT ![h] = q]
      BY <1>1
    <3> HIDE DEF q
    <3>3. Own(atpr', q) = Own(atpr, q) \cup {h} /\ h \notin Own(atpr, q)
      BY ONLY h \in Heads, <3>1, <3>2 DEF Own
    <3>4. IsFiniteSet(Own(atpr, q))
      BY OwnFinite
    <3> QED BY ONLY <3>3, <3>4, OwnGain
  <2>3. ASSUME NEW x \in heap, x # p, x # q PROVE Own(atpr', x) = Own(atpr, x)
    BY <1>1, <2>3 DEF Own
  <2>4. /\ ref'[p] = ref[p] - 1
        /\ ref'[q] = ref[q] + 1
        /\ \A x \in Blocks : x # p /\ x # q => ref'[x] = ref[x]
    BY <1>1, <1>6
  <2>5. heap' = IF Own(atpr', p) = {} THEN heap \ {p} ELSE heap
    <3> HIDE DEF p
    <3>1. /\ Cardinality(Own(atpr', p)) \in Nat
          /\ Cardinality(Own(atpr', p)) = 0 <=> Own(atpr', p) = {}
      BY OwnFinite
    <3>2. ref[p] - 1 <= 0 <=> Own(atpr', p) = {}
      BY <1>2, <2>1, <3>1
    <3> QED BY <1>1, <3>2
  <2>6. CountExact'
    BY <1>2, <2>1, <2>2, <2>3, <2>4, <2>5, OwnersOwn DEF CountExact
  <2>7. NoDangling'
    <3> SUFFICES ASSUME NEW k \in Heads, atpr'[k] # None
                 PROVE  atpr'[k] \in heap'
      BY DEF NoDangling, Live
    <3>1. CASE k = h
      BY <3>1, <1>1, <1>6, <2>5
    <3>2. CASE k # h
      <4>1. atpr'[k] = atpr[k] /\ atpr[k] \in heap
        BY <3>2, <1>1 DEF NoDangling, Live
      <4>2. k \in Own(atpr', atpr'[k])
        BY DEF Own
      <4> QED BY <4>1, <4>2, <2>5
    <3> QED BY <3>1, <3>2
  <2>8. NoLeak'
    <3>1. h \in Own(atpr', q)
      BY <1>1 DEF Own
    <3> QED BY <2>3, <2>5, <3>1, OwnersOwn DEF NoLeak
  <2> QED BY <1>4, <2>6, <2>7, <2>8
<1> QED BY <1>5, <1>6

\* Copies, assignments and destructions in any order, by any number of heads:
\* the count in a block stays the number of its owners.
THEOREM RefCounting == HeadSpec => []HeadIInv
<1>1. HeadInit => HeadIInv
  BY NoneAssumption DEF HeadInit, HeadIInv, HeadTypeOK, CountExact, NoDangling, NoLeak, Live
<1>2. HeadIInv /\ [HeadNext]_headVars => HeadIInv'
  <2> SUFFICES ASSUME HeadIInv, [HeadNext]_headVars PROVE HeadIInv'
    OBVIOUS
  <2>1. CASE UNCHANGED headVars
    BY <2>1 DEF headVars, HeadIInv, HeadTypeOK, CountExact, NoDangling, NoLeak, Live, Owners
  <2>2. CASE HeadNext
    BY <2>2, ConstructStep, CopyConstructStep, DestroyStep, AssignStep DEF HeadNext
  <2> QED BY <2>1, <2>2
<1> QED BY <1>1, <1>2, PTL DEF HeadSpec

\* A block's stored count is the number of heads that share it.
THEOREM CountIsExact == HeadSpec => []CountExact
<1>1. HeadIInv => CountExact
  BY DEF HeadIInv
<1> QED BY <1>1, RefCounting, PTL

\* No head ever points to a deleted block.
THEOREM NeverDangling == HeadSpec => []NoDangling
<1>1. HeadIInv => NoDangling
  BY DEF HeadIInv
<1> QED BY <1>1, RefCounting, PTL

\* No block outlives the heads that share it.
THEOREM NeverLeaked == HeadSpec => []NoLeak
<1>1. HeadIInv => NoLeak
  BY DEF HeadIInv
<1> QED BY <1>1, RefCounting, PTL
=============================================================================
