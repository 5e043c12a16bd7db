------------------------------ MODULE TaskList ------------------------------
(***************************************************************************)
(* CTaskList of src/public/astTask: the agent's list of tasks, a C++       *)
(* vector with a cursor m_iCurrent that callers walk with Begin and Next.  *)
(*                                                                         *)
(* This module is the list as one thread sees it: each public method is    *)
(* one action, from Lock to UnLock.  What several threads may do to the    *)
(* lock flag is in FlagLock, what Save and Load do to the list through a   *)
(* file is in TaskFile.                                                    *)
(*                                                                         *)
(* A task keeps the fields the list itself looks at (tid, type, invalid)   *)
(* and ftime, the time the server issued it, which tells an update from    *)
(* the task it updates.                                                    *)
(***************************************************************************)
EXTENDS TaskOps

CONSTANTS Tids,     \* task identifiers
          Types,    \* task types (TYPE_EXAM_HEALTH, TYPE_COMMAND, ...)
          Ftimes,   \* issue times
          Gone,     \* newest[tid] when no task of that tid should be listed
          MaxTasks  \* bound on the length of the list, for TLC

ASSUME MaxTasksAssumption == MaxTasks \in Nat
ASSUME GoneAssumption == Gone \notin Ftimes

Task == [tid : Tids, type : Types, invalid : Enabled..Running, ftime : Ftimes]

VARIABLES m_TaskList,   \* the vector
          m_iCurrent,   \* the cursor, as an index; Len + 1 is end()
          newest,       \* history: ftime of the last task added per tid
          everDisabled  \* history: InvalidTask has disabled some task

vars == <<m_TaskList, m_iCurrent, newest, everDisabled>>

TypeOK == /\ m_TaskList \in Seq(Task)
          /\ m_iCurrent \in Nat \ {0}
          /\ newest \in [Tids -> Ftimes \cup {Gone}]
          /\ everDisabled \in BOOLEAN

-----------------------------------------------------------------------------
Init == /\ m_TaskList = <<>>
        /\ m_iCurrent = 1
        /\ newest = [tid \in Tids |-> Gone]
        /\ everDisabled = FALSE

AddTask(task) ==
  /\ m_TaskList' = _AddTask(m_TaskList, task)
  /\ Len(m_TaskList') <= MaxTasks
  /\ m_iCurrent' = 1
  /\ newest' = [newest EXCEPT ![task.tid] = task.ftime]
  /\ UNCHANGED everDisabled

\* A DelTask that forgets the tail, and one that steps the cursor back.
DelTaskNoWrap(tid) ==
  LET it == FindTask(m_TaskList, tid)
  IN /\ m_TaskList' = IF it = 0 THEN m_TaskList ELSE RemoveAt(m_TaskList, it)
     /\ newest' = [newest EXCEPT ![tid] = Gone]
     /\ UNCHANGED <<m_iCurrent, everDisabled>>

DelTaskStepsBack(tid) ==
  LET it == FindTask(m_TaskList, tid)
  IN /\ m_TaskList' = IF it = 0 THEN m_TaskList ELSE RemoveAt(m_TaskList, it)
     /\ m_iCurrent' = IF it # 0 THEN m_iCurrent - 1 ELSE m_iCurrent
     /\ newest' = [newest EXCEPT ![tid] = Gone]
     /\ UNCHANGED everDisabled

(* DelTask: the vector's erase moves the later tasks one place down and     *)
(* leaves the cursor, a bare address, where it was, unless the tail went.   *)
DelTask(tid) ==
  LET it == FindTask(m_TaskList, tid)
      bEnd == it = Len(m_TaskList)
  IN /\ m_TaskList' = IF it = 0 THEN m_TaskList ELSE RemoveAt(m_TaskList, it)
     /\ m_iCurrent' = IF it # 0 /\ bEnd THEN 1 ELSE m_iCurrent
     /\ newest' = [newest EXCEPT ![tid] = Gone]
     /\ UNCHANGED everDisabled

InvalidTask(type) ==
  /\ m_TaskList' = Invalidate(m_TaskList, type)
  /\ everDisabled' = (everDisabled \/ \E k \in DOMAIN m_TaskList : m_TaskList[k].type = type)
  /\ UNCHANGED <<m_iCurrent, newest>>

TaskClear ==
  /\ m_TaskList' = <<>>
  /\ m_iCurrent' = 1
  /\ newest' = [tid \in Tids |-> Gone]
  /\ UNCHANGED everDisabled

Begin == m_iCurrent' = 1 /\ UNCHANGED <<m_TaskList, newest, everDisabled>>

\* Next compares with end() only: a cursor past end() keeps advancing.
NextTask ==
  /\ m_iCurrent # Len(m_TaskList) + 1
  /\ m_iCurrent <= MaxTasks + 1
  /\ m_iCurrent' = m_iCurrent + 1
  /\ UNCHANGED <<m_TaskList, newest, everDisabled>>

(* The owner of the list sets `invalid' through the pointer FindTask or     *)
(* FindFirst returned: a task it starts is Running, one it drops Deleted.   *)
MarkTask(k, invalid) ==
  /\ m_TaskList' = [m_TaskList EXCEPT ![k].invalid = invalid]
  /\ UNCHANGED <<m_iCurrent, newest, everDisabled>>

MarkFound(tid, invalid) ==
  LET k == FindTask(m_TaskList, tid) IN k # 0 /\ MarkTask(k, invalid)

StartFirst(type) ==
  LET k == FindFirst(m_TaskList, type) IN k # 0 /\ MarkTask(k, Running)

\* A task the agent adds was just received: it is enabled.
NewTask == [tid : Tids, type : Types, invalid : {Enabled}, ftime : Ftimes]

ListOps == \/ \E task \in NewTask : AddTask(task)
           \/ \E tid \in Tids : DelTask(tid) \/ \E v \in {Enabled, Deleted} : MarkFound(tid, v)
           \/ \E type \in Types : InvalidTask(type) \/ StartFirst(type)
           \/ TaskClear
           \/ Begin
           \/ NextTask

Next == ListOps

Spec == Init /\ [][Next]_vars

-----------------------------------------------------------------------------
UniqueTids(list) ==
  \A i, j \in DOMAIN list : list[i].tid = list[j].tid => i = j

(* "清除任务invalid为1的任务或者已存在的任务 / 删除原来的，更新新任务": as long   *)
(* as InvalidTask disabled nothing, _AddTask replaces the task it updates,  *)
(* so a tid is listed at most once and FindTask gives its newest version.   *)
OneTaskPerTid == ~everDisabled => UniqueTids(m_TaskList)

FindsNewest ==
  ~everDisabled =>
     \A tid \in Tids : LET k == FindTask(m_TaskList, tid) IN
                       newest[tid] = IF k = 0 THEN Gone ELSE m_TaskList[k].ftime

(* The same claim without the proviso, as the comments at lines 571 and 573 *)
(* make it.  The loop stops at the first clash, which may be a disabled     *)
(* task in front of the one to be replaced.                                 *)
AlwaysOneTaskPerTid == UniqueTids(m_TaskList)

(* Adding a task never costs the agent another task that is still wanted:   *)
(* every enabled or running task of another tid keeps its place in the      *)
(* order, whatever mix of duplicates and disabled tasks the list holds.     *)
Wanted(list, tid) == {k \in DOMAIN list : list[k].tid # tid /\ list[k].invalid # Disabled}

SameTasks(old, new, tid) ==
  \E to \in Bijection(Wanted(old, tid), Wanted(new, tid)) :
     \A i, j \in Wanted(old, tid) : new[to[i]] = old[i] /\ (i < j => to[i] < to[j])

AddKeepsOthers ==
  [][\A task \in NewTask : AddTask(task) => SameTasks(m_TaskList, m_TaskList', task.tid)]_vars

(* "删除后m_pCurrent 指向下一个节点，如果删除尾节点，则指向头节点": true when    *)
(* the caller deletes the task its cursor is on, the loop DelTask is for.   *)
DelCurrentMovesOn ==
  [][\A tid \in Tids :
        LET it == FindTask(m_TaskList, tid) IN
        DelTask(tid) /\ it # 0 /\ it = m_iCurrent =>
          IF it = Len(m_TaskList)
          THEN m_iCurrent' = 1
          ELSE m_TaskList'[m_iCurrent'] = m_TaskList[it + 1]]_vars
=============================================================================
