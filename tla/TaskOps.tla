------------------------------- MODULE TaskOps -------------------------------
(***************************************************************************)
(* What the methods of CTaskList (src/public/astTask/astTask.cpp) do to a  *)
(* vector of tasks, as operators on sequences of records with at least the *)
(* fields tid, type and invalid.                                           *)
(***************************************************************************)
EXTENDS Integers, Sequences, SequencesExt

Enabled == 0   \* values of TASKHEAD::invalid
Disabled == 1
Deleted == 2
Running == 3

\* Conditions that miss the task to be replaced, or hit a running one.
ClashesDisabled(old, task) == old.invalid = Disabled
ClashesNotEnabled(old, task) == old.tid = task.tid \/ old.invalid # Enabled

\* An _AddTask that leaves a task it knows as it was.
AddTaskUnlessKnown(list, task) ==
  IF \E k \in DOMAIN list : list[k].tid = task.tid THEN list ELSE Append(list, task)

(* _AddTask: the first task with the same tid, or disabled, makes room; the *)
(* new one goes to the end.                                                 *)
Clashes(old, task) == old.tid = task.tid \/ old.invalid = Disabled

_AddTask(list, task) ==
  Append(RemoveFirstMatch(list, LAMBDA old : Clashes(old, task)), task)

(* FindTask and FindFirst: the index of the first match, 0 for NULL.        *)
FindTask(list, tid) == SelectInSeq(list, LAMBDA t : t.tid = tid)

FindFirst(list, type) ==
  SelectInSeq(list, LAMBDA t : t.type = type /\ t.invalid = Enabled)

(* InvalidTask: every task of the type is disabled.                         *)
Invalidate(list, type) ==
  [k \in DOMAIN list |->
     IF list[k].type = type THEN [list[k] EXCEPT !.invalid = Disabled] ELSE list[k]]
=============================================================================
