------------------------------ MODULE FlagLock ------------------------------
(***************************************************************************)
(* CTaskList::Lock and UnLock of src/public/astTask/astTask.cpp, and how   *)
(* AddTask, Copy, DelTask, Save and Load use them from several threads.    *)
(*                                                                         *)
(* The lock is a plain bool: Lock(timeouts) looks at it up to `timeouts'   *)
(* times, a second apart, and sets it when it found it clear; Lock(0)      *)
(* spins for ever.  Reading and setting the flag are two steps.  Every     *)
(* method calls Lock first, returns 3 when that fails, and calls UnLock on *)
(* every path out of its body (a file that does not open included); the    *)
(* body is the step between `inside' and UnLock.  CAstLogOut has the same  *)
(* lock; LogOut extends this module with what its writers do inside.       *)
(***************************************************************************)
EXTENDS Integers

CONSTANTS Threads,   \* the threads that share the list
          timeouts   \* the argument of Lock: 60 in every method, 0 = for ever

ASSUME TimeoutsAssumption == timeouts \in Nat

VARIABLES m_bLock,     \* the flag
          pc,          \* where each thread is
          tries,       \* Lock's loop counter i
          ret,         \* what the thread's last Lock returned
          overwritten  \* history: some Lock set a flag that was already set

vars == <<m_bLock, pc, tries, ret, overwritten>>

TypeOK == /\ m_bLock \in BOOLEAN
          /\ pc \in [Threads -> {"idle", "test", "set", "sleep", "inside"}]
          /\ tries \in [Threads -> 0..timeouts]
          /\ ret \in [Threads -> {0, 1}]
          /\ overwritten \in BOOLEAN

Init == /\ m_bLock = FALSE
        /\ pc = [t \in Threads |-> "idle"]
        /\ tries = [t \in Threads |-> 0]
        /\ ret = [t \in Threads |-> 0]
        /\ overwritten = FALSE

Goto(t, label) == pc' = [pc EXCEPT ![t] = label]

(* AddTask, Copy, DelTask, Save or Load is called and enters Lock.          *)
Call(t) == /\ pc[t] = "idle"
           /\ Goto(t, "test")
           /\ tries' = [tries EXCEPT ![t] = 0]
           /\ UNCHANGED <<m_bLock, ret, overwritten>>

(* if(!m_bLock): what is found here may be stale when the flag is set.      *)
TestClear(t) == /\ pc[t] = "test"
                /\ ~m_bLock
                /\ Goto(t, "set")
                /\ UNCHANGED <<m_bLock, tries, ret, overwritten>>

(* while(m_bLock); does not count its turns, so Lock(0) has no such step.   *)
TestBusy(t) == /\ pc[t] = "test"
               /\ m_bLock
               /\ timeouts # 0
               /\ Goto(t, "sleep")
               /\ UNCHANGED <<m_bLock, tries, ret, overwritten>>

(* m_bLock = true; return 0;                                                *)
SetFlag(t) == /\ pc[t] = "set"
              /\ m_bLock' = TRUE
              /\ overwritten' = (overwritten \/ m_bLock)
              /\ ret' = [ret EXCEPT ![t] = 0]
              /\ Goto(t, "inside")
              /\ UNCHANGED tries

\* A method that unlocks although Lock failed, and a Lock that never gives up.
SleepUnlocks(t) == /\ pc[t] = "sleep"
                   /\ tries' = [tries EXCEPT ![t] = @ + 1]
                   /\ IF tries[t] + 1 < timeouts
                      THEN Goto(t, "test") /\ UNCHANGED <<m_bLock, ret>>
                      ELSE Goto(t, "idle") /\ ret' = [ret EXCEPT ![t] = 1] /\ m_bLock' = FALSE
                   /\ UNCHANGED overwritten

SleepUncounted(t) == pc[t] = "sleep" /\ Goto(t, "test") /\ UNCHANGED <<m_bLock, tries, ret, overwritten>>

(* sleep(1); i++: Lock gives up after `timeouts' turns with 1, and the      *)
(* method returns without having touched the list or the flag.              *)
Sleep(t) == /\ pc[t] = "sleep"
            /\ tries' = [tries EXCEPT ![t] = @ + 1]
            /\ IF tries[t] + 1 < timeouts
               THEN Goto(t, "test") /\ UNCHANGED ret
               ELSE Goto(t, "idle") /\ ret' = [ret EXCEPT ![t] = 1]
            /\ UNCHANGED <<m_bLock, overwritten>>

\* A path out of a method that forgets UnLock.
ReturnLocked(t) == /\ pc[t] = "inside"
                   /\ Goto(t, "idle")
                   /\ UNCHANGED <<m_bLock, tries, ret, overwritten>>

UnLock(t) == /\ pc[t] = "inside"
             /\ m_bLock' = FALSE
             /\ Goto(t, "idle")
             /\ UNCHANGED <<tries, ret, overwritten>>

Step(t) == TestClear(t) \/ TestBusy(t) \/ SetFlag(t) \/ Sleep(t) \/ UnLock(t)

Next == \E t \in Threads : Call(t) \/ Step(t)

Spec == Init /\ [][Next]_vars

\* The operating system runs every thread; nobody has to call a method.
Fairness == \A t \in Threads : WF_vars(Step(t))

FairSpec == Spec /\ Fairness

-----------------------------------------------------------------------------
Inside == {t \in Threads : pc[t] = "inside"}

(* The list is never left locked behind: whenever the flag is set, a thread *)
(* is inside a method and will clear it, however Lock's races ended.        *)
FlagHeld == m_bLock => Inside # {}

(* "多线程对此队列的操作": the flag is there so that several threads can use  *)
(* the list, one at a time.                                                 *)
MutualExclusion == \A t, u \in Inside : t = u

(* The unlocked window between reading and setting the flag is the only way *)
(* in: as long as no Lock set a flag that was already set, threads exclude  *)
(* each other and the flag says exactly whether one is inside.              *)
ExclusiveUnlessOverwritten ==
  ~overwritten => MutualExclusion /\ (m_bLock <=> Inside # {})

(* Lock(60) bounds the wait, so every call returns, whether it got the flag *)
(* or not, even when threads overtake each other at the flag.               *)
CallsReturn == \A t \in Threads : pc[t] # "idle" ~> pc[t] = "idle"
=============================================================================
