--------------------------- MODULE FlagLockProofs ---------------------------
(***************************************************************************)
(* What the flag lock of CTaskList and CAstLogOut does guarantee, for any  *)
(* set of threads and any number of tries: it is never orphaned, and       *)
(* threads do exclude each other unless one of them set a flag that was    *)
(* already set.  The log, whose writers take the flag, inherits this; its  *)
(* file is used when it is not open only after such a race or after a      *)
(* rotation that failed.                                                   *)
(***************************************************************************)
EXTENDS LogOut, TLAPS

\* Lock tests and sleeps only in turns its loop condition i < timeouts allows.
LoopBound ==
  \A t \in Threads : pc[t] \in {"test", "sleep"} /\ timeouts # 0 => tries[t] < timeouts

SleepBound == timeouts = 0 => \A t \in Threads : pc[t] # "sleep"

IInv == TypeOK /\ LoopBound /\ SleepBound /\ FlagHeld /\ ExclusiveUnlessOverwritten

\* A step that keeps a thread out of the body leaves Inside as it was.
LEMMA InsideSame ==
  ASSUME TypeOK, NEW t \in Threads, pc[t] # "inside", NEW label,
         label # "inside", Goto(t, label)
  PROVE  Inside' = Inside
BY DEF TypeOK, Goto, Inside

\* Boolean variables keep their type.
LEMMA BooleanType ==
  ASSUME TypeOK, Next PROVE m_bLock' \in BOOLEAN /\ overwritten' \in BOOLEAN
<1>1. m_bLock \in BOOLEAN /\ overwritten \in BOOLEAN
  BY DEF TypeOK
<1> QED
  BY <1>1, Zenon
     DEF Next, Step, Call, TestClear, TestBusy, SetFlag, Sleep, UnLock

\* The other variables keep their types, and Lock's loop its bound.
LEMMA CounterType ==
  ASSUME TypeOK, LoopBound, SleepBound, Next
  PROVE  /\ LoopBound'
         /\ SleepBound'
         /\ pc' \in [Threads -> {"idle", "test", "set", "sleep", "inside"}]
         /\ tries' \in [Threads -> 0..timeouts]
         /\ ret' \in [Threads -> {0, 1}]
<1> USE TimeoutsAssumption DEF TypeOK, LoopBound, SleepBound, Goto
<1>1. PICK t \in Threads : Call(t) \/ Step(t)
  BY DEF Next
<1>2. CASE Call(t)
  BY <1>2 DEF Call
<1>3. CASE TestClear(t)
  BY <1>3 DEF TestClear
<1>4. CASE TestBusy(t)
  BY <1>4 DEF TestBusy
<1>5. CASE SetFlag(t)
  BY <1>5 DEF SetFlag
<1>6. CASE Sleep(t)
  <2>1. CASE tries[t] + 1 < timeouts
    BY <1>6, <2>1 DEF Sleep
  <2>2. CASE ~(tries[t] + 1 < timeouts)
    BY <1>6, <2>2 DEF Sleep
  <2> QED BY <2>1, <2>2
<1>7. CASE UnLock(t)
  BY <1>7 DEF UnLock
<1> QED BY <1>1, <1>2, <1>3, <1>4, <1>5, <1>6, <1>7 DEF Step

\* The lock starts in the inductive invariant, and every step of it stays there.
LEMMA LockInit == Init => IInv
<1> SUFFICES ASSUME Init PROVE IInv
  OBVIOUS
<1>1. Inside = {}
  BY DEF Init, Inside
<1>2. m_bLock = FALSE /\ overwritten = FALSE
  BY DEF Init
<1>3. TypeOK
  <2>1. m_bLock \in BOOLEAN /\ overwritten \in BOOLEAN
    BY <1>2, Zenon
  <2> QED BY <2>1, TimeoutsAssumption DEF Init, TypeOK
<1>4. LoopBound /\ SleepBound
  BY DEF Init, LoopBound, SleepBound
<1> QED BY <1>1, <1>2, <1>3, <1>4 DEF IInv, FlagHeld, ExclusiveUnlessOverwritten, MutualExclusion

\* A step of the lock keeps its invariant.
LEMMA LockStep == IInv /\ [Next]_vars => IInv'
<1> SUFFICES ASSUME IInv, [Next]_vars PROVE IInv'
  OBVIOUS
<1> USE DEF FlagHeld, ExclusiveUnlessOverwritten, MutualExclusion
<1>1. CASE UNCHANGED vars
  BY <1>1 DEF vars, IInv, TypeOK, LoopBound, SleepBound, Inside
<1>2. CASE Next
  <2>1. TypeOK' /\ LoopBound' /\ SleepBound'
    BY <1>2, BooleanType, CounterType DEF IInv, TypeOK
  <2>2. PICK t \in Threads : Call(t) \/ Step(t)
    BY <1>2 DEF Next
  <2>3. TypeOK /\ FlagHeld /\ ExclusiveUnlessOverwritten
    BY DEF IInv
  <2>4. CASE Call(t) \/ TestClear(t) \/ TestBusy(t) \/ Sleep(t)
    <3>1. m_bLock' = m_bLock /\ overwritten' = overwritten
      BY <2>4 DEF Call, TestClear, TestBusy, Sleep
    <3>2. Inside' = Inside
      BY <2>3, <2>4, InsideSame DEF Call, TestClear, TestBusy, Sleep
    <3> QED BY <2>1, <2>3, <3>1, <3>2 DEF IInv
  <2>5. CASE SetFlag(t)
    <3>1. Inside' = Inside \cup {t}
      BY <2>3, <2>5 DEF SetFlag, Goto, Inside, TypeOK
    <3>2. m_bLock' = TRUE /\ (~overwritten' => ~overwritten /\ ~m_bLock)
      BY <2>5, Zenon DEF SetFlag
    <3> QED BY <2>1, <2>3, <3>1, <3>2 DEF IInv
  <2>6. CASE UnLock(t)
    <3>1. Inside' = Inside \ {t} /\ t \in Inside
      BY <2>3, <2>6 DEF UnLock, Goto, Inside, TypeOK
    <3>2. m_bLock' = FALSE /\ overwritten' = overwritten
      BY <2>6 DEF UnLock
    <3> QED BY <2>1, <2>3, <3>1, <3>2 DEF IInv
  <2> QED BY <2>2, <2>4, <2>5, <2>6 DEF Step
<1> QED BY <1>1, <1>2

\* The inductive invariant of the lock.
THEOREM Invariance == Spec => []IInv
BY LockInit, LockStep, PTL DEF Spec

\* No method of CTaskList leaves the flag set behind it, whatever the races.
THEOREM NeverOrphaned == Spec => []FlagHeld
<1>1. IInv => FlagHeld
  BY DEF IInv
<1> QED BY <1>1, Invariance, PTL

\* Exclusion is lost only through a Lock that sets a flag another Lock has set
\* since it was read: making the two steps one would restore it.
THEOREM ExclusionLostOnlyByOverwriting == Spec => []ExclusiveUnlessOverwritten
<1>1. IInv => ExclusiveUnlessOverwritten
  BY DEF IInv
<1> QED BY <1>1, Invariance, PTL

-----------------------------------------------------------------------------
(* The log                                                                  *)

\* A step of the log is a step of its lock, or leaves the lock alone.
LEMMA LogUsesLock == [LogNext]_logVars => [Next]_vars
<1> SUFFICES ASSUME [LogNext]_logVars PROVE [Next]_vars
  OBVIOUS
<1>1. CASE UNCHANGED logVars
  BY <1>1 DEF logVars
<1>2. ASSUME NEW t \in Threads, Enter(t) \/ OpenFile(t) \/ Check(t) PROVE [Next]_vars
  BY <1>2 DEF Enter, OpenFile, Check, Next
<1>3. ASSUME NEW t \in Threads, Wait(t) \/ Acquire(t) \/ Release(t) PROVE [Next]_vars
  BY <1>3 DEF Wait, Acquire, Release, Next, Step
<1>4. ASSUME NEW t \in Threads, Write(t) \/ CloseFile(t) \/ Reopen(t) PROVE [Next]_vars
  BY <1>4 DEF Write, CloseFile, Reopen
<1> QED BY <1>1, <1>2, <1>3, <1>4 DEF LogNext, LogStep

\* A writer is at a place behind Lock exactly while it is inside, and has not
\* called Lock yet while it opens the file.
PlacesInside == \A t \in Threads :
  /\ pc[t] = "inside" <=> at[t] \in {"write", "close", "reopen", "unlock"}
  /\ at[t] \in {"open", "check"} => pc[t] = "idle"

\* A closed file belongs to the writer that will open the next, and a writer
\* that has found a file never sees it become NULL.
FileState ==
  ~overwritten /\ ~failed =>
    /\ m_fp = "closed" => \E t \in Threads : at[t] = "reopen"
    /\ \A t \in Threads : pc[t] # "idle" => m_fp # "null"

LogInv == IInv /\ LogTypeOK /\ PlacesInside /\ FileState /\ MisuseHasCause

\* The log starts with its flag clear and no writer.
LEMMA LogStart == LogInit => LogInv
<1> SUFFICES ASSUME LogInit PROVE LogInv
  OBVIOUS
<1>1. IInv
  BY LockInit DEF LogInit
<1>2. failed \in BOOLEAN /\ misused \in BOOLEAN
  BY Zenon DEF LogInit
<1>3. LogTypeOK
  BY <1>1, <1>2, SizeAssumption DEF IInv, LogInit, LogTypeOK, Places
<1>4. PlacesInside /\ FileState /\ MisuseHasCause
  BY DEF LogInit, Init, PlacesInside, FileState, MisuseHasCause
<1> QED BY <1>1, <1>3, <1>4 DEF LogInv

\* As long as no flag was set twice one writer at most is inside.
LEMMA OneInside ==
  ASSUME LogInv, ~overwritten, NEW t \in Threads, NEW u \in Threads, pc[t] = "inside", pc[u] = "inside"
  PROVE  t = u
BY DEF LogInv, IInv, ExclusiveUnlessOverwritten, MutualExclusion, Inside

\* WriteLog looks at m_fp, at once or when it has opened the file: whoever goes
\* on to Lock has seen a file.
LEMMA EnterStep == ASSUME LogInv, NEW t \in Threads, Enter(t) \/ Check(t) PROVE LogInv'
<1>1. IInv'
  BY LogUsesLock, LockStep DEF LogInv, LogNext, LogStep
<1>2. UNCHANGED <<m_fp, size, failed, misused, overwritten>>
  BY DEF Enter, Check, Call, vars
<1>3. pc \in [Threads -> {"idle", "test", "set", "sleep", "inside"}] /\ at \in [Threads -> Places]
  BY DEF LogInv, LogTypeOK, TypeOK
<1>4. /\ pc[t] = "idle" /\ at[t] \in {"out", "check"}
      /\ \/ pc' = pc /\ \E p \in {"out", "open"} : at' = [at EXCEPT ![t] = p]
         \/ m_fp # "null" /\ pc' = [pc EXCEPT ![t] = "test"] /\ at' = [at EXCEPT ![t] = "out"]
  <2>1. CASE Enter(t)
    <3>1. at' = at => at' = [at EXCEPT ![t] = "out"]
      BY <1>3, <2>1 DEF Enter
    <3> QED BY <2>1, <3>1 DEF Enter, Call, Goto, At, vars
  <2>2. CASE Check(t)
    <3>1. pc[t] = "idle"
      BY <2>2 DEF Check, LogInv, PlacesInside
    <3> QED BY <2>2, <3>1 DEF Check, Call, Goto, At, vars
  <2> QED BY <2>1, <2>2
<1>5. LogTypeOK'
  <2>1. at' \in [Threads -> Places]
    BY <1>3, <1>4 DEF Places
  <2> QED BY <1>1, <1>2, <2>1 DEF LogInv, LogTypeOK, IInv
<1>6. PlacesInside'
  BY <1>3, <1>4 DEF LogInv, PlacesInside
<1>7. FileState'
  <2>1. \A u \in Threads : at[u] = "reopen" => at'[u] = "reopen"
    BY <1>3, <1>4
  <2>2. \A u \in Threads : pc'[u] # "idle" => pc[u] # "idle" \/ m_fp # "null"
    BY <1>3, <1>4
  <2> QED BY <1>2, <2>1, <2>2 DEF LogInv, FileState
<1>8. MisuseHasCause'
  BY <1>2 DEF LogInv, MisuseHasCause
<1> QED BY <1>1, <1>5, <1>6, <1>7, <1>8 DEF LogInv

\* A writer that saw NULL stores what fopen gave it: only a NULL over a file
\* can hurt the others, and that is noted.
LEMMA OpenStep == ASSUME LogInv, NEW t \in Threads, OpenFile(t) PROVE LogInv'
<1>1. UNCHANGED vars /\ UNCHANGED <<pc, overwritten, misused>>
  BY DEF OpenFile, vars
<1>2. IInv'
  BY <1>1, LockStep DEF LogInv
<1>3. at \in [Threads -> Places] /\ at[t] = "open" /\ at' = [at EXCEPT ![t] = "check"]
  BY DEF LogInv, LogTypeOK, OpenFile, At
<1>4. \/ m_fp' = "open" /\ UNCHANGED failed
      \/ m_fp' = "null" /\ (failed \/ m_fp # "null" => failed') /\ (failed' => failed \/ m_fp # "null")
  BY Zenon DEF OpenFile
<1>5. failed' \in BOOLEAN /\ (failed => failed')
  <2>1. failed \in BOOLEAN
    BY Zenon DEF LogInv, LogTypeOK
  <2>2. CASE failed' = failed
    BY <2>1, <2>2, Zenon
  <2>3. CASE failed' = (failed \/ m_fp # "null")
    BY <2>3, Zenon
  <2>4. failed' = failed \/ failed' = (failed \/ m_fp # "null")
    BY Zenon DEF OpenFile
  <2> QED BY <2>2, <2>3, <2>4
<1>6. size' \in Nat
  BY SizeAssumption DEF OpenFile, LogInv, LogTypeOK
<1>7. LogTypeOK'
  <2>1. at' \in [Threads -> Places]
    BY <1>3 DEF Places
  <2> QED BY <1>1, <1>2, <1>4, <1>5, <1>6, <2>1 DEF LogInv, LogTypeOK, IInv
<1>8. PlacesInside'
  BY <1>1, <1>3 DEF LogInv, PlacesInside
<1>9. FileState'
  <2>1. ~failed' => ~failed /\ (m_fp' = "open" \/ (m_fp = "null" /\ m_fp' = "null"))
    BY <1>4, <1>5
  <2> QED BY <1>1, <2>1 DEF LogInv, FileState
<1>10. MisuseHasCause'
  BY <1>1, <1>5 DEF LogInv, MisuseHasCause
<1> QED BY <1>2, <1>7, <1>8, <1>9, <1>10 DEF LogInv

\* The turns of Lock.
LEMMA WaitStep == ASSUME LogInv, NEW t \in Threads, Wait(t) PROVE LogInv'
<1>1. IInv'
  BY LogUsesLock, LockStep DEF LogInv, LogNext, LogStep
<1>2. UNCHANGED <<m_fp, size, at, failed, misused, overwritten>>
  BY DEF Wait, log, TestClear, TestBusy, Sleep
<1>3. LogTypeOK' /\ MisuseHasCause'
  BY <1>1, <1>2 DEF LogInv, LogTypeOK, IInv, MisuseHasCause
<1>4. \A u \in Threads : \/ pc'[u] = pc[u]
                         \/ pc[u] \in {"test", "sleep"} /\ pc'[u] \in {"idle", "test", "set", "sleep"}
  BY DEF Wait, TestClear, TestBusy, Sleep, Goto, LogInv, LogTypeOK, TypeOK
<1>5. PlacesInside'
  BY <1>2, <1>4 DEF LogInv, PlacesInside
<1>6. FileState'
  BY <1>2, <1>4 DEF LogInv, FileState
<1> QED BY <1>1, <1>3, <1>5, <1>6 DEF LogInv

\* The flag is taken, or given back: the file is where it was.
LEMMA TurnStep ==
  ASSUME LogInv, NEW t \in Threads, Acquire(t) \/ Release(t) PROVE LogInv'
<1>1. IInv'
  BY LogUsesLock, LockStep DEF LogInv, LogNext, LogStep
<1>2. /\ UNCHANGED <<m_fp, size, failed, misused>>
      /\ overwritten => overwritten'
  <2>1. UNCHANGED <<m_fp, size, failed, misused>>
    BY DEF Acquire, Release
  <2>2. CASE SetFlag(t)
    BY <2>1, <2>2, Zenon DEF SetFlag
  <2>3. CASE UnLock(t)
    BY <2>1, <2>3 DEF UnLock
  <2> QED BY <2>2, <2>3 DEF Acquire, Release
<1>3. \/ /\ pc[t] = "set" /\ pc' = [pc EXCEPT ![t] = "inside"] /\ at' = [at EXCEPT ![t] = "write"]
      \/ /\ pc[t] = "inside" /\ pc' = [pc EXCEPT ![t] = "idle"] /\ at' = [at EXCEPT ![t] = "out"]
         /\ at[t] = "unlock"
  BY DEF Acquire, Release, SetFlag, UnLock, Goto, At
<1>4. pc \in [Threads -> {"idle", "test", "set", "sleep", "inside"}] /\ at \in [Threads -> Places]
  BY DEF LogInv, LogTypeOK, TypeOK
<1>5. LogTypeOK'
  <2>1. at' \in [Threads -> Places]
    BY <1>3, <1>4 DEF Places
  <2> QED BY <1>1, <1>2, <2>1 DEF LogInv, LogTypeOK, IInv
<1>6. PlacesInside'
  BY <1>3, <1>4 DEF LogInv, PlacesInside
<1>7. FileState'
  <2>1. \A u \in Threads : at[u] = "reopen" => at'[u] = "reopen"
    BY <1>3, <1>4 DEF LogInv, PlacesInside
  <2>2. \A u \in Threads : pc'[u] # "idle" => pc[u] # "idle"
    BY <1>3, <1>4
  <2> QED BY <1>2, <2>1, <2>2 DEF LogInv, FileState
<1>8. MisuseHasCause'
  BY <1>2 DEF LogInv, MisuseHasCause
<1> QED BY <1>1, <1>5, <1>6, <1>7, <1>8 DEF LogInv

\* Whoever writes or closes finds the file open, unless there is a cause.
LEMMA UseHasCause ==
  ASSUME LogInv, NEW t \in Threads, at[t] \in {"write", "close"}, Use,
         UNCHANGED <<overwritten, failed>>
  PROVE  MisuseHasCause' /\ misused' \in BOOLEAN
<1>1. ASSUME ~overwritten, ~failed PROVE m_fp = "open"
  <2>1. pc[t] = "inside"
    BY DEF LogInv, PlacesInside
  <2>2. m_fp # "null"
    BY <1>1, <2>1 DEF LogInv, FileState
  <2>3. m_fp # "closed"
    <3>1. ASSUME NEW u \in Threads, at[u] = "reopen" PROVE FALSE
      <4>1. pc[u] = "inside"
        BY <3>1 DEF LogInv, PlacesInside
      <4> QED BY <1>1, <2>1, <3>1, <4>1, OneInside
    <3> QED BY <1>1, <3>1 DEF LogInv, FileState
  <2> QED BY <2>2, <2>3 DEF LogInv, LogTypeOK
<1>2. misused' \in BOOLEAN
  BY DEF Use
<1> QED BY <1>1, <1>2 DEF LogInv, Use, MisuseHasCause

\* What a writer does inside leaves the lock alone.
LEMMA InsideStep ==
  ASSUME LogInv, NEW t \in Threads, Write(t) \/ CloseFile(t) \/ Reopen(t) PROVE LogInv'
<1>1. UNCHANGED vars /\ UNCHANGED <<pc, overwritten>>
  BY DEF Write, CloseFile, Reopen, vars
<1>2. IInv'
  BY <1>1, LockStep DEF LogInv
<1>3. at \in [Threads -> Places]
  BY DEF LogInv, LogTypeOK
<1>4. CASE Write(t)
  <2>1. /\ MisuseHasCause' /\ misused' \in BOOLEAN
        /\ UNCHANGED <<m_fp, failed>> /\ size' \in Nat
        /\ at[t] = "write" /\ \E p \in {"close", "unlock"} : at' = [at EXCEPT ![t] = p]
    <3>1. MisuseHasCause' /\ misused' \in BOOLEAN
      BY <1>1, <1>4, UseHasCause DEF Write
    <3>2. size' \in Nat
      BY <1>4 DEF Write, LogInv, LogTypeOK
    <3> QED BY <1>4, <3>1, <3>2 DEF Write, At
  <2>2. LogTypeOK' /\ PlacesInside'
    BY <1>1, <1>2, <1>3, <2>1 DEF LogInv, LogTypeOK, IInv, PlacesInside, Places
  <2>3. FileState'
    BY <1>1, <1>3, <2>1 DEF LogInv, FileState
  <2> QED BY <1>2, <2>1, <2>2, <2>3 DEF LogInv
<1>5. CASE CloseFile(t)
  <2>1. /\ MisuseHasCause' /\ misused' \in BOOLEAN
        /\ m_fp' = "closed" /\ UNCHANGED failed /\ size' \in Nat
        /\ at[t] = "close" /\ at' = [at EXCEPT ![t] = "reopen"]
    <3>1. MisuseHasCause' /\ misused' \in BOOLEAN
      BY <1>1, <1>5, UseHasCause DEF CloseFile
    <3> QED BY <1>5, <3>1 DEF CloseFile, At
  <2>2. LogTypeOK' /\ PlacesInside'
    BY <1>1, <1>2, <1>3, <2>1 DEF LogInv, LogTypeOK, IInv, PlacesInside, Places
  <2>3. FileState'
    BY <1>3, <2>1 DEF FileState
  <2> QED BY <1>2, <2>1, <2>2, <2>3 DEF LogInv
<1>6. CASE Reopen(t)
  <2>1. /\ UNCHANGED <<size, misused>>
        /\ \/ m_fp' = "open" /\ UNCHANGED failed
           \/ m_fp' = "null" /\ failed'
        /\ at[t] = "reopen" /\ at' = [at EXCEPT ![t] = "unlock"]
    BY <1>6, Zenon DEF Reopen, At
  <2>2. failed' \in BOOLEAN
    BY <1>6, Zenon DEF Reopen, LogInv, LogTypeOK
  <2>3. LogTypeOK' /\ PlacesInside'
    BY <1>1, <1>2, <1>3, <2>1, <2>2 DEF LogInv, LogTypeOK, IInv, PlacesInside, Places
  <2>4. FileState' /\ MisuseHasCause'
    BY <1>1, <2>1 DEF LogInv, FileState, MisuseHasCause
  <2> QED BY <1>2, <2>3, <2>4 DEF LogInv
<1> QED BY <1>4, <1>5, <1>6

\* Nothing happens.
LEMMA LogStutter == LogInv /\ UNCHANGED logVars => LogInv'
<1> SUFFICES ASSUME LogInv, UNCHANGED logVars PROVE LogInv'
  OBVIOUS
<1>1. IInv'
  BY LockStep DEF LogInv, logVars
<1>2. LogTypeOK' /\ MisuseHasCause'
  BY <1>1 DEF LogInv, LogTypeOK, IInv, MisuseHasCause, logVars, vars, log
<1>3. PlacesInside' /\ FileState'
  BY DEF LogInv, PlacesInside, FileState, logVars, vars, log
<1> QED BY <1>1, <1>2, <1>3 DEF LogInv

(* The inductive invariant of the log holds of every behaviour.             *)
THEOREM LogInvariance == LogSpec => []LogInv
<1>1. LogInv /\ [LogNext]_logVars => LogInv'
  BY EnterStep, OpenStep, WaitStep, TurnStep, InsideStep, LogStutter DEF LogNext, LogStep
<1> QED BY LogStart, <1>1, PTL DEF LogSpec

(* WriteLog looks at m_fp before it locks, and opens the file without the   *)
(* flag; still no order of writers, late opens and rotations makes it use a *)
(* file that is not open, unless a flag was set twice or an fopen that      *)
(* failed stored NULL over the file.                                        *)
THEOREM MisuseOnlyWithCause == LogSpec => []MisuseHasCause
<1>1. LogInv => MisuseHasCause
  BY DEF LogInv
<1> QED BY <1>1, LogInvariance, PTL

(* The log implements the flag lock, so its flag is never left set with no  *)
(* writer between Lock and UnLock.                                          *)
THEOREM LogNeverOrphaned == LogSpec => Spec /\ []FlagHeld
<1>1. LogInit => Init
  BY DEF LogInit
<1>2. LogSpec => Spec
  BY <1>1, LogUsesLock, PTL DEF LogSpec, Spec
<1> QED BY <1>2, NeverOrphaned, PTL
=============================================================================
