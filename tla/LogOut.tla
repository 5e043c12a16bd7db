------------------------------- MODULE LogOut -------------------------------
(***************************************************************************)
(* CAstLogOut (src/public/log/logOut.cpp): threads write lines to one log  *)
(* file, through WriteLog or WriteHexLog, which differ in the text only.   *)
(*                                                                         *)
(* A writer looks at m_fp first and, when it is NULL, opens the file,      *)
(* stores what fopen gave it and looks again, all without the flag: between *)
(* the look and the store other writers may have opened the file and be    *)
(* writing.  Then it takes the flag m_bLock, writes, and, when the file has *)
(* reached its size, closes it, renames it and opens a new one.  Every     *)
(* fopen may fail, and stores NULL then.  fseek, fprintf and fclose on a   *)
(* file that is closed or NULL are undefined; the model notes that they    *)
(* happened and goes on.                                                   *)
(*                                                                         *)
(* Lock and UnLock are CTaskList's with 50 turns for 60, so that the flag  *)
(* and the steps of Lock are those of FlagLock; this module adds what a    *)
(* writer does before it calls Lock and while it is inside.                *)
(***************************************************************************)
EXTENDS FlagLock

CONSTANT m_nSize   \* lines until the file is rotated, for 10 MB

ASSUME SizeAssumption == m_nSize \in Nat \ {0}

VARIABLES m_fp,     \* "null", "open", or "closed": freed and not yet replaced
          size,     \* lines in the file that m_fp stands for
          at,       \* where each writer is before Lock and between Lock and UnLock
          failed,   \* history: an fopen that failed took a file away from m_fp
          misused   \* history: a file that is not open was written or closed

log == <<m_fp, size, at, failed, misused>>
logVars == <<vars, log>>

Places == {"out", "open", "check", "write", "close", "reopen", "unlock"}

LogTypeOK == /\ TypeOK
             /\ m_fp \in {"null", "open", "closed"}
             /\ size \in Nat
             /\ at \in [Threads -> Places]
             /\ failed \in BOOLEAN /\ misused \in BOOLEAN

\* CreateFile has been called, and may have failed.
LogInit == /\ Init
           /\ m_fp \in {"null", "open"}
           /\ size \in {0, m_nSize}
           /\ at = [t \in Threads |-> "out"]
           /\ failed = FALSE /\ misused = FALSE

At(t, place) == at' = [at EXCEPT ![t] = place]

\* Writing, seeking or closing: fine on an open file only.
Use == misused' = (misused \/ m_fp # "open")

(* WriteLog is called: m_fp is looked at without the flag.  A file freed by *)
(* a rotation that is under way is not NULL.                                *)
Enter(t) ==
  /\ pc[t] = "idle" /\ at[t] = "out"
  /\ IF m_fp = "null" THEN At(t, "open") /\ UNCHANGED vars
                      ELSE Call(t) /\ UNCHANGED at
  /\ UNCHANGED <<m_fp, size, failed, misused>>

(* m_fp = fopen(...), whatever m_fp has become since it was seen NULL.  The *)
(* file may be full: from before, or renamed since fopen opened it.         *)
OpenFile(t) ==
  /\ at[t] = "open"
  /\ At(t, "check")
  /\ \/ m_fp' = "open" /\ size' \in {size, m_nSize} /\ UNCHANGED failed
     \/ m_fp' = "null" /\ failed' = (failed \/ m_fp # "null") /\ UNCHANGED size
  /\ UNCHANGED <<vars, misused>>

\* A writer that does not look whether fopen gave it a file.
CheckNothing(t) == /\ at[t] = "check"
                   /\ At(t, "out")
                   /\ Call(t)
                   /\ UNCHANGED <<m_fp, size, failed, misused>>

\* if(m_fp == NULL) return 1; reads m_fp anew.
Check(t) == /\ at[t] = "check"
            /\ At(t, "out")
            /\ IF m_fp = "null" THEN UNCHANGED vars ELSE Call(t)
            /\ UNCHANGED <<m_fp, size, failed, misused>>

\* The turns of Lock.  After the last the line is not written.
Wait(t) == /\ TestClear(t) \/ TestBusy(t) \/ Sleep(t)
           /\ UNCHANGED log

Acquire(t) == /\ SetFlag(t)
              /\ At(t, "write")
              /\ UNCHANGED <<m_fp, size, failed, misused>>

\* fseek, fprintf, fflush, ftell.
Write(t) == /\ at[t] = "write"
            /\ Use
            /\ size' = size + 1
            /\ At(t, IF size + 1 >= m_nSize THEN "close" ELSE "unlock")
            /\ UNCHANGED <<vars, m_fp, failed>>

\* fclose and rename.
CloseFile(t) == /\ at[t] = "close"
                /\ Use
                /\ m_fp' = "closed"
                /\ size' = 0
                /\ At(t, "reopen")
                /\ UNCHANGED <<vars, failed>>

\* A rotation that returns when the new file cannot be opened.
ReopenReturns(t) ==
  /\ at[t] = "reopen"
  /\ \/ m_fp' = "open" /\ At(t, "unlock") /\ UNCHANGED <<pc, failed>>
     \/ m_fp' = "null" /\ At(t, "out") /\ Goto(t, "idle") /\ failed' = TRUE
  /\ UNCHANGED <<m_bLock, tries, ret, overwritten, size, misused>>

Reopen(t) ==
  /\ at[t] = "reopen"
  /\ At(t, "unlock")
  /\ \/ m_fp' = "open" /\ UNCHANGED failed
     \/ m_fp' = "null" /\ failed' = TRUE
  /\ UNCHANGED <<vars, size, misused>>

Release(t) == /\ at[t] = "unlock"
              /\ UnLock(t)
              /\ At(t, "out")
              /\ UNCHANGED <<m_fp, size, failed, misused>>

LogStep(t) == \/ OpenFile(t) \/ Check(t) \/ Wait(t) \/ Acquire(t)
              \/ Write(t) \/ CloseFile(t) \/ Reopen(t) \/ Release(t)

LogNext == \E t \in Threads : Enter(t) \/ LogStep(t)

LogSpec == LogInit /\ [][LogNext]_logVars

\* The operating system runs every thread; nobody has to write a line.
LogFairSpec == LogSpec /\ \A t \in Threads : WF_logVars(LogStep(t))

-----------------------------------------------------------------------------
(* Properties.  FlagHeld of FlagLock is that of the log, too: the flag is   *)
(* cleared on every path, the failed rotation included.                     *)

(* m_fp is looked at before Lock and used behind it.  The file that was     *)
(* found there is still open then, unless two threads got into the lock     *)
(* together or an fopen that failed, in a rotation or in a writer that had  *)
(* seen NULL before others opened the file, stored NULL over it: writers,   *)
(* rotations and late opens that succeed never make one write to a closed   *)
(* file, in whatever order they run.                                        *)
MisuseHasCause == misused => overwritten \/ failed

(* Every writer returns, whether it opened the file, got the flag, rotated  *)
(* or failed at one of them, and however the others overtake it.            *)
WritesReturn ==
  \A t \in Threads : pc[t] # "idle" \/ at[t] # "out" ~> pc[t] = "idle" /\ at[t] = "out"
=============================================================================
