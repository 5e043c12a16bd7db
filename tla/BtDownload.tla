----------------------------- MODULE BtDownload -----------------------------
(***************************************************************************)
(* btDownload of src/public/bt: DownloadProcess adds a torrent to the      *)
(* shared libtorrent session and polls it once a second until the file is  *)
(* complete, a time limit passes or the user cancels.  Calls of several    *)
(* threads share the session, its alert queue, the flag m_bLock, the       *)
(* user's switch *m_pnDownState and the member m_nFileSize.                *)
(*                                                                         *)
(* Each d in Downloads is a thread that downloads its own torrent, again   *)
(* and again.  The session (what it transfers, what it reports) is         *)
(* libtorrent's and is modelled from how the code uses it.                 *)
(***************************************************************************)
EXTENDS Integers, FiniteSets

CONSTANTS Downloads,      \* threads, each with one torrent
          Size,           \* Size[d]: the size of its file
          Overlap,        \* whether calls may overlap
          UserStates,     \* what the user sets: 0 go on, 1 pause, 2 cancel
          m_nPeerTimeOut, \* seconds without a byte before giving up
          m_nTimedOut,    \* seconds before giving up, if
          bCheckTimeOut   \* the caller asked for it

ASSUME SizeAssumption == Size \in [Downloads -> Nat \ {0}]
ASSUME UserAssumption == UserStates \subseteq {0, 1, 2} /\ 0 \in UserStates
ASSUME TimeAssumption == /\ m_nPeerTimeOut \in Nat /\ m_nTimedOut \in Nat
                         /\ bCheckTimeOut \in BOOLEAN /\ Overlap \in BOOLEAN

VARIABLES pc,          \* where each thread is in DownloadProcess
          nError,      \* what each thread's last call returned
          elapsed,     \* seconds since the call started
          progress,    \* file_progress[0]: the bytes of each file that came
          verified,    \* those of them that passed the hash check
          torrents,    \* the torrents in the session
          paused,      \* the session is paused
          alerts,      \* torrents with a finished alert in the queue
          m_bLock,
          m_nFileSize,
          downState,   \* *m_pnDownState
          cancelled    \* history: some call was cancelled

call == <<pc, nError, elapsed>>
session == <<progress, verified, torrents, paused, alerts>>
vars == <<call, session, m_bLock, m_nFileSize, downState, cancelled>>

LateSecond == 1 + (IF m_nPeerTimeOut > m_nTimedOut THEN m_nPeerTimeOut ELSE m_nTimedOut)

Labels == {"idle", "check", "lock", "set", "status", "pause", "decide", "tail", "sleep", "hung"}

TypeOK == /\ pc \in [Downloads -> Labels]
          /\ nError \in [Downloads -> 0..3]
          /\ elapsed \in [Downloads -> 0..LateSecond]
          /\ progress \in [Downloads -> Nat] /\ verified \in [Downloads -> Nat]
          /\ \A d \in Downloads : verified[d] <= progress[d] /\ progress[d] <= Size[d]
          /\ torrents \subseteq Downloads
          /\ alerts \subseteq Downloads
          /\ {paused, m_bLock} \subseteq BOOLEAN
          /\ m_nFileSize \in Nat
          /\ downState \in UserStates
          /\ cancelled \in BOOLEAN

Init == /\ pc = [d \in Downloads |-> "idle"]
        /\ nError = [d \in Downloads |-> 0]
        /\ elapsed = [d \in Downloads |-> 0]
        /\ progress = [d \in Downloads |-> 0]
        /\ verified = [d \in Downloads |-> 0]
        /\ torrents = {}
        /\ paused = FALSE
        /\ alerts = {}
        /\ m_bLock = FALSE
        /\ m_nFileSize = 0
        /\ downState = 0
        /\ cancelled = FALSE

Goto(d, label) == pc' = [pc EXCEPT ![d] = label]
Return(d, error) == Goto(d, "idle") /\ nError' = [nError EXCEPT ![d] = error]

\* Time passes up to the second after the last limit; later is no different.
Tick(d) == elapsed' = [elapsed EXCEPT ![d] = IF @ < LateSecond THEN @ + 1 ELSE @]

-----------------------------------------------------------------------------
MayCall(d) == pc[d] = "idle" /\ (Overlap \/ \A e \in Downloads : pc[e] = "idle")

(* The torrent file is not there.                                           *)
NoTorrentFile(d) == /\ MayCall(d)
                    /\ Return(d, 3)
                    /\ UNCHANGED <<elapsed, session, m_bLock, m_nFileSize, downState, cancelled>>

(* ReloadTorrent: a torrent of an earlier run goes back to the session.     *)
ReloadTorrent(d) == /\ MayCall(d)
                    /\ d \notin torrents
                    /\ torrents' = torrents \cup {d}
                    /\ progress' = [progress EXCEPT ![d] = 0]
                    /\ verified' = [verified EXCEPT ![d] = 0]
                    /\ UNCHANGED <<call, paused, alerts, m_bLock, m_nFileSize, downState, cancelled>>

(* A torrent left by an earlier call is removed, between pause and resume,  *)
(* and added again: alerts of the old handle do not match the new one, and  *)
(* what is on disk is verified from the start.                              *)
Start(d) == /\ MayCall(d)
            /\ torrents' = torrents \cup {d}
            /\ progress' = [progress EXCEPT ![d] = 0]
            /\ verified' = [verified EXCEPT ![d] = 0]
            /\ paused' = (paused /\ d \notin torrents)
            /\ alerts' = alerts \ {d}
            /\ m_nFileSize' = Size[d]
            /\ elapsed' = [elapsed EXCEPT ![d] = 0]
            /\ Goto(d, "check")
            /\ UNCHANGED <<nError, m_bLock, downState, cancelled>>

(* The top of the loop: complete, no byte for too long, too late, or on.    *)
(* Leaving with an error removes the torrent.                               *)
Complete(d) == progress[d] = m_nFileSize
NoPeer(d) == elapsed[d] > m_nPeerTimeOut /\ progress[d] = 0
TooLateStalled(d) == elapsed[d] > m_nTimedOut /\ bCheckTimeOut /\ progress[d] = 0  \* a limit for stalled downloads only
TooLate(d) == elapsed[d] > m_nTimedOut /\ bCheckTimeOut

CheckComplete(d) == /\ pc[d] = "check"
                    /\ Complete(d)
                    /\ Return(d, 0)
                    /\ UNCHANGED <<elapsed, session, m_bLock, m_nFileSize, downState, cancelled>>

\* A failed call that leaves its torrent running.
CheckTimeKeeps(d) == /\ pc[d] = "check"
                     /\ ~Complete(d)
                     /\ \/ NoPeer(d) /\ Return(d, 1)
                        \/ ~NoPeer(d) /\ TooLate(d) /\ Return(d, 2)
                     /\ UNCHANGED <<elapsed, session, m_bLock, m_nFileSize, downState, cancelled>>

CheckTime(d) == /\ pc[d] = "check"
                /\ ~Complete(d)
                /\ \/ NoPeer(d) /\ Return(d, 1)
                   \/ ~NoPeer(d) /\ TooLate(d) /\ Return(d, 2)
                /\ torrents' = torrents \ {d}
                /\ UNCHANGED <<elapsed, progress, verified, paused, alerts, m_bLock, m_nFileSize, downState, cancelled>>

CheckOn(d) == /\ pc[d] = "check"
              /\ ~Complete(d) /\ ~NoPeer(d) /\ ~TooLate(d)
              /\ Goto(d, "lock")
              /\ UNCHANGED <<nError, elapsed, session, m_bLock, m_nFileSize, downState, cancelled>>

(* Lock(0): while(m_bLock); m_bLock = true;                                 *)
Spin(d) == /\ pc[d] = "lock"
           /\ ~m_bLock
           /\ Goto(d, "set")
           /\ UNCHANGED <<nError, elapsed, session, m_bLock, m_nFileSize, downState, cancelled>>

(* m_bLock is no atomic: a compiler may read it once before the empty loop, *)
(* and a thread that found it set then spins for ever.                      *)
Hang(d) == /\ pc[d] = "lock"
           /\ m_bLock
           /\ Goto(d, "hung")
           /\ UNCHANGED <<nError, elapsed, session, m_bLock, m_nFileSize, downState, cancelled>>

SetFlag(d) == /\ pc[d] = "set"
              /\ m_bLock' = TRUE
              /\ Goto(d, "status")
              /\ UNCHANGED <<nError, elapsed, session, m_nFileSize, downState, cancelled>>

\* A GetBtStatus that does not compare handles, and a break without unLock.
FinishedAny(d) == /\ pc[d] = "status"
                  /\ alerts # {}
                  /\ alerts' = {}
                  /\ m_bLock' = FALSE
                  /\ Return(d, 0)
                  /\ UNCHANGED <<elapsed, progress, verified, torrents, paused, m_nFileSize, downState, cancelled>>

FinishedLocked(d) == /\ pc[d] = "status"
                     /\ d \in alerts
                     /\ alerts' = {}
                     /\ Return(d, 0)
                     /\ UNCHANGED <<elapsed, progress, verified, torrents, paused, m_bLock, m_nFileSize, downState, cancelled>>

(* GetBtStatus pops every alert of the session and looks for its own.       *)
Finished(d) == /\ pc[d] = "status"
               /\ d \in alerts
               /\ alerts' = {}
               /\ m_bLock' = FALSE
               /\ Return(d, 0)
               /\ UNCHANGED <<elapsed, progress, verified, torrents, paused, m_nFileSize, downState, cancelled>>

NotFinished(d) == /\ pc[d] = "status"
                  /\ d \notin alerts
                  /\ alerts' = {}
                  /\ Goto(d, "pause")
                  /\ UNCHANGED <<nError, elapsed, progress, verified, torrents, paused, m_bLock, m_nFileSize, downState, cancelled>>

(* While the switch stands at 1: sleep(1), pause, with the lock held.       *)
Pause(d) == /\ pc[d] = "pause"
            /\ IF downState = 1
               THEN paused' = TRUE /\ Tick(d) /\ UNCHANGED pc
               ELSE Goto(d, "decide") /\ UNCHANGED <<paused, elapsed>>
            /\ UNCHANGED <<nError, progress, verified, torrents, alerts, m_bLock, m_nFileSize, downState, cancelled>>

(* The switch is read again: resume on 0, and on 1 (the user was faster)    *)
(* neither.                                                                 *)
GoOn(d) == /\ pc[d] = "decide"
           /\ downState # 2
           /\ paused' = (paused /\ downState # 0)
           /\ Goto(d, "tail")
           /\ UNCHANGED <<nError, elapsed, progress, verified, torrents, alerts, m_bLock, m_nFileSize, downState, cancelled>>

(* On 2 the session is paused, the torrent removed and the loop left: the   *)
(* unLock at the loop's end is not reached.                                 *)
Cancel(d) == /\ pc[d] = "decide"
             /\ downState = 2
             /\ paused' = TRUE
             /\ torrents' = torrents \ {d}
             /\ cancelled' = TRUE
             /\ Return(d, 3)
             /\ UNCHANGED <<elapsed, progress, verified, alerts, m_bLock, m_nFileSize, downState>>

(* Every 600 turns a download that stands still is paused and resumed (the  *)
(* timer and the rate are left to chance); unLock.                          *)
Tail(d) == /\ pc[d] = "tail"
           /\ \E nudge \in BOOLEAN : paused' = (paused /\ ~nudge)
           /\ m_bLock' = FALSE
           /\ Goto(d, "sleep")
           /\ UNCHANGED <<nError, elapsed, progress, verified, torrents, alerts, m_nFileSize, downState, cancelled>>

Sleep(d) == /\ pc[d] = "sleep"
            /\ Tick(d)
            /\ Goto(d, "check")
            /\ UNCHANGED <<nError, session, m_bLock, m_nFileSize, downState, cancelled>>

(* libtorrent: a torrent in a running session may get on, by finding bytes  *)
(* on disk or from a peer.  file_progress without piece_granularity counts  *)
(* them at once; their pieces are hashed later.                             *)
Transfer(d) == /\ d \in torrents
               /\ ~paused
               /\ progress[d] < Size[d]
               /\ progress' = [progress EXCEPT ![d] = @ + 1]
               /\ UNCHANGED <<call, verified, torrents, paused, alerts, m_bLock, m_nFileSize, downState, cancelled>>

(* A piece passes its hash check; a file that is good is reported once.     *)
HashPass(d) == /\ d \in torrents
               /\ \E n \in verified[d] + 1 .. progress[d] : verified' = [verified EXCEPT ![d] = n]
               /\ alerts' = IF verified'[d] = Size[d] THEN alerts \cup {d} ELSE alerts
               /\ UNCHANGED <<call, progress, torrents, paused, m_bLock, m_nFileSize, downState, cancelled>>

(* A piece fails: its bytes no longer count, and the progress falls back.   *)
HashFail(d) == /\ d \in torrents
               /\ \E n \in verified[d] .. progress[d] - 1 : progress' = [progress EXCEPT ![d] = n]
               /\ UNCHANGED <<call, verified, torrents, paused, alerts, m_bLock, m_nFileSize, downState, cancelled>>

User(s) == /\ downState' = s
           /\ downState # s
           /\ UNCHANGED <<call, session, m_bLock, m_nFileSize, cancelled>>

Step(d) == \/ CheckComplete(d) \/ CheckTime(d) \/ CheckOn(d)
           \/ Spin(d) \/ Hang(d) \/ SetFlag(d)
           \/ Finished(d) \/ NotFinished(d)
           \/ Pause(d) \/ GoOn(d) \/ Cancel(d)
           \/ Tail(d) \/ Sleep(d)

Next == \/ \E d \in Downloads : ReloadTorrent(d) \/ Start(d) \/ NoTorrentFile(d) \/ Step(d)
                               \/ Transfer(d) \/ HashPass(d) \/ HashFail(d)
        \/ \E s \in UserStates : User(s)

Spec == Init /\ [][Next]_vars

\* Threads are scheduled; nobody owes the download a peer or a user.
FairSpec == Spec /\ \A d \in Downloads : WF_vars(Step(d))

-----------------------------------------------------------------------------
Holding == {d \in Downloads : pc[d] \in {"status", "pause", "decide", "tail"}}

Ended(d) == pc[d] # "idle" /\ pc'[d] = "idle"

(* A call returns 0 only when every byte of its own file has come, whatever *)
(* was dropped and fetched again meanwhile, and one that returns because of *)
(* a finished alert only when the whole file has passed its hash check.     *)
ZeroMeansReceived ==
  [][\A d \in Downloads : Ended(d) /\ nError'[d] = 0
       => /\ progress[d] = Size[d]
          /\ pc[d] = "status" => verified[d] = Size[d]]_vars

(* "判断文件是否下载完成": the same for the other way out, where file_progress  *)
(* is compared with the size.                                               *)
ZeroMeansVerified ==
  [][\A d \in Downloads : Ended(d) /\ nError'[d] = 0 => verified[d] = Size[d]]_vars

(* "下载失败，移除torrent": after a call that failed once the download had     *)
(* started, nothing of it is left running in the session.                   *)
FailedIsRemoved ==
  [][\A d \in Downloads : Ended(d) /\ nError'[d] # 0 => d \notin torrents']_vars

(* The flag is set only while a thread is between Lock and unLock, so the   *)
(* next poll can take it, as long as nobody cancelled.                      *)
Released == m_bLock => Holding # {}
LockReleased == ~cancelled => Released

(* "获取下载过程信息加锁 ... 获取下载过程信息解锁": the same for every way out.  *)
AlwaysReleased == Released

(* With a time limit every call ends once the user stops pausing it, if no  *)
(* two calls overlap and none was cancelled.                                *)
CallsReturn ==
  [](~cancelled) /\ <>[](downState = 0)
    => \A d \in Downloads : pc[d] # "idle" ~> pc[d] = "idle"
=============================================================================
