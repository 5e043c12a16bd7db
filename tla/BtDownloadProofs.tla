-------------------------- MODULE BtDownloadProofs --------------------------
(***************************************************************************)
(* btDownload for any number of downloads, any sizes and any limits: the   *)
(* flag is free between two polls unless somebody cancelled, a call that   *)
(* failed leaves nothing in the session, and, for calls one after the      *)
(* other, 0 means that every byte of the file has come.                    *)
(***************************************************************************)
EXTENDS BtDownload, TLAPS

Shape == /\ pc \in [Downloads -> Labels]
         /\ nError \in [Downloads -> 0..3]
         /\ progress \in [Downloads -> Nat] /\ verified \in [Downloads -> Nat]

\* Calls one after the other.
OneCall == \A d, e \in Downloads : pc[d] # "idle" /\ pc[e] # "idle" => d = e

\* The member belongs to the call that runs.
OwnSize == \A d \in Downloads : pc[d] # "idle" => m_nFileSize = Size[d]

\* An alert found during a call is about this call's download.
OwnAlert == \A d \in Downloads : pc[d] # "idle" /\ d \in alerts => verified[d] = Size[d]

\* What is verified has come, and no more comes than there is.
InOrder == \A d \in Downloads : verified[d] <= progress[d] /\ progress[d] <= Size[d]

\* What holds of every call, and what holds when none overlap.
IInv == Shape /\ LockReleased
SInv == Shape /\ OneCall /\ OwnSize /\ OwnAlert /\ InOrder

\* Everything a step of thread d may do to pc.
LEMMA StepMoves ==
  ASSUME Shape, NEW d \in Downloads, Step(d)
  PROVE  /\ Shape'
         /\ pc[d] # "idle"
         /\ \A e \in Downloads : e # d => pc'[e] = pc[e] /\ nError'[e] = nError[e]
         /\ UNCHANGED <<progress, verified, m_nFileSize>>
         /\ alerts' \subseteq alerts
<1> USE DEF Goto, Return, Shape, Labels, session
<1>1. CASE CheckComplete(d) \/ CheckTime(d) \/ CheckOn(d)
  BY <1>1 DEF CheckComplete, CheckTime, CheckOn
<1>2. CASE Spin(d) \/ Hang(d) \/ SetFlag(d)
  BY <1>2 DEF Spin, Hang, SetFlag
<1>3. CASE Finished(d) \/ NotFinished(d)
  BY <1>3 DEF Finished, NotFinished
<1>4. CASE Pause(d)
  BY <1>4 DEF Pause
<1>5. CASE GoOn(d) \/ Cancel(d)
  BY <1>5 DEF GoOn, Cancel
<1>6. CASE Tail(d) \/ Sleep(d)
  BY <1>6 DEF Tail, Sleep
<1> QED BY <1>1, <1>2, <1>3, <1>4, <1>5, <1>6 DEF Step

\* What the other actions do to pc.
LEMMA OtherMoves ==
  ASSUME Shape, [Next]_vars, ~\E d \in Downloads : Step(d)
  PROVE  /\ Shape'
         /\ \A d \in Downloads : pc[d] # "idle" => pc'[d] = pc[d]
         /\ UNCHANGED <<m_bLock, cancelled>>
<1> USE DEF Goto, Return, Shape, Labels, session, call
<1>1. CASE \E d \in Downloads : ReloadTorrent(d)
  BY <1>1 DEF ReloadTorrent, MayCall
<1>2. CASE \E d \in Downloads : Start(d)
  BY <1>2 DEF Start, MayCall
<1>3. CASE \E d \in Downloads : NoTorrentFile(d)
  BY <1>3 DEF NoTorrentFile, MayCall
<1>4. CASE \E d \in Downloads : Transfer(d) \/ HashPass(d) \/ HashFail(d)
  BY <1>4 DEF Transfer, HashPass, HashFail
<1>5. CASE \E s \in UserStates : User(s)
  BY <1>5 DEF User
<1>6. CASE UNCHANGED vars
  BY <1>6 DEF vars
<1> QED BY <1>1, <1>2, <1>3, <1>4, <1>5, <1>6 DEF Next

-----------------------------------------------------------------------------
(* The flag.                                                               *)

\* Only the thread between Lock and unLock leaves it, and clears the flag,
\* unless it cancels.
LEMMA LockStep == ASSUME IInv, NEW d \in Downloads, Step(d) PROVE LockReleased'
<1> USE DEF IInv, Shape, LockReleased, Released, Holding, Goto, Return, Labels
<1>1. CASE CheckComplete(d) \/ CheckTime(d) \/ CheckOn(d)
  BY <1>1 DEF CheckComplete, CheckTime, CheckOn
<1>2. CASE Spin(d) \/ Hang(d)
  BY <1>2 DEF Spin, Hang
<1>3. CASE SetFlag(d)
  <2>1. d \in Holding'
    BY <1>3 DEF SetFlag
  <2> QED BY <2>1
<1>4. CASE Finished(d)
  BY <1>4 DEF Finished
<1>5. CASE NotFinished(d) \/ Pause(d) \/ GoOn(d)
  <2>1. d \in Holding'
    BY <1>5 DEF NotFinished, Pause, GoOn
  <2> QED BY <2>1
<1>6. CASE Cancel(d)
  BY <1>6 DEF Cancel
<1>7. CASE Tail(d)
  BY <1>7 DEF Tail
<1>8. CASE Sleep(d)
  BY <1>8 DEF Sleep
<1> QED BY <1>1, <1>2, <1>3, <1>4, <1>5, <1>6, <1>7, <1>8 DEF Step

\* Every step keeps the shape and the flag.
LEMMA LockInvariant == IInv /\ [Next]_vars => IInv'
<1> SUFFICES ASSUME IInv, [Next]_vars PROVE IInv'
  OBVIOUS
<1>1. CASE \E d \in Downloads : Step(d)
  BY <1>1, StepMoves, LockStep DEF IInv
<1>2. CASE ~\E d \in Downloads : Step(d)
  <2>1. Shape' /\ UNCHANGED <<m_bLock, cancelled>>
    BY <1>2, OtherMoves DEF IInv
  <2>2. Holding \subseteq Holding'
    BY <1>2, OtherMoves DEF IInv, Holding
  <2> QED BY <2>1, <2>2 DEF IInv, LockReleased, Released
<1> QED BY <1>1, <1>2

(* The flag of the poll is set only while a thread is between Lock and      *)
(* unLock, unless a call was cancelled, for any number of threads at once.  *)
THEOREM FlagReleased == Spec => []LockReleased
<1>1. Init => IInv
  BY DEF Init, IInv, Shape, Labels, LockReleased, Released
<1>2. IInv => LockReleased
  BY DEF IInv
<1> QED BY <1>1, <1>2, LockInvariant, PTL DEF Spec

-----------------------------------------------------------------------------
(* Results.                                                                *)

(* A call that ends with an error, at a limit or cancelled, has removed its *)
(* torrent from the session.                                                *)
THEOREM NothingLeftBehind == Spec => FailedIsRemoved
<1>1. Init => Shape
  BY DEF Init, Shape, Labels
<1>2. Shape /\ [Next]_vars => Shape'
  BY StepMoves, OtherMoves
<1>3. ASSUME Shape, [Next]_vars, NEW d \in Downloads, Ended(d), nError'[d] # 0
      PROVE  d \notin torrents'
  <2>1. PICK e \in Downloads : Step(e)
    BY <1>3, OtherMoves DEF Ended
  <2>2. e = d /\ Step(d)
    BY <1>3, <2>1, StepMoves DEF Ended
  <2> USE DEF Shape, Goto, Return, Labels, Ended
  <2>3. CASE CheckTime(d) \/ Cancel(d)
    BY <2>3 DEF CheckTime, Cancel
  <2>4. CASE CheckComplete(d) \/ Finished(d)
    BY <1>3, <2>4 DEF CheckComplete, Finished
  <2>5. CASE CheckOn(d) \/ Spin(d) \/ Hang(d) \/ SetFlag(d)
    BY <1>3, <2>5 DEF CheckOn, Spin, Hang, SetFlag
  <2>6. CASE NotFinished(d) \/ Pause(d) \/ GoOn(d) \/ Tail(d) \/ Sleep(d)
    BY <1>3, <2>6 DEF NotFinished, Pause, GoOn, Tail, Sleep
  <2> QED BY <2>2, <2>3, <2>4, <2>5, <2>6 DEF Step
<1>4. Shape /\ [Next]_vars
      => [\A d \in Downloads : Ended(d) /\ nError'[d] # 0 => d \notin torrents']_vars
  BY <1>3
<1> QED BY <1>1, <1>2, <1>4, PTL DEF Spec, FailedIsRemoved

\* Bytes come, pass or fail within the size of the file, and what has passed
\* is never taken back.
LEMMA BytesInOrder ==
  ASSUME Shape, InOrder, NEW d \in Downloads,
         \/ ReloadTorrent(d) \/ Start(d) \/ Transfer(d) \/ HashPass(d) \/ HashFail(d)
  PROVE  /\ InOrder'
         /\ HashPass(d) => verified[d] < Size[d]
<1>1. \A e \in Downloads : Size[e] \in Nat /\ progress[e] \in Nat /\ verified[e] \in Nat
  BY SizeAssumption DEF Shape
<1>2. verified[d] <= progress[d] /\ progress[d] <= Size[d]
  BY DEF InOrder
<1>3. PICK v, p \in Nat : /\ verified' = [verified EXCEPT ![d] = v]
                          /\ progress' = [progress EXCEPT ![d] = p]
                          /\ v <= p /\ p <= Size[d]
  <2>1. CASE ReloadTorrent(d) \/ Start(d)
    BY <1>1, <2>1 DEF ReloadTorrent, Start
  <2>2. CASE Transfer(d)
    <3>1. verified' = [verified EXCEPT ![d] = verified[d]]
      BY <2>2 DEF Transfer, Shape
    <3>2. progress[d] + 1 \in Nat /\ verified[d] <= progress[d] + 1 /\ progress[d] + 1 <= Size[d]
      BY <1>1, <1>2, <2>2 DEF Transfer
    <3>3. progress' = [progress EXCEPT ![d] = progress[d] + 1]
      BY <2>2 DEF Transfer
    <3> QED BY <1>1, <3>1, <3>2, <3>3
  <2>3. CASE HashPass(d)
    <3>1. progress' = [progress EXCEPT ![d] = progress[d]]
      BY <2>3 DEF HashPass, Shape
    <3>2. PICK n \in verified[d] + 1 .. progress[d] : verified' = [verified EXCEPT ![d] = n]
      BY <2>3 DEF HashPass
    <3>3. n \in Nat /\ n <= progress[d]
      BY <1>1, <3>2
    <3> QED BY <1>1, <1>2, <3>1, <3>2, <3>3
  <2>4. CASE HashFail(d)
    <3>1. verified' = [verified EXCEPT ![d] = verified[d]]
      BY <2>4 DEF HashFail, Shape
    <3>2. PICK n \in verified[d] .. progress[d] - 1 : progress' = [progress EXCEPT ![d] = n]
      BY <2>4 DEF HashFail
    <3>3. n \in Nat /\ verified[d] <= n /\ n <= Size[d]
      BY <1>1, <1>2, <3>2
    <3> QED BY <1>1, <3>1, <3>2, <3>3
  <2> QED BY <2>1, <2>2, <2>3, <2>4
<1>4. InOrder'
  BY <1>1, <1>3 DEF InOrder, Shape
<1>5. HashPass(d) => verified[d] < Size[d]
  <2>1. HashPass(d) => \E n \in verified[d] + 1 .. progress[d] : TRUE
    BY DEF HashPass
  <2> QED BY <1>1, <1>2, <2>1
<1> QED BY <1>4, <1>5

\* What the call that runs knows, kept by every step when calls do not overlap.
LEMMA SerialInvariant == ~Overlap /\ SInv /\ [Next]_vars => SInv'
<1> SUFFICES ASSUME ~Overlap, SInv, [Next]_vars PROVE SInv'
  OBVIOUS
<1>1. CASE \E d \in Downloads : Step(d)
  <2>1. PICK d \in Downloads : Step(d)
    BY <1>1
  <2>2. \A e \in Downloads : pc'[e] # "idle" => pc[e] # "idle"
    BY <2>1, StepMoves DEF SInv
  <2>3. Shape' /\ UNCHANGED <<progress, verified, m_nFileSize>> /\ alerts' \subseteq alerts
    BY <2>1, StepMoves DEF SInv
  <2> QED BY <2>2, <2>3 DEF SInv, OneCall, OwnSize, OwnAlert, InOrder
<1>2. CASE ~\E d \in Downloads : Step(d)
  <2>0. Shape'
    BY <1>2, OtherMoves DEF SInv
  <2> USE DEF SInv, Shape, OneCall, OwnSize, OwnAlert, Goto, Return, Labels, session, call
  <2>1. ASSUME NEW d \in Downloads, ReloadTorrent(d) PROVE SInv'
    BY <2>0, <2>1, BytesInOrder DEF ReloadTorrent, MayCall
  <2>2. ASSUME NEW d \in Downloads, Start(d) PROVE SInv'
    <3>1. InOrder'
      BY <2>2, BytesInOrder
    <3>2. \A e \in Downloads : pc[e] = "idle"
      BY <2>2 DEF Start, MayCall
    <3>3. \A e \in Downloads : e # d => pc'[e] = "idle"
      BY <2>2, <3>2 DEF Start
    <3>4. m_nFileSize' = Size[d] /\ d \notin alerts'
      BY <2>2 DEF Start
    <3> QED BY <2>0, <3>1, <3>3, <3>4
  <2>3. CASE \E d \in Downloads : NoTorrentFile(d)
    BY <2>0, <2>3 DEF NoTorrentFile, MayCall, InOrder
  <2>4. ASSUME NEW d \in Downloads, Transfer(d) PROVE SInv'
    BY <2>0, <2>4, BytesInOrder DEF Transfer
  <2>5. ASSUME NEW d \in Downloads, HashPass(d) PROVE SInv'
    <3>1. InOrder' /\ verified[d] < Size[d] /\ verified[d] \in Nat /\ Size[d] \in Nat
      BY <2>5, BytesInOrder, SizeAssumption
    <3>2. UNCHANGED <<pc, nError, m_nFileSize>>
      BY <2>5 DEF HashPass
    <3>3. OwnAlert'
      <4>1. pc[d] # "idle" => d \notin alerts
        BY <3>1
      <4>2. \A e \in Downloads : e # d => verified'[e] = verified[e] /\ (e \in alerts' => e \in alerts)
        BY <2>5 DEF HashPass
      <4>3. d \in alerts' => d \in alerts \/ verified'[d] = Size[d]
        BY <2>5 DEF HashPass
      <4> QED BY <3>2, <4>1, <4>2, <4>3
    <3> QED BY <2>0, <3>1, <3>2, <3>3
  <2>6. ASSUME NEW d \in Downloads, HashFail(d) PROVE SInv'
    BY <2>0, <2>6, BytesInOrder DEF HashFail
  <2>7. CASE \E s \in UserStates : User(s)
    BY <2>0, <2>7 DEF User, InOrder
  <2>8. CASE UNCHANGED vars
    BY <2>0, <2>8 DEF vars, InOrder
  <2> QED BY <1>2, <2>1, <2>2, <2>3, <2>4, <2>5, <2>6, <2>7, <2>8 DEF Next
<1> QED BY <1>1, <1>2

(* For calls one after the other, DownloadProcess returns 0 only when every *)
(* byte of the file has come, and when it saw the alert, only when all of   *)
(* them passed the hash check, although progress may fall back at any time. *)
THEOREM ZeroIsReceived == ~Overlap /\ Spec => ZeroMeansReceived
<1>1. Init => SInv
  BY SizeAssumption DEF Init, SInv, Shape, Labels, OneCall, OwnSize, OwnAlert, InOrder
<1>2. ASSUME SInv, [Next]_vars, NEW d \in Downloads, Ended(d), nError'[d] = 0
      PROVE  progress[d] = Size[d] /\ (pc[d] = "status" => verified[d] = Size[d])
  <2>1. PICK e \in Downloads : Step(e)
    BY <1>2, OtherMoves DEF SInv, Ended
  <2>2. e = d /\ Step(d)
    BY <1>2, <2>1, StepMoves DEF SInv, Ended
  <2> USE DEF SInv, Shape, Goto, Return, Labels, Ended
  <2>3. CASE CheckComplete(d)
    BY <1>2, <2>3 DEF CheckComplete, Complete, OwnSize
  <2>4. CASE Finished(d)
    BY <1>2, <2>4, SizeAssumption DEF Finished, OwnAlert, InOrder
  <2>5. CASE CheckTime(d) \/ Cancel(d)
    BY <1>2, <2>5 DEF CheckTime, Cancel
  <2>6. CASE CheckOn(d) \/ Spin(d) \/ Hang(d) \/ SetFlag(d)
    BY <1>2, <2>6 DEF CheckOn, Spin, Hang, SetFlag
  <2>7. CASE NotFinished(d) \/ Pause(d) \/ GoOn(d) \/ Tail(d) \/ Sleep(d)
    BY <1>2, <2>7 DEF NotFinished, Pause, GoOn, Tail, Sleep
  <2> QED BY <2>2, <2>3, <2>4, <2>5, <2>6, <2>7 DEF Step
<1>3. SInv /\ [Next]_vars
      => [\A d \in Downloads : Ended(d) /\ nError'[d] = 0
            => /\ progress[d] = Size[d]
               /\ pc[d] = "status" => verified[d] = Size[d]]_vars
  BY <1>2
<1> SUFFICES ASSUME ~Overlap PROVE Spec => ZeroMeansReceived
  OBVIOUS
<1>4. SInv /\ [Next]_vars => SInv'
  BY SerialInvariant
<1> QED BY <1>1, <1>3, <1>4, PTL DEF Spec, ZeroMeansReceived
=============================================================================
