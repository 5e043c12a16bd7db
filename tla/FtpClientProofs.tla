-------------------------- MODULE FtpClientProofs --------------------------
(* For files of any number and size, and any number of late replies: the    *)
(* file that is fetched is never damaged by resuming; and as long as no     *)
(* reply is late, neither is the file that is stored, and progress that     *)
(* reads as complete is complete.                                           *)
EXTENDS FtpClient, TLAPS

\* A whole file is a sequence of as many bytes as its size says.
LEMMA WholeLen ==
  ASSUME NEW f \in Files
  PROVE  Size[f] \in Nat /\ Len(Whole(f)) = Size[f] /\ Whole(f) \in Seq(Nat)
<1>1. Size[f] \in Nat
  BY SizeAssumption
<1> QED BY <1>1 DEF Whole

\* Byte by byte equal and not longer: a prefix.
LEMMA BytesMakePrefix ==
  ASSUME NEW f \in Files, NEW s \in Seq(Nat), Len(s) <= Size[f],
         \A i \in 1..Len(s) : s[i] = i
  PROVE  IsPrefix(s, Whole(f))
<1>1. Size[f] \in Nat /\ Len(Whole(f)) = Size[f] /\ Len(s) \in Nat
  BY WholeLen
<1>2. SubSeq(s, 1, Len(s)) = [i \in 1..Len(s) |-> i]
  OBVIOUS
<1>3. SubSeq(Whole(f), 1, Len(s)) = [i \in 1..Len(s) |-> i]
  BY <1>1 DEF Whole
<1> QED
  BY <1>1, <1>2, <1>3 DEF IsPrefix

-----------------------------------------------------------------------------
(* The file that is fetched.                                                *)

Types == /\ file \in Files
         /\ local \in [Files -> Seq(Nat)]
         /\ DOMAIN remote = Files

\* The server's file is whole, and what is here is its beginning, byte by byte.
Sound(f) == /\ remote[f] = Whole(f)
            /\ Len(local[f]) <= Size[f]
            /\ \A i \in 1..Len(local[f]) : local[f][i] = i

\* Where a call stands says what it knows: before the transfer nSize is the
\* length of what is here, after REST the server knows it, and during the
\* transfer the server's place is the end of what is here.
Getting == /\ pc \in {"pasv", "rest", "retr", "recv", "wait"} => file \in Fetched
           /\ pc \in {"pasv", "rest", "retr"} => nSize = Len(local[file])
           /\ pc = "retr" /\ up /\ granted => rest = nSize
           /\ pc \in {"recv", "wait"} /\ transfer # "none" => offset = Len(local[file])

Putting == pc \in {"putpasv", "stor", "send"} => file \in Stored

IInv == Types /\ (\A f \in Fetched : Sound(f)) /\ Getting /\ Putting

-----------------------------------------------------------------------------
(* A call outside the transfers: it stays idle and touches no file.         *)
Aside == /\ pc = "idle" /\ pc' = "idle"
         /\ UNCHANGED <<file, local, remote>>

\* Such a step keeps IInv.
LEMMA AsideKeeps == IInv /\ Aside => IInv'
BY DEF IInv, Types, Sound, Whole, Getting, Putting, Aside

(* The actions of which only that is needed.                                *)
Quiet == \/ login2Server \/ inputUserName \/ inputPassWord
         \/ Command \/ quitServer \/ CloseFtp \/ Renew

\* Commands outside the transfers stay idle and touch no file.
LEMMA QuietIsAside == Quiet => Aside
<1>1. login2Server => Aside
  BY DEF login2Server, Aside
<1>2. inputUserName => Aside
  BY DEF inputUserName, Aside
<1>3. inputPassWord => Aside
  BY DEF inputPassWord, Aside
<1>4. Command => Aside
  BY DEF Command, Aside
<1>5. quitServer => Aside
  BY DEF quitServer, Aside
<1>6. CloseFtp => Aside
  BY DEF CloseFtp, Aside, call
<1>7. Renew => Aside
  BY DEF Renew, Aside, call
<1> QED
  BY <1>1, <1>2, <1>3, <1>4, <1>5, <1>6, <1>7 DEF Quiet

-----------------------------------------------------------------------------
(* One lemma for the initial state and one for each of the other actions.   *)
LEMMA InitIInv == Init => IInv
BY FilesAssumption, SizeAssumption DEF Init, IInv, Types, Sound, Whole, Getting, Putting, Files

\* After a drop nothing of the transfer is known to the server.
LEMMA DropKeeps == IInv /\ Drop => IInv'
BY DEF IInv, Types, Sound, Whole, Getting, Putting, Drop, call

\* Get measures what is here.
LEMMA GetKeeps == ASSUME NEW f \in Fetched, IInv, Get(f) PROVE IInv'
BY DEF IInv, Types, Sound, Whole, Getting, Putting, Get, Files

\* Put is for another file than those that are fetched.
LEMMA PutKeeps == ASSUME NEW f \in Stored, IInv, Put(f) PROVE IInv'
BY DEF IInv, Types, Sound, Whole, Getting, Putting, Put, Files

\* createDataLink goes on or returns; it never gives another outcome.
LEMMA DataLinkOutcome == ASSUME NEW next, createDataLink(next)
                         PROVE  pc' = next \/ pc' = "idle"
BY DEF createDataLink, Return

\* PASV leaves the measured length alone.
LEMMA PasvKeeps == IInv /\ Pasv => IInv'
BY DataLinkOutcome DEF IInv, Types, Sound, Whole, Getting, Putting, Pasv, server

\* After REST the server knows the length.
LEMMA RestKeeps == IInv /\ RestHonoured /\ Rest => IInv'
<1> SUFFICES ASSUME IInv, RestHonoured, Rest PROVE IInv'
  OBVIOUS
<1>1. \/ pc' = "idle"
      \/ pc' = "retr" /\ (up /\ granted => rest' = nSize)
  BY DEF Rest, Exchange, Return
<1> QED
  BY <1>1 DEF IInv, Types, Sound, Whole, Getting, Putting, Rest

\* RETR starts the server at the place REST gave.
LEMMA RetrKeeps == IInv /\ Retr => IInv'
<1> SUFFICES ASSUME IInv, Retr PROVE IInv'
  OBVIOUS
<1>1. pc' = "idle" \/ pc' = "recv"
  BY DEF Retr, Exchange, Return
<1>2. transfer' # "none" => up /\ granted
  BY DEF Retr
<1> QED
  BY <1>1, <1>2 DEF IInv, Types, Sound, Whole, Getting, Putting, Retr

\* The byte that arrives is the one behind the last that is here.
LEMMA RecvKeeps == IInv /\ Recv => IInv'
<1> SUFFICES ASSUME IInv, Recv PROVE IInv'
  OBVIOUS
<1> DEFINE n == Len(local[file])
<1>1. file \in Fetched /\ file \in Files /\ local[file] \in Seq(Nat) /\ n \in Nat
  BY DEF IInv, Types, Getting, Recv, Files
<1>2. offset = n /\ remote[file] = Whole(file)
  BY <1>1 DEF IInv, Getting, Recv, Sound
<1>3. Size[file] \in Nat
  BY <1>1, SizeAssumption
<1>4. Len(Whole(file)) = Size[file]
  BY <1>3 DEF Whole
<1>5. n < Size[file] /\ remote[file][offset + 1] = n + 1
  BY <1>1, <1>2, <1>3, <1>4 DEF Recv, Whole
<1>6. local' = [local EXCEPT ![file] = Append(local[file], n + 1)]
  BY <1>5 DEF Recv
<1>7. local' \in [Files -> Seq(Nat)]
  BY <1>1, <1>6 DEF IInv, Types
<1>8. local'[file] = Append(local[file], n + 1) /\ Len(local'[file]) = n + 1
  BY <1>1, <1>6 DEF IInv, Types
<1>9. Types' /\ Getting' /\ Putting'
  BY <1>1, <1>2, <1>7, <1>8 DEF IInv, Types, Getting, Putting, Recv
<1>10. ASSUME NEW f \in Fetched PROVE Sound(f)'
  <2>1. CASE f = file
    <3>1. \A i \in 1..(n + 1) : local'[file][i] = i
      BY <1>1, <1>8 DEF IInv, Sound
    <3> QED
      BY <2>1, <3>1, <1>1, <1>2, <1>3, <1>5, <1>8 DEF Sound, Whole, Recv
  <2>2. CASE f # file
    <3>1. local'[f] = local[f]
      BY <2>2, <1>6 DEF IInv, Types, Files
    <3> QED
      BY <3>1 DEF IInv, Sound, Whole, Recv
  <2> QED
    BY <2>1, <2>2
<1> QED
  BY <1>9, <1>10 DEF IInv

\* The end of a Get.
LEMMA EndGetKeeps == IInv /\ EndGet => IInv'
BY DEF IInv, Types, Sound, Whole, Getting, Putting, EndGet, Return

\* The pause in downLoad64.
LEMMA WaitKeeps == IInv /\ Wait => IInv'
BY DEF IInv, Types, Sound, Whole, Getting, Putting, Wait, server

\* The steps of Dir.
LEMMA DirKeeps == IInv /\ (Dir \/ DirPasv \/ List) => IInv'
<1>1. IInv /\ Dir => IInv'
  BY DEF IInv, Types, Sound, Whole, Getting, Putting, Dir
<1>2. IInv /\ DirPasv => IInv'
  BY DataLinkOutcome DEF IInv, Types, Sound, Whole, Getting, Putting, DirPasv
<1>3. List => pc' = "idle"
  BY DEF List, Exchange, Return
<1>4. List => UNCHANGED <<file, nSize, local, remote>>
  BY DEF List
<1>5. IInv /\ List => Types' /\ Getting' /\ Putting'
  BY <1>3, <1>4 DEF IInv, Types, Getting, Putting
<1>6. IInv /\ List => \A f \in Fetched : Sound(f)'
  BY <1>4 DEF IInv, Sound, Whole
<1>7. IInv /\ List => IInv'
  BY <1>5, <1>6 DEF IInv
<1> QED
  BY <1>1, <1>2, <1>7

(* A step of Put: it stays with its file, which is not one that is fetched. *)
PutStep == /\ pc \in {"putpasv", "stor", "send"}
           /\ pc' \in {"idle", "stor", "send"}
           /\ UNCHANGED <<file, local>>
           /\ \E s : remote' = remote \/ remote' = [remote EXCEPT ![file] = s]

\* Such a step keeps IInv: it changes another file on the server.
LEMMA PutStepKeeps == IInv /\ PutStep => IInv'
BY FilesAssumption DEF IInv, Types, Sound, Whole, Getting, Putting, PutStep, Files

\* Every action of Put is such a step.
LEMMA PutStepsArePutSteps ==
  PutPasv \/ Stor \/ SendByte \/ SendFails \/ EndPut => PutStep
<1>1. PutPasv => PutStep
  BY DataLinkOutcome DEF PutPasv, PutStep
<1>2. Stor => PutStep
  <2>1. Stor => pc' = "idle" \/ pc' = "send"
    BY DEF Stor, Exchange, Return
  <2> QED
    BY <2>1 DEF Stor, PutStep
<1>3. SendByte => PutStep
  BY DEF SendByte, PutStep
<1>4. SendFails => PutStep
  BY DEF SendFails, PutStep, Return
<1>5. EndPut => PutStep
  BY DEF EndPut, PutStep, Return
<1> QED
  BY <1>1, <1>2, <1>3, <1>4, <1>5

-----------------------------------------------------------------------------
\* Every step of the client, the server and the network keeps IInv, as long as
\* the server resumes where REST says.
LEMMA StepKeeps == IInv /\ RestHonoured /\ [Next]_vars => IInv'
<1> SUFFICES ASSUME IInv, RestHonoured, [Next]_vars PROVE IInv'
  OBVIOUS
<1>1. CASE Quiet
  BY <1>1, QuietIsAside, AsideKeeps
<1>2. CASE Drop
  BY <1>2, DropKeeps
<1>3. ASSUME NEW f \in Fetched, Get(f) PROVE IInv'
  BY <1>3, GetKeeps
<1>4. ASSUME NEW f \in Stored, Put(f) PROVE IInv'
  BY <1>4, PutKeeps
<1>5. CASE Pasv \/ Rest \/ Retr
  BY <1>5, PasvKeeps, RestKeeps, RetrKeeps
<1>6. CASE Recv
  BY <1>6, RecvKeeps
<1>7. CASE Silence \/ Leave
  BY <1>7, EndGetKeeps DEF Silence, Leave
<1>8. CASE Wait
  BY <1>8, WaitKeeps
<1>9. CASE Dir \/ DirPasv \/ List
  BY <1>9, DirKeeps
<1>10. CASE PutPasv \/ Stor \/ SendByte \/ SendFails \/ EndPut
  BY <1>10, PutStepsArePutSteps, PutStepKeeps
<1>11. ASSUME NEW s \in 0..2, copyVariable(s) PROVE IInv'
  BY <1>11 DEF copyVariable, IInv, Types, Sound, Whole, Getting, Putting, call, server
<1>12. CASE UNCHANGED vars
  BY <1>12 DEF vars, IInv, Types, Sound, Whole, Getting, Putting, call, server
<1> QED
  BY <1>1, <1>2, <1>3, <1>4, <1>5, <1>6, <1>7, <1>8, <1>9, <1>10, <1>11, <1>12
  DEF Next, Step, Quiet

\* The bytes of a sound file are a prefix.
LEMMA IInvGivesPrefix == IInv => LocalIsPrefix
<1> SUFFICES ASSUME IInv, NEW f \in Fetched PROVE IsPrefix(local[f], Whole(f))
  BY DEF LocalIsPrefix
<1>1. f \in Files /\ local[f] \in Seq(Nat)
  BY DEF IInv, Types, Files
<1> QED
  BY <1>1, BytesMakePrefix DEF IInv, Sound

\* The invariant holds in every reachable state.
LEMMA FetchInvariance == RestHonoured /\ Spec => []IInv
<1> SUFFICES ASSUME RestHonoured PROVE Spec => []IInv
  OBVIOUS
<1>1. Init => IInv
  BY InitIInv
<1>2. IInv /\ [Next]_vars => IInv'
  BY StepKeeps
<1> QED
  BY <1>1, <1>2, PTL DEF Spec

(* With a server that resumes where REST says, the file here is a beginning *)
(* of the file there at every moment: whatever is late, refused, dropped or *)
(* broken off, for files of any number and size (downLoad64, ftpclient.cpp). *)
THEOREM ResumingIsSafe == RestHonoured /\ Spec => []LocalIsPrefix
<1>1. IInv => LocalIsPrefix
  BY IInvGivesPrefix
<1> QED
  BY <1>1, FetchInvariance, PTL

-----------------------------------------------------------------------------
(* The file that is stored, and the progress that is shown.                 *)

\* No reply on its way is an answer to SIZE.
NoSizes == \A i \in 1..Len(pending) : pending[i].code # 213

\* What a call knows where it is, late replies or not: the length of what is
\* here, how much of it is counted, that only a SIZE that was not sent gives a
\* length no fseek takes, and that the report of a transfer has room.
Measured ==
  /\ pc \in {"pasv", "rest", "retr"} => nSize = Len(local[file])
  /\ pc \in {"recv", "wait"} => m_nDownLoaded = Len(local[file])
  /\ pc = "putpasv" => nSize >= -1 \/ m_cmdSocket = "none"
  /\ pc = "stor" => nSize >= -1
  /\ pc \in {"recv", "wait", "send"} /\ transfer = "open" => Len(pending) < MaxPending
  /\ pc \in {"pasv", "rest", "retr", "recv", "wait"} => file \in Fetched
  /\ pc \in {"putpasv", "stor", "send"} => file \in Stored

\* The files that are only read stay as they are.
Sources == /\ \A f \in Stored : local[f] = Whole(f)
           /\ \A f \in Fetched : remote[f] = Whole(f)

\* As long as no reply is late: SIZE said nothing or the truth, and the place
\* in the file that is sent is the end of what the server has.
Prompt == /\ NoSizes
          /\ \A f \in Stored : /\ Len(remote[f]) <= Size[f]
                               /\ \A i \in 1..Len(remote[f]) : remote[f][i] = i
          /\ pc \in {"putpasv", "stor"} => nSize < 0 \/ nSize = Len(remote[file])
          /\ pc = "send" /\ transfer = "open" => offset = Len(remote[file])
          /\ pc \in {"pasv", "rest", "retr", "recv", "wait"} =>
                m_nDLMaxSize < 0 \/ m_nDLMaxSize = Size[file]

\* The second inductive invariant; it does not need RestHonoured.
JInv == TypeOK /\ Measured /\ Sources /\ (~late => Prompt)

(* What every step does to the control line: the replies stay replies, no   *)
(* step takes lateness back, and without lateness no answer to SIZE stays.  *)
LineStep == /\ pending' \in Seq(Replies) /\ Len(pending') <= MaxPending /\ late' \in BOOLEAN
            /\ ~late' => ~late
            /\ ~late' /\ NoSizes => NoSizes'

\* serverResponse leaves room for one more reply, and nothing at all when all
\* replies were in time.
LEMMA ResponseLeaves ==
  ASSUME NEW queue \in Seq(Replies), NEW k \in 0..Len(queue), late \in BOOLEAN,
         serverResponse(queue, k)
  PROVE  LineStep /\ Len(pending') < MaxPending
<1>1. Len(queue) \in Nat /\ MaxPending \in Nat
  BY FtpAssumption
<1>2. pending' = SubSeq(queue, k + 1, Len(queue))
  BY DEF serverResponse
<1>3. pending' \in Seq(Replies) /\ Len(pending') = Len(queue) - k
  BY <1>1, <1>2
<1>4. Len(pending') < MaxPending
  BY <1>3 DEF serverResponse
<1>5. late' \in BOOLEAN /\ (~late' => ~late /\ ~(k < Len(queue)))
  BY DEF serverResponse
<1>6. ~late' => NoSizes'
  BY <1>1, <1>3, <1>5 DEF NoSizes
<1> QED BY <1>1, <1>3, <1>4, <1>5, <1>6 DEF LineStep

(* A command that was not sent, or was sent and followed by a read.         *)
Said(answer) ==
  \/ UNCHANGED <<pending, late>>
  \/ \E k \in 0..Len(pending \o answer) : serverResponse(pending \o answer, k)

\* Either way the line is left as LineStep says.
LEMMA SaidLeaves ==
  ASSUME TypeOK, NEW answer \in Seq(Replies), Said(answer)
  PROVE  LineStep
<1>1. /\ pending \in Seq(Replies) /\ Len(pending) <= MaxPending /\ late \in BOOLEAN
      /\ pending \o answer \in Seq(Replies)
  BY DEF TypeOK
<1>2. CASE UNCHANGED <<pending, late>>
  BY <1>1, <1>2 DEF LineStep, NoSizes
<1>3. ASSUME NEW k \in 0..Len(pending \o answer), serverResponse(pending \o answer, k)
      PROVE LineStep
  BY <1>1, <1>3, ResponseLeaves
<1> QED BY <1>2, <1>3 DEF Said

\* What the server says are replies.
LEMMA ReplyTypes == /\ Yes \in Replies /\ No \in Replies /\ Reply(550, 0) \in Replies
                    /\ \A n \in Nat : Reply(213, n) \in Replies /\ Reply(227, n) \in Replies
BY DEF Yes, No, Reply, Replies

\* So is the answer to SIZE.
LEMMA SizeReplyType == ASSUME TypeOK, NEW f \in Files PROVE SizeReply(f) \in Replies
<1>1. remote[f] \in Seq(Nat)
  BY DEF TypeOK
<1> QED BY <1>1, ReplyTypes DEF SizeReply

\* A server that is gone or refuses gives replies, too.
LEMMA AnswersType == ASSUME NEW r \in Seq(Replies) PROVE Answers(r) \in Seq(Replies)
<1>1. <<No>> \in Seq(Replies) /\ <<>> \in Seq(Replies)
  BY ReplyTypes
<1> QED BY <1>1 DEF Answers

\* The same for a single reply.
LEMMA OneAnswer == ASSUME NEW r \in Replies PROVE Answers(<<r>>) \in Seq(Replies)
<1>1. <<r>> \in Seq(Replies)
  OBVIOUS
<1> QED BY <1>1, AnswersType

(* The commands outside the transfers.                                      *)
\* login2Server reads the greeting, or what is on the line.
LEMMA LoginLine == TypeOK /\ login2Server => LineStep
<1> SUFFICES ASSUME TypeOK, login2Server PROVE LineStep
  OBVIOUS
<1>0. /\ pending \in Seq(Replies) /\ late \in BOOLEAN /\ <<Yes>> \in Seq(Replies)
      /\ Len(<<Yes>>) = 1 /\ MaxPending \in Nat
  BY ReplyTypes, FtpAssumption DEF TypeOK
<1>1. ASSUME NEW k \in 0..1, serverResponse(<<Yes>>, k) PROVE LineStep
  BY <1>0, <1>1, ResponseLeaves
<1>2. ASSUME NEW k \in 0..Len(pending), serverResponse(pending, k) PROVE LineStep
  BY <1>0, <1>2, ResponseLeaves
<1>3. CASE ConnectFails
  BY <1>0, <1>3 DEF ConnectFails, LineStep, NoSizes
<1> QED BY <1>1, <1>2, <1>3 DEF login2Server

\* USER and what is read after it.
LEMMA UserLine == TypeOK /\ inputUserName => LineStep
<1> SUFFICES ASSUME TypeOK, inputUserName PROVE LineStep
  OBVIOUS
<1>1. Said(IF up THEN <<Yes>> ELSE <<>>)
  BY DEF inputUserName, Exchange, Said
<1>2. (IF up THEN <<Yes>> ELSE <<>>) \in Seq(Replies)
  BY ReplyTypes
<1> QED BY <1>1, <1>2, SaidLeaves

\* PASS and what is read after it.
LEMMA PassLine == TypeOK /\ inputPassWord => LineStep
<1> SUFFICES ASSUME TypeOK, inputPassWord PROVE LineStep
  OBVIOUS
<1>1. PICK accepted \in BOOLEAN : Said(IF ~up THEN <<>> ELSE IF accepted THEN <<Yes>> ELSE <<No>>)
  BY DEF inputPassWord, Exchange, Said
<1>2. (IF ~up THEN <<>> ELSE IF accepted THEN <<Yes>> ELSE <<No>>) \in Seq(Replies)
  BY ReplyTypes
<1> QED BY <1>1, <1>2, SaidLeaves

\* SIZE by itself and the commands that only talk.
LEMMA CommandLine == TypeOK /\ Command => LineStep
<1> SUFFICES ASSUME TypeOK, Command PROVE LineStep
  OBVIOUS
<1>1. PICK r \in {Yes, Reply(550, 0)} \cup {SizeReply(f) : f \in Files} :
         Exchange(MaySend, Answers(<<r>>), ToCaller)
  BY DEF Command
<1>2. Said(Answers(<<r>>))
  BY <1>1 DEF Exchange, Said
<1>3. r \in Replies
  BY ReplyTypes, SizeReplyType
<1>4. Answers(<<r>>) \in Seq(Replies)
  BY <1>3, OneAnswer
<1> QED BY <1>2, <1>4, SaidLeaves

\* QUIT and what is read after it.
LEMMA QuitLine == TypeOK /\ quitServer => LineStep
<1> SUFFICES ASSUME TypeOK, quitServer PROVE LineStep
  OBVIOUS
<1>1. Said(Answers(<<Yes>>))
  BY DEF quitServer, Exchange, Said
<1>2. Answers(<<Yes>>) \in Seq(Replies)
  BY ReplyTypes, OneAnswer
<1> QED BY <1>1, <1>2, SaidLeaves

\* A connection that is closed or dropped loses replies and adds none.
LEMMA CloseLine == TypeOK /\ (CloseFtp \/ Renew \/ Drop) => LineStep
<1> SUFFICES ASSUME TypeOK, CloseFtp \/ Renew \/ Drop PROVE LineStep
  OBVIOUS
<1>0. /\ pending \in Seq(Replies) /\ late \in BOOLEAN /\ MaxPending \in Nat
      /\ Len(pending) <= MaxPending /\ Len(pending) \in Nat
  BY FtpAssumption DEF TypeOK
<1>1. late' = late
  BY DEF CloseFtp, Renew, Drop
<1>2. CASE pending' = <<>>
  BY <1>0, <1>1, <1>2 DEF LineStep, NoSizes
<1>3. ASSUME NEW j \in 0..Len(pending), pending' = SubSeq(pending, 1, j)
      PROVE  LineStep
  <2>1. pending' \in Seq(Replies) /\ Len(pending') = j /\ \A i \in 1..j : pending'[i] = pending[i]
    BY <1>0, <1>3
  <2> QED BY <1>0, <1>1, <2>1 DEF LineStep, NoSizes
<1> QED BY <1>2, <1>3 DEF CloseFtp, Renew, Drop


(* The commands of the transfers.                                           *)
\* SIZE in front of a transfer.
LEMMA SizeLine ==
  ASSUME TypeOK, NEW f \in Files, Get(f) \/ Put(f)
  PROVE  LineStep
<1>1. Said(Answers(<<SizeReply(f)>>))
  BY DEF Get, Put, Exchange, Said
<1>2. Answers(<<SizeReply(f)>>) \in Seq(Replies)
  BY SizeReplyType, OneAnswer
<1> QED BY <1>1, <1>2, SaidLeaves

\* PASV withdraws older addresses and adds one.
LEMMA PasvQueueType == TypeOK => PasvQueue \in Seq(Replies)
<1> SUFFICES ASSUME TypeOK PROVE PasvQueue \in Seq(Replies)
  OBVIOUS
<1>1. pending \in Seq(Replies) /\ Len(pending) \in Nat /\ DOMAIN pending = 1..Len(pending)
  BY DEF TypeOK
<1>2. \A i \in 1..Len(pending) : pending[i] \in Replies
  BY <1>1
<1>3. Withdrawn \in Seq(Replies)
  BY <1>1, <1>2, ReplyTypes DEF Withdrawn
<1>4. Append(Withdrawn, Reply(227, 1)) \in Seq(Replies)
  BY <1>3, ReplyTypes
<1>5. Answers(<<>>) \in Seq(Replies)
  <2>1. <<>> \in Seq(Replies)
    OBVIOUS
  <2> QED BY <2>1, AnswersType
<1>6. pending \o Answers(<<>>) \in Seq(Replies)
  BY <1>1, <1>5
<1> QED BY <1>4, <1>6 DEF PasvQueue

\* PASV and what is read after it.
LEMMA PasvLine == ASSUME TypeOK, NEW next, createDataLink(next) PROVE LineStep
<1>1. pending \in Seq(Replies) /\ Len(pending) <= MaxPending /\ late \in BOOLEAN
  BY DEF TypeOK
<1>2. CASE UNCHANGED <<pending, late>>
  BY <1>1, <1>2 DEF LineStep, NoSizes
<1>3. ASSUME NEW k \in 0..Len(PasvQueue), serverResponse(PasvQueue, k) PROVE LineStep
  BY <1>1, <1>3, PasvQueueType, ResponseLeaves
<1> QED BY <1>2, <1>3 DEF createDataLink

\* REST and what is read after it.
LEMMA RestLine == TypeOK /\ Rest => LineStep
<1> SUFFICES ASSUME TypeOK, Rest PROVE LineStep
  OBVIOUS
<1> DEFINE r == IF RestHonoured THEN Yes ELSE No
<1>1. Said(Answers(<<r>>))
  BY DEF Rest, Exchange, Said
<1>2. r \in Replies
  BY ReplyTypes
<1> HIDE DEF r
<1>3. Answers(<<r>>) \in Seq(Replies)
  BY <1>2, OneAnswer
<1> QED BY <1>1, <1>3, SaidLeaves

\* What the server says to RETR.
RetrReplies(begun) == IF begun = "none" THEN <<Reply(550, 0)>>
                      ELSE IF begun = "open" THEN <<Yes>>
                      ELSE <<Yes, Yes>>

\* A transfer that RETR begins finds room for its report.
LEMMA RetrLine == TypeOK /\ Retr => LineStep /\ (pc' = "recv" => Len(pending') < MaxPending)
<1> SUFFICES ASSUME TypeOK, Retr
             PROVE  LineStep /\ (pc' = "recv" => Len(pending') < MaxPending)
  OBVIOUS
<1>1. PICK begun \in {"none", "open", "told"} :
        LET queue == pending \o Answers(RetrReplies(begun)) IN
        \/ UNCHANGED <<pending, late>> /\ pc' = "idle"
        \/ \E k \in 0..Len(queue) : serverResponse(queue, k)
  BY DEF Retr, Exchange, RetrReplies, Return
<1> DEFINE queue == pending \o Answers(RetrReplies(begun))
<1>2. RetrReplies(begun) \in Seq(Replies)
  BY ReplyTypes DEF RetrReplies
<1>3. /\ queue \in Seq(Replies)
      /\ pending \in Seq(Replies) /\ Len(pending) <= MaxPending /\ late \in BOOLEAN
  BY <1>2, AnswersType DEF TypeOK
<1> HIDE DEF queue
<1>4. CASE UNCHANGED <<pending, late>> /\ pc' = "idle"
  BY <1>3, <1>4 DEF LineStep, NoSizes
<1>5. ASSUME NEW k \in 0..Len(queue), serverResponse(queue, k)
      PROVE  LineStep /\ Len(pending') < MaxPending
  BY <1>3, <1>5, ResponseLeaves
<1> QED BY <1>1, <1>4, <1>5 DEF queue

\* LIST and what is read after it.
LEMMA ListLine == TypeOK /\ List => LineStep
<1> SUFFICES ASSUME TypeOK, List PROVE LineStep
  OBVIOUS
<1>1. PICK answer \in {<<Yes, Yes>>, <<Reply(550, 0)>>} : Said(Answers(answer))
  BY DEF List, Exchange, Said
<1>2. answer \in Seq(Replies)
  <2>1. Yes \in Replies /\ Reply(550, 0) \in Replies
    BY ReplyTypes
  <2>2. <<Yes, Yes>> \in Seq(Replies)
    BY <2>1
  <2>3. <<Reply(550, 0)>> \in Seq(Replies)
    BY <2>1
  <2>4. answer = <<Yes, Yes>> \/ answer = <<Reply(550, 0)>>
    OBVIOUS
  <2> QED BY ONLY <2>2, <2>3, <2>4
<1>3. Answers(answer) \in Seq(Replies)
  BY <1>2, AnswersType
<1> QED BY <1>1, <1>3, SaidLeaves

\* A transfer that STOR or APPE begins finds room for its report.
LEMMA StorLine == TypeOK /\ Stor => LineStep /\ (pc' = "send" => Len(pending') < MaxPending)
<1> SUFFICES ASSUME TypeOK, Stor
             PROVE  LineStep /\ (pc' = "send" => Len(pending') < MaxPending)
  OBVIOUS
<1>1. PICK r \in {Yes, No} :
        LET queue == pending \o Answers(<<r>>) IN
        \/ UNCHANGED <<pending, late>> /\ pc' = "idle"
        \/ \E k \in 0..Len(queue) : serverResponse(queue, k)
  <2>1. PICK begun \in {"none", "open"} :
          LET taken == up /\ granted /\ begun = "open" IN
          Exchange(MaySend, Answers(<<IF taken THEN Yes ELSE No>>),
                          LAMBDA r : IF r = Failed THEN Return ELSE pc' = "send")
    BY DEF Stor
  <2> DEFINE r == IF up /\ granted /\ begun = "open" THEN Yes ELSE No
  <2>2. LET queue == pending \o Answers(<<r>>) IN
        \/ UNCHANGED <<pending, late>> /\ pc' = "idle"
        \/ \E k \in 0..Len(queue) : serverResponse(queue, k)
    BY <2>1 DEF Exchange, Return
  <2>3. r \in {Yes, No}
    OBVIOUS
  <2> QED BY <2>2, <2>3
<1> DEFINE queue == pending \o Answers(<<r>>)
<1>2. Answers(<<r>>) \in Seq(Replies)
  BY ReplyTypes, OneAnswer
<1>3. /\ queue \in Seq(Replies)
      /\ pending \in Seq(Replies) /\ Len(pending) <= MaxPending /\ late \in BOOLEAN
  BY <1>2 DEF TypeOK
<1> HIDE DEF queue
<1>4. CASE UNCHANGED <<pending, late>> /\ pc' = "idle"
  BY <1>3, <1>4 DEF LineStep, NoSizes
<1>5. ASSUME NEW k \in 0..Len(queue), serverResponse(queue, k)
      PROVE  LineStep /\ Len(pending') < MaxPending
  BY <1>3, <1>5, ResponseLeaves
<1> QED BY <1>1, <1>4, <1>5 DEF queue

\* The report of a transfer's end finds room on the line.
LEMMA ReportLine ==
  ASSUME TypeOK, Measured, pc \in {"recv", "wait", "send"}, NEW r \in {Yes, No},
         Report(r), late' = late
  PROVE  LineStep
<1>1. /\ pending \in Seq(Replies) /\ Len(pending) \in Nat /\ MaxPending \in Nat
      /\ Len(pending) <= MaxPending /\ late \in BOOLEAN
      /\ r \in Replies /\ r.code # 213
  BY FtpAssumption, ReplyTypes DEF TypeOK, Yes, No, Reply
<1>2. CASE up /\ transfer = "open"
  <2>1. Len(pending) < MaxPending /\ pending' = Append(pending, r)
    BY <1>2 DEF Measured, Report
  <2>2. /\ pending' \in Seq(Replies) /\ Len(pending') = Len(pending) + 1
        /\ \A i \in 1..Len(pending) : pending'[i] = pending[i]
        /\ pending'[Len(pending) + 1] = r
    BY <1>1, <2>1
  <2> QED BY <1>1, <2>1, <2>2 DEF LineStep, NoSizes
<1>3. CASE ~(up /\ transfer = "open")
  BY <1>1, <1>3 DEF Report, LineStep, NoSizes
<1> QED BY <1>2, <1>3

\* The ends of the transfers.
LEMMA EndLine ==
  ASSUME TypeOK, Measured, (Silence \/ Leave \/ SendFails \/ EndPut)
  PROVE  LineStep
<1>1. CASE Silence \/ Leave
  <2>1. pc \in {"recv", "wait"} /\ late' = late
    BY <1>1 DEF Silence, Leave, EndGet
  <2>2. Report(IF offset = Len(remote[file]) THEN Yes ELSE No)
    BY <1>1 DEF Silence, Leave, EndGet
  <2>3. PICK r \in {Yes, No} : Report(r)
    BY <2>2
  <2> QED BY <2>1, <2>3, ReportLine
<1>2. CASE SendFails
  BY <1>2, ReportLine DEF SendFails
<1>3. CASE EndPut
  <2> DEFINE queue == IF up /\ transfer = "open" THEN Append(pending, Yes) ELSE pending
  <2>1. queue \in Seq(Replies) /\ late \in BOOLEAN
    BY ReplyTypes DEF TypeOK
  <2>2. PICK k \in 0..Len(queue) : serverResponse(queue, k)
    BY <1>3 DEF EndPut
  <2> HIDE DEF queue
  <2> QED BY <2>1, <2>2, ResponseLeaves
<1> QED BY <1>1, <1>2, <1>3

\* n is the length that getFileLength takes from what was read after SIZE.
SizeRead(f, n) ==
  LET queue == pending \o Answers(<<SizeReply(f)>>) IN
  \/ UNCHANGED <<pending, late>> /\ n = getFileLength(Failed)
  \/ \E k \in 0..Len(queue) : serverResponse(queue, k) /\ n = getFileLength(First(queue, k))

\* As long as no reply is late, that is the length the server's file has.
LEMMA SizeIsTrue ==
  ASSUME JInv, NEW f \in Files, NEW n, SizeRead(f, n)
  PROVE  /\ n \in Int
         /\ n >= -1 \/ m_cmdSocket = "none"
         /\ ~late' => n < 0 \/ n = Len(remote[f])
<1> DEFINE answer == Answers(<<SizeReply(f)>>)
           queue == pending \o answer
<1>1. /\ pending \in Seq(Replies) /\ late \in BOOLEAN /\ Len(remote[f]) \in Nat
      /\ remote[f] \in Seq(Nat)
  BY DEF JInv, TypeOK
<1>2. answer \in Seq(Replies)
  BY SizeReplyType, OneAnswer DEF JInv
<1>3. Len(answer) > 0 => answer[1] \in {SizeReply(f), No}
  BY DEF Answers
<1>4. \A r : r.code # 213 => getFileLength(r) \in {-2, -1} /\ (getFileLength(r) = -2 => m_cmdSocket = "none")
  BY DEF getFileLength
<1>5. getFileLength(SizeReply(f)) \in {-2, -1, Len(remote[f])}
  BY <1>1 DEF getFileLength, SizeReply, Reply
<1>6. Failed.code # 213 /\ Nothing.code # 213 /\ No.code # 213
  BY DEF Failed, Nothing, No, Reply
<1>7. CASE UNCHANGED <<pending, late>> /\ n = getFileLength(Failed)
  BY <1>4, <1>6, <1>7
<1>8. ASSUME NEW k \in 0..Len(queue), serverResponse(queue, k), n = getFileLength(First(queue, k))
      PROVE  /\ n \in Int
             /\ n >= -1 \/ m_cmdSocket = "none"
             /\ ~late' => n < 0 \/ n = Len(remote[f])
  <2> HIDE DEF answer
  <2>1. CASE k = 0
    BY <2>1, <1>4, <1>6, <1>8 DEF First
  <2>2. CASE k # 0 /\ Len(pending) > 0
    <3>1. First(queue, k) = pending[1] /\ pending[1] \in Replies
      BY <2>2, <1>1, <1>2 DEF First
    <3>2. ~late' => pending[1].code # 213
      BY <2>2, <1>1, <1>8 DEF serverResponse, JInv, Prompt, NoSizes
    <3>3. pending[1].v \in Nat
      BY <3>1 DEF Replies
    <3>4. n \in Int /\ (n >= -1 \/ m_cmdSocket = "none")
      BY <3>1, <3>3, <1>8 DEF getFileLength
    <3>5. ~late' => n < 0
      BY <3>1, <3>2, <1>4, <1>8
    <3> QED BY <3>4, <3>5
  <2>3. CASE k # 0 /\ Len(pending) = 0
    <3>1. Len(answer) > 0 /\ First(queue, k) = answer[1]
      BY <2>3, <1>1, <1>2 DEF First
    <3>2. n \in {-2, -1, Len(remote[f])} /\ (n = -2 => m_cmdSocket = "none")
      <4>1. CASE answer[1] = No
        BY <4>1, <3>1, <1>4, <1>6, <1>8
      <4>2. CASE answer[1] = SizeReply(f)
        <5>1. n = getFileLength(SizeReply(f))
          BY <4>2, <3>1, <1>8
        <5>2. n = -2 => m_cmdSocket = "none"
          BY <5>1, <1>1 DEF getFileLength, SizeReply, Reply
        <5> QED BY <5>1, <5>2, <1>5
      <4> QED BY <4>1, <4>2, <3>1, <1>3
    <3> QED BY <3>2, <1>1
  <2> QED BY <2>1, <2>2, <2>3, <1>1
<1> QED BY <1>7, <1>8 DEF SizeRead

\* Outside the transfers the invariant is about the line and the types only.
LEMMA AsideKeepsJ == ASSUME JInv, Aside, LineStep, TypeOK' PROVE JInv'
<1>1. Measured' /\ Sources'
  BY DEF JInv, Aside, Measured, Sources, Whole
<1>2. ~late' => Prompt'
  BY DEF JInv, Aside, Prompt, LineStep
<1> QED BY <1>1, <1>2 DEF JInv

\* The commands outside the transfers keep the invariant.
LEMMA QuietKeepsJ ==
  ASSUME JInv, login2Server \/ inputUserName \/ inputPassWord \/ Command \/ quitServer \/ CloseFtp \/ Renew,
         Aside
  PROVE  JInv'
<1>1. TypeOK
  BY DEF JInv
<1>2. LineStep
  BY <1>1, LoginLine, UserLine, PassLine, CommandLine, QuitLine, CloseLine
<1>3. TypeOK'
  <2>0. pending' \in Seq(Replies) /\ Len(pending') <= MaxPending /\ late' \in BOOLEAN
    BY <1>2 DEF LineStep
  <2>1. CASE login2Server
    <3>1. up' \in BOOLEAN /\ granted' \in BOOLEAN
      BY <2>1, <1>1, Zenon DEF login2Server, ConnectFails, TypeOK
    <3>2. rest' \in Nat
      BY <2>1, <1>1 DEF login2Server, ConnectFails, TypeOK
    <3>3. m_cmdSocket' \in {"none", "open", "stale"} /\ (up' => m_cmdSocket' = "open")
      BY <2>1, <1>1 DEF login2Server, ConnectFails, TypeOK
    <3> QED BY <2>0, <2>1, <3>1, <3>2, <3>3, <1>1 DEF login2Server, TypeOK
  <2>2. CASE inputUserName \/ Command
    BY <2>0, <2>2, <1>1 DEF inputUserName, Command, TypeOK, client, server
  <2>3. CASE inputPassWord
    <3>1. m_bLogin' \in BOOLEAN /\ granted' \in BOOLEAN
      BY <2>3, <1>1 DEF inputPassWord, Exchange, TypeOK
    <3> QED BY <2>0, <2>3, <3>1, <1>1 DEF inputPassWord, TypeOK
  <2>4. CASE quitServer
    <3>1. up' \in BOOLEAN /\ (up' => up)
      BY <2>4, <1>1 DEF quitServer, Exchange, TypeOK
    <3> QED BY <2>0, <2>4, <3>1, <1>1 DEF quitServer, TypeOK, client
  <2>5. CASE CloseFtp \/ Renew
    <3>1. up' \in BOOLEAN /\ ~up' /\ m_bLogin' \in BOOLEAN
      BY <2>5, <1>1, Zenon DEF CloseFtp, Renew, TypeOK
    <3>2. /\ m_nDLMaxSize' \in Int /\ m_nDownLoaded' \in Nat /\ downState' \in 0..2
          /\ m_cmdSocket' = "none"
          /\ UNCHANGED <<call, granted, rest, transfer, local, remote>>
      BY <2>5, <1>1 DEF CloseFtp, Renew, TypeOK
    <3> QED BY <2>0, <3>1, <3>2, <1>1 DEF TypeOK, call
  <2> QED BY <2>1, <2>2, <2>3, <2>4, <2>5
<1> QED BY <1>2, <1>3, AsideKeepsJ

\* A drop only shortens the line.
LEMMA DropKeepsJ == JInv /\ Drop => JInv'
<1> SUFFICES ASSUME JInv, Drop PROVE JInv'
  OBVIOUS
<1>1. TypeOK /\ LineStep
  BY CloseLine DEF JInv
<1>2. TypeOK'
  BY <1>1 DEF Drop, TypeOK, LineStep, client, call
<1>3. Len(pending') <= Len(pending)
  <2>1. PICK j \in 0..Len(pending) : pending' = SubSeq(pending, 1, j)
    BY DEF Drop
  <2>2. pending \in Seq(Replies)
    BY <1>1 DEF TypeOK
  <2> QED BY <2>1, <2>2
<1>4. Measured'
  <2>1. Len(pending) \in Nat /\ Len(pending') \in Nat /\ MaxPending \in Nat
    BY <1>1, <1>2, FtpAssumption DEF TypeOK
  <2>2. Len(pending) < MaxPending => Len(pending') < MaxPending
    BY <1>3, <2>1
  <2> QED BY <2>2 DEF JInv, Measured, Drop, client, call
<1>5. Sources'
  BY DEF JInv, Sources, Whole, Drop
<1>6. ~late' => Prompt'
  BY <1>1 DEF JInv, Prompt, Drop, LineStep, client, call
<1> QED BY <1>2, <1>4, <1>5, <1>6 DEF JInv

\* Get learns the size, or that it does not know it, and measures what is here.
LEMMA GetKeepsJ == ASSUME JInv, NEW f \in Fetched, Get(f) PROVE JInv'
<1>1. TypeOK /\ f \in Files /\ LineStep
  BY SizeLine DEF JInv, Files
<1>2. SizeRead(f, m_nDLMaxSize')
  BY DEF Get, Exchange, SizeRead
<1>3. /\ m_nDLMaxSize' \in Int
      /\ ~late' => m_nDLMaxSize' < 0 \/ m_nDLMaxSize' = Len(remote[f])
  BY <1>1, <1>2, SizeIsTrue
<1>4. Len(remote[f]) = Size[f]
  BY <1>1, WholeLen DEF JInv, Sources
<1>5. Len(local[f]) \in Nat
  BY <1>1 DEF TypeOK
<1>6. TypeOK'
  BY <1>1, <1>3, <1>5 DEF TypeOK, Get, LineStep, server, Labels
<1>7. Measured' /\ Sources'
  BY DEF JInv, Measured, Sources, Whole, Get
<1>8. ~late' => Prompt'
  BY <1>1, <1>3, <1>4 DEF JInv, Prompt, Get, LineStep
<1> QED BY <1>6, <1>7, <1>8 DEF JInv

\* Put learns how much the server has, or that it does not know it.
LEMMA PutKeepsJ == ASSUME JInv, NEW f \in Stored, Put(f) PROVE JInv'
<1>1. TypeOK /\ f \in Files /\ LineStep
  BY SizeLine DEF JInv, Files
<1>2. SizeRead(f, nSize')
  BY DEF Put, Exchange, SizeRead
<1>3. /\ nSize' \in Int
      /\ nSize' >= -1 \/ m_cmdSocket = "none"
      /\ ~late' => nSize' < 0 \/ nSize' = Len(remote[f])
  BY <1>1, <1>2, SizeIsTrue
<1>4. TypeOK'
  BY <1>1, <1>3 DEF TypeOK, Put, LineStep, server, client, Labels
<1>5. Measured' /\ Sources'
  BY <1>3 DEF JInv, Measured, Sources, Whole, Put, client
<1>6. ~late' => Prompt'
  BY <1>1, <1>3 DEF JInv, Prompt, Put, LineStep
<1> QED BY <1>4, <1>5, <1>6 DEF JInv

\* Without a connection there is no data link.
LEMMA DataLinkNeedsLine == ASSUME NEW next, createDataLink(next), pc' # "idle"
                           PROVE  m_cmdSocket = "open"
BY DEF createDataLink, Return, MaySend

\* The data connection changes none of that.
LEMMA LinkKeepsJ == JInv /\ (Pasv \/ DirPasv \/ PutPasv) => JInv'
<1> SUFFICES ASSUME JInv, Pasv \/ DirPasv \/ PutPasv PROVE JInv'
  OBVIOUS
<1>1. TypeOK /\ LineStep
  BY PasvLine DEF JInv, Pasv, DirPasv, PutPasv
<1>2. \/ pc' = "idle"
      \/ pc = "pasv" /\ pc' = "rest"
      \/ pc = "dir" /\ pc' = "list"
      \/ pc = "putpasv" /\ pc' = "stor" /\ m_cmdSocket = "open"
  BY DataLinkOutcome, DataLinkNeedsLine DEF Pasv, DirPasv, PutPasv
<1>3. UNCHANGED <<client, file, offset, nSize, server, downState, local, remote>>
  BY DEF Pasv, DirPasv, PutPasv
<1>4. TypeOK'
  BY <1>1, <1>2, <1>3 DEF TypeOK, LineStep, client, server, Labels
<1>5. Measured' /\ Sources'
  BY <1>2, <1>3 DEF JInv, Measured, Sources, Whole, client
<1>6. ~late' => Prompt'
  BY <1>1, <1>2, <1>3 DEF JInv, Prompt, LineStep, client
<1> QED BY <1>4, <1>5, <1>6 DEF JInv

\* REST is sent a length.
LEMMA RestKeepsJ == JInv /\ Rest => JInv'
<1> SUFFICES ASSUME JInv, Rest PROVE JInv'
  OBVIOUS
<1>1. TypeOK /\ LineStep
  BY RestLine DEF JInv
<1>2. nSize = Len(local[file]) /\ nSize \in Nat
  BY <1>1 DEF JInv, Measured, Rest, TypeOK
<1>3. pc' \in {"idle", "retr"} /\ rest' \in {rest, nSize}
  BY DEF Rest, Exchange, Return
<1>4. TypeOK'
  BY <1>1, <1>2, <1>3 DEF TypeOK, Rest, LineStep, client, Labels
<1>5. Measured' /\ Sources'
  BY <1>3 DEF JInv, Measured, Sources, Whole, Rest
<1>6. ~late' => Prompt'
  BY <1>1, <1>3 DEF JInv, Prompt, Rest, LineStep, client
<1> QED BY <1>4, <1>5, <1>6 DEF JInv

\* RETR starts the count at what is here.
LEMMA RetrKeepsJ == JInv /\ Retr => JInv'
<1> SUFFICES ASSUME JInv, Retr PROVE JInv'
  OBVIOUS
<1>1. TypeOK /\ LineStep /\ (pc' = "recv" => Len(pending') < MaxPending)
  BY RetrLine DEF JInv
<1>2. nSize = Len(local[file]) /\ nSize \in Nat
  BY <1>1 DEF JInv, Measured, Retr, TypeOK
<1>3. \/ pc' = "idle" /\ m_nDownLoaded' = m_nDownLoaded
      \/ pc' = "recv" /\ m_nDownLoaded' = nSize
  BY DEF Retr, Exchange, Return
<1>4. transfer' \in {"none", "open", "told"}
  BY DEF Retr
<1>5. TypeOK'
  BY <1>1, <1>2, <1>3, <1>4 DEF TypeOK, Retr, LineStep, Labels
<1>6. Measured' /\ Sources'
  BY <1>1, <1>2, <1>3 DEF JInv, Measured, Sources, Whole, Retr
<1>7. ~late' => Prompt'
  BY <1>1, <1>3 DEF JInv, Prompt, Retr, LineStep
<1> QED BY <1>5, <1>6, <1>7 DEF JInv


\* The byte that arrives is one more here, and one more counted.
LEMMA RecvKeepsJ == JInv /\ Recv => JInv'
<1> SUFFICES ASSUME JInv, Recv PROVE JInv'
  OBVIOUS
<1> DEFINE n == Len(local[file])
           byte == remote[file][offset + 1]
<1>1. TypeOK /\ file \in Fetched /\ file \in Files /\ m_nDownLoaded = n
  BY DEF JInv, Measured, Recv, Files
<1>2. /\ local[file] \in Seq(Nat) /\ n \in Nat /\ remote[file] \in Seq(Nat) /\ offset \in Nat
      /\ local \in [Files -> Seq(Nat)]
  BY <1>1 DEF TypeOK
<1>3. byte \in Nat
  BY <1>2 DEF Recv
<1>4. local' = [local EXCEPT ![file] = Append(local[file], byte)]
  BY DEF Recv
<1> HIDE DEF byte
<1>5. Append(local[file], byte) \in Seq(Nat) /\ Len(Append(local[file], byte)) = n + 1
  BY <1>2, <1>3
<1>6. /\ local' \in [Files -> Seq(Nat)]
      /\ local'[file] = Append(local[file], byte)
      /\ \A f \in Files : f # file => local'[f] = local[f]
  BY <1>1, <1>2, <1>4, <1>5
<1>7. TypeOK'
  BY <1>1, <1>2, <1>6 DEF TypeOK, Recv, server, Labels
<1>8. Measured'
  BY <1>1, <1>5, <1>6 DEF JInv, Measured, Recv, server
<1>9. Sources'
  BY <1>1, <1>6, FilesAssumption DEF JInv, Sources, Whole, Recv, Files
<1>10. ~late' => Prompt'
  BY DEF JInv, Prompt, NoSizes, Recv, server
<1> QED BY <1>7, <1>8, <1>9, <1>10 DEF JInv

\* A call returns, and has not touched a file in this step.
Returns == /\ pc' = "idle"
           /\ UNCHANGED <<client, file, offset, nSize, up, granted, rest, downState, local, remote>>
           /\ transfer' \in {transfer, "none"}

\* Such a step keeps the invariant.
LEMMA ReturnsKeepsJ == ASSUME JInv, LineStep, Returns PROVE JInv'
<1>1. TypeOK'
  BY DEF JInv, TypeOK, LineStep, Returns, client, Labels
<1>2. Measured' /\ Sources'
  BY DEF JInv, Measured, Sources, Whole, Returns
<1>3. ~late' => Prompt'
  BY DEF JInv, Prompt, LineStep, Returns
<1> QED BY <1>1, <1>2, <1>3 DEF JInv

\* The ends of Get, Dir and Put are such steps.
LEMMA EndKeepsJ == JInv /\ (Silence \/ Leave \/ List \/ SendFails \/ EndPut) => JInv'
<1> SUFFICES ASSUME JInv, Silence \/ Leave \/ List \/ SendFails \/ EndPut PROVE JInv'
  OBVIOUS
<1>1. LineStep
  BY EndLine, ListLine DEF JInv
<1>2. CASE Silence \/ Leave
  BY <1>1, <1>2, ReturnsKeepsJ DEF Silence, Leave, EndGet, Return, Report, Returns
<1>3. CASE List
  <2>1. pc' = "idle"
    BY <1>3 DEF List, Exchange, Return
  <2> QED BY <1>1, <1>3, <2>1, ReturnsKeepsJ DEF List, server, Returns
<1>4. CASE SendFails \/ EndPut
  BY <1>1, <1>4, ReturnsKeepsJ DEF SendFails, EndPut, Return, Report, Returns
<1> QED BY <1>2, <1>3, <1>4

\* The pause in downLoad64, and the beginning of Dir.
LEMMA WaitKeepsJ == JInv /\ (Wait \/ Dir) => JInv'
<1> SUFFICES ASSUME JInv, Wait \/ Dir PROVE JInv'
  OBVIOUS
<1>1. /\ (pc = "wait" /\ pc' = "recv") \/ (pc = "idle" /\ pc' = "dir")
      /\ UNCHANGED <<client, file, offset, nSize, server, downState, local, remote, pending, late>>
  BY DEF Wait, Dir
<1>2. TypeOK'
  BY <1>1 DEF JInv, TypeOK, client, server, Labels
<1>3. Measured' /\ Sources'
  BY <1>1 DEF JInv, Measured, Sources, Whole, client, server
<1>4. ~late' => Prompt'
  BY <1>1 DEF JInv, Prompt, NoSizes, client, server
<1> QED BY <1>2, <1>3, <1>4 DEF JInv

\* STOR begins with an empty file and at 0, APPE where the server's file ends.
LEMMA StorKeepsJ == JInv /\ Stor => JInv'
<1> SUFFICES ASSUME JInv, Stor PROVE JInv'
  OBVIOUS
<1>1. TypeOK /\ LineStep /\ (pc' = "send" => Len(pending') < MaxPending)
  BY StorLine DEF JInv
<1>2. file \in Stored /\ file \in Files /\ nSize \in Int /\ nSize >= -1
  BY <1>1 DEF JInv, Measured, TypeOK, Stor, Files
<1>3. pc' \in {"idle", "send"}
  BY DEF Stor, Exchange, Return
<1>4. offset' = IF nSize = -1 THEN 0 ELSE nSize
  BY DEF Stor
<1>5. \/ transfer' = "none" /\ remote' = remote
      \/ transfer' = "open" /\ remote' = IF nSize = -1 THEN [remote EXCEPT ![file] = <<>>] ELSE remote
  BY DEF Stor
<1>6. UNCHANGED <<client, file, nSize, up, granted, rest, downState, local>>
  BY DEF Stor
<1>7. /\ remote' \in [Files -> Seq(Nat)]
      /\ \A f \in Files : f # file => remote'[f] = remote[f]
      /\ remote'[file] = <<>> \/ remote'[file] = remote[file]
  <2>1. remote \in [Files -> Seq(Nat)] /\ <<>> \in Seq(Nat)
    BY <1>1 DEF TypeOK
  <2>2. remote' = remote \/ remote' = [remote EXCEPT ![file] = <<>>]
    BY <1>5
  <2> QED BY <2>1, <2>2, <1>2
<1>8. TypeOK'
  <2>1. offset' \in Nat
    BY <1>2, <1>4
  <2> QED BY <1>1, <1>3, <1>5, <1>6, <1>7, <2>1 DEF TypeOK, LineStep, client, Labels
<1>9. Measured'
  BY <1>1, <1>2, <1>3, <1>6 DEF JInv, Measured
<1>10. Sources'
  BY <1>2, <1>6, <1>7, FilesAssumption DEF JInv, Sources, Whole, Files
<1>11. ASSUME ~late' PROVE Prompt'
  <2>1. ~late /\ Prompt /\ NoSizes'
    BY <1>1, <1>11 DEF JInv, LineStep, Prompt
  <2>2. Size[file] \in Nat
    BY <1>2, WholeLen
  <2>3. ASSUME NEW f \in Stored
        PROVE  Len(remote'[f]) <= Size[f] /\ \A i \in 1..Len(remote'[f]) : remote'[f][i] = i
    BY <1>2, <1>7, <2>1, <2>2 DEF Prompt, Files
  <2>4. pc' = "send" /\ transfer' = "open" => offset' = Len(remote'[file])
    <3>1. CASE nSize = -1 /\ transfer' = "open"
      <4>1. remote'[file] = <<>>
        BY <3>1, <1>1, <1>2, <1>5 DEF TypeOK
      <4> QED BY <3>1, <4>1, <1>4
    <3>2. CASE nSize # -1
      <4>1. nSize = Len(remote[file])
        BY <3>2, <2>1, <1>2 DEF Prompt, Stor
      <4> QED BY <3>2, <4>1, <1>4, <1>5
    <3> QED BY <3>1, <3>2
  <2> QED BY <1>3, <1>6, <2>1, <2>3, <2>4 DEF Prompt
<1> QED BY <1>8, <1>9, <1>10, <1>11 DEF JInv

\* The byte that is sent is the one behind the last the server has.
LEMMA SendByteKeepsJ == JInv /\ SendByte => JInv'
<1> SUFFICES ASSUME JInv, SendByte PROVE JInv'
  OBVIOUS
<1> DEFINE byte == local[file][offset + 1]
           n == Len(remote[file])
<1>1. TypeOK /\ file \in Stored /\ file \in Files /\ local[file] = Whole(file) /\ offset \in Nat
  BY DEF JInv, Measured, Sources, TypeOK, SendByte, Files
<1>2. Size[file] \in Nat /\ offset < Size[file] /\ byte = offset + 1
  BY <1>1, WholeLen DEF SendByte, Whole
<1>3. remote \in [Files -> Seq(Nat)] /\ remote[file] \in Seq(Nat) /\ n \in Nat
  BY <1>1 DEF TypeOK
<1>4. remote' = IF transfer = "open" THEN [remote EXCEPT ![file] = Append(remote[file], offset + 1)] ELSE remote
  BY <1>2 DEF SendByte
<1> HIDE DEF byte
<1>5. /\ Append(remote[file], offset + 1) \in Seq(Nat)
      /\ Len(Append(remote[file], offset + 1)) = n + 1
      /\ \A i \in 1..n : Append(remote[file], offset + 1)[i] = remote[file][i]
      /\ Append(remote[file], offset + 1)[n + 1] = offset + 1
  BY <1>1, <1>3
<1>6. /\ remote' \in [Files -> Seq(Nat)]
      /\ \A f \in Files : f # file => remote'[f] = remote[f]
      /\ transfer = "open" => remote'[file] = Append(remote[file], offset + 1)
      /\ transfer # "open" => remote'[file] = remote[file]
  BY <1>1, <1>3, <1>4, <1>5
<1>7. TypeOK'
  BY <1>1, <1>6 DEF TypeOK, SendByte, client, server
<1>8. Measured'
  BY DEF JInv, Measured, SendByte, client, server
<1>9. Sources'
  BY <1>1, <1>6, FilesAssumption DEF JInv, Sources, Whole, SendByte, Files
<1>10. ASSUME ~late' PROVE Prompt'
  <2>1. Prompt /\ (transfer = "open" => offset = n)
    BY <1>10 DEF JInv, SendByte, Prompt
  <2>2. ASSUME NEW f \in Stored
        PROVE  Len(remote'[f]) <= Size[f] /\ \A i \in 1..Len(remote'[f]) : remote'[f][i] = i
    <3>1. CASE f = file /\ transfer = "open"
      <4>1. Len(remote'[f]) = n + 1 /\ offset = n /\ n + 1 <= Size[f]
        BY <3>1, <1>2, <1>3, <1>5, <1>6, <2>1
      <4>2. \A i \in 1..n : remote'[f][i] = i
        BY <3>1, <1>5, <1>6, <2>1 DEF Prompt
      <4>3. remote'[f][n + 1] = n + 1
        BY <3>1, <4>1, <1>5, <1>6
      <4> QED BY <4>1, <4>2, <4>3, <1>3
    <3>2. CASE ~(f = file /\ transfer = "open")
      <4>1. remote'[f] = remote[f]
        BY <3>2, <1>6 DEF Files
      <4> QED BY <4>1, <2>1 DEF Prompt
    <3> QED BY <3>1, <3>2
  <2>3. transfer' = "open" => offset' = Len(remote'[file'])
    BY <1>5, <1>6, <2>1 DEF SendByte, server
  <2> QED BY <2>1, <2>2, <2>3 DEF Prompt, NoSizes, SendByte, client, server
<1> QED BY <1>7, <1>8, <1>9, <1>10 DEF JInv

\* The switch is in no part of the invariant but the type.
LEMMA CopyKeepsJ == ASSUME JInv, NEW s \in 0..2, copyVariable(s) PROVE JInv'
<1>1. TypeOK'
  BY DEF JInv, TypeOK, copyVariable, client, call, server
<1>2. Measured' /\ Sources'
  BY DEF JInv, Measured, Sources, Whole, copyVariable, client, call, server
<1>3. ~late' => Prompt'
  BY DEF JInv, Prompt, NoSizes, copyVariable, client, call, server
<1> QED BY <1>1, <1>2, <1>3 DEF JInv

\* Nor is a step of somebody else.
LEMMA StutterKeepsJ == JInv /\ UNCHANGED vars => JInv'
<1> SUFFICES ASSUME JInv, UNCHANGED vars PROVE JInv'
  OBVIOUS
<1>1. TypeOK'
  BY DEF JInv, TypeOK, vars, client, call, server
<1>2. Measured' /\ Sources'
  BY DEF JInv, Measured, Sources, Whole, vars, client, call, server
<1>3. ~late' => Prompt'
  BY DEF JInv, Prompt, NoSizes, vars, client, call, server
<1> QED BY <1>1, <1>2, <1>3 DEF JInv

\* At first the files to store are here only, and those to fetch are there only.
LEMMA InitJInv == Init => JInv
<1> SUFFICES ASSUME Init PROVE JInv
  OBVIOUS
<1>1. /\ \A f \in Files : Whole(f) \in Seq(Nat) /\ Size[f] \in Nat
      /\ <<>> \in Seq(Nat) /\ <<>> \in Seq(Replies) /\ Len(<<>>) = 0
  BY WholeLen
<1>2. local \in [Files -> Seq(Nat)] /\ remote \in [Files -> Seq(Nat)]
  BY <1>1 DEF Init
<1>3. {m_bLogin, up, granted, late} \subseteq BOOLEAN /\ ~up
  BY Zenon DEF Init
<1>4. TypeOK
  BY <1>1, <1>2, <1>3, FtpAssumption DEF Init, TypeOK, Labels
<1>5. Measured
  BY DEF Init, Measured
<1>6. Sources
  BY FilesAssumption DEF Init, Sources, Files
<1>7. Prompt
  <2>1. \A f \in Stored : remote[f] = <<>> /\ Size[f] \in Nat
    BY <1>1, FilesAssumption DEF Init, Files
  <2>2. NoSizes
    BY <1>1 DEF Init, NoSizes
  <2>3. \A f \in Stored : /\ Len(remote[f]) <= Size[f]
                         /\ \A i \in 1..Len(remote[f]) : remote[f][i] = i
    BY <1>1, <2>1
  <2>4. pc = "idle"
    BY DEF Init
  <2> QED BY <2>2, <2>3, <2>4 DEF Prompt
<1> QED BY <1>4, <1>5, <1>6, <1>7 DEF JInv

\* Every step of the client, the server and the network keeps JInv.
LEMMA StepKeepsJ == JInv /\ [Next]_vars => JInv'
<1> SUFFICES ASSUME JInv, [Next]_vars PROVE JInv'
  OBVIOUS
<1>1. CASE Quiet
  BY <1>1, QuietIsAside, QuietKeepsJ DEF Quiet
<1>2. CASE Drop
  BY <1>2, DropKeepsJ
<1>3. ASSUME NEW f \in Fetched, Get(f) PROVE JInv'
  BY <1>3, GetKeepsJ
<1>4. ASSUME NEW f \in Stored, Put(f) PROVE JInv'
  BY <1>4, PutKeepsJ
<1>5. CASE Pasv \/ DirPasv \/ PutPasv
  BY <1>5, LinkKeepsJ
<1>6. CASE Rest \/ Retr \/ Recv
  BY <1>6, RestKeepsJ, RetrKeepsJ, RecvKeepsJ
<1>7. CASE Silence \/ Leave \/ List \/ SendFails \/ EndPut
  BY <1>7, EndKeepsJ
<1>8. CASE Wait \/ Dir
  BY <1>8, WaitKeepsJ
<1>9. CASE Stor \/ SendByte
  BY <1>9, StorKeepsJ, SendByteKeepsJ
<1>10. ASSUME NEW s \in 0..2, copyVariable(s) PROVE JInv'
  BY <1>10, CopyKeepsJ
<1>11. CASE UNCHANGED vars
  BY <1>11, StutterKeepsJ
<1> QED
  BY <1>1, <1>2, <1>3, <1>4, <1>5, <1>6, <1>7, <1>8, <1>9, <1>10, <1>11 DEF Next, Step, Quiet

\* The invariant holds in every reachable state, whatever the server makes of
\* REST.
LEMMA StoreInvariance == Spec => []JInv
<1>1. Init => JInv
  BY InitJInv
<1>2. JInv /\ [Next]_vars => JInv'
  BY StepKeepsJ
<1> QED
  BY <1>1, <1>2, PTL DEF Spec

(* Every variable keeps its type; among them the place fseek is given and   *)
(* the length REST is sent, which are never negative, and the bound on the  *)
(* replies on their way (Put and downLoad64, ftpclient.cpp).                *)
THEOREM TypeCorrect == Spec => []TypeOK
<1>1. JInv => TypeOK
  BY DEF JInv
<1> QED
  BY <1>1, StoreInvariance, PTL

(* As long as no reply was late, what Put has left on the server is a       *)
(* beginning of the file, however often it resumed, began again or broke    *)
(* off (Put, ftpclient.cpp).                                                *)
THEOREM UploadIsSafe == Spec => []RemoteIsPrefix
<1>1. JInv => RemoteIsPrefix
  <2> SUFFICES ASSUME JInv, ~late, NEW f \in Stored PROVE IsPrefix(remote[f], Whole(f))
    BY DEF RemoteIsPrefix
  <2>1. f \in Files /\ remote[f] \in Seq(Nat)
    BY DEF JInv, TypeOK, Files
  <2> QED
    BY <2>1, BytesMakePrefix DEF JInv, Prompt
<1> QED
  BY <1>1, StoreInvariance, PTL

(* With a server that resumes where REST says, and as long as no reply was  *)
(* late, progress that reads as complete during a transfer is complete      *)
(* (m_nDownLoaded and m_nDLMaxSize of downLoad64, ftpclient.cpp).           *)
THEOREM ProgressIsHonest == RestHonoured /\ Spec => []ProgressIsTrue
<1>1. IInv /\ JInv => ProgressIsTrue
  <2> SUFFICES ASSUME IInv, JInv, ~late, pc \in {"recv", "wait"}, m_nDownLoaded = m_nDLMaxSize
               PROVE  local[file] = Whole(file)
    BY DEF ProgressIsTrue
  <2>1. file \in Fetched /\ file \in Files /\ local[file] \in Seq(Nat) /\ Len(local[file]) \in Nat
    BY DEF IInv, Types, Getting, Files
  <2>2. Len(local[file]) = Size[file]
    BY <2>1 DEF JInv, Measured, Prompt
  <2>3. \A i \in 1..Len(local[file]) : local[file][i] = i
    BY <2>1 DEF IInv, Sound
  <2> QED
    BY <2>1, <2>2, <2>3 DEF Whole
<1> QED
  BY <1>1, FetchInvariance, StoreInvariance, PTL
=============================================================================
