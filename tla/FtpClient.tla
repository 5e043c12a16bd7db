------------------------------ MODULE FtpClient ------------------------------
(***************************************************************************)
(* ftpClient of src/public/ftp: one control connection, over which files   *)
(* are fetched (Get) and stored (Put) from where the last try broke off.   *)
(*                                                                         *)
(* A command is sent and serverResponse then reads what arrives until one  *)
(* second passes in silence.  A reply that is later than that is read by   *)
(* the next command, in front of its own, and the code looks at the first  *)
(* three digits only.  `pending' holds the replies on their way; k of them *)
(* arrive in time.                                                         *)
(*                                                                         *)
(* A byte is known by its place in its file, and a file is a sequence of   *)
(* bytes; what should be in file f is Whole(f).  The server is modelled    *)
(* from what the code expects of it.  Codes the code does not tell apart   *)
(* are one: 200 for consent, 500 for refusal.                              *)
(***************************************************************************)
EXTENDS Integers, Sequences, SequencesExt

CONSTANTS Fetched,      \* files that are on the server
          Stored,       \* files that are on this machine
          Size,         \* Size[f]: how long the file is
          RestHonoured, \* whether the server resumes at REST's position
          MaxPending    \* bound on the replies on their way

Files == Fetched \cup Stored

ASSUME FilesAssumption == Fetched \cap Stored = {}
ASSUME SizeAssumption == Size \in [Files -> Nat]
ASSUME FtpAssumption == RestHonoured \in BOOLEAN /\ MaxPending \in Nat \ {0}

Whole(f) == [i \in 1..Size[f] |-> i]

VARIABLES m_cmdSocket,   \* "none", "open", or "stale": closed by a failed Connect
          m_bLogin,
          m_nDLMaxSize,  \* what SIZE said of the file
          m_nDownLoaded, \* how much of it is here
          downState,     \* *m_pnDownState: 0 go on, 1 wait, 2 leave
          pc, file,      \* the call: where it is, and of which file
          offset,        \* its place in the file it reads or writes
          nSize,         \* Put: what SIZE said; Get: nLocalNow
          local, remote, \* the files here and there
          up, granted,   \* server: connected, and PASS was accepted
          rest,          \* server: where the next RETR begins
          transfer,      \* server: "none", "open", or "told": its end is reported
          pending,
          late           \* history: a reply was later than a second

client == <<m_cmdSocket, m_bLogin, m_nDLMaxSize, m_nDownLoaded>>
call == <<pc, file, offset, nSize>>
server == <<up, granted, rest, transfer>>
vars == <<client, call, server, downState, local, remote, pending, late>>

Reply(code, v) == [code |-> code, v |-> v]
Yes == Reply(200, 0)
No == Reply(500, 0)
Nothing == Reply(-100, 0)
Failed == Reply(-1, 0)
Replies == [code : {200, 213, 227, 500, 550}, v : Nat]

Labels == {"idle", "dir", "list", "pasv", "rest", "retr", "recv", "wait", "putpasv", "stor", "send"}

TypeOK == /\ m_cmdSocket \in {"none", "open", "stale"}
          /\ {m_bLogin, up, granted, late} \subseteq BOOLEAN
          /\ m_nDLMaxSize \in Int /\ m_nDownLoaded \in Nat
          /\ downState \in 0..2
          /\ pc \in Labels /\ file \in Files
          /\ offset \in Nat /\ nSize \in Int /\ rest \in Nat
          /\ transfer \in {"none", "open", "told"}
          /\ local \in [Files -> Seq(Nat)] /\ remote \in [Files -> Seq(Nat)]
          /\ pending \in Seq(Replies) /\ Len(pending) <= MaxPending
          /\ up => m_cmdSocket = "open"

Init == /\ m_cmdSocket = "none" /\ m_bLogin = FALSE
        /\ m_nDLMaxSize = 0 /\ m_nDownLoaded = 0
        /\ downState = 0
        /\ pc = "idle" /\ file \in Files /\ offset = 0 /\ nSize = 0
        /\ local = [f \in Files |-> IF f \in Stored THEN Whole(f) ELSE <<>>]
        /\ remote = [f \in Files |-> IF f \in Fetched THEN Whole(f) ELSE <<>>]
        /\ up = FALSE /\ granted = FALSE /\ rest = 0 /\ transfer = "none"
        /\ pending = <<>> /\ late = FALSE

-----------------------------------------------------------------------------
(* Commands                                                                 *)

\* serverResponse: k replies arrive in time.
serverResponse(queue, k) == /\ Len(queue) - k < MaxPending
                            /\ pending' = SubSeq(queue, k + 1, Len(queue))
                            /\ late' = (late \/ k < Len(queue))

First(queue, k) == IF k = 0 THEN Nothing ELSE queue[1]

\* Send refuses everything but USER and PASS before PASS was sent.
MaySend == m_cmdSocket = "open" /\ m_bLogin

\* A server that is gone says nothing; one that did not accept the password
\* refuses.
Answers(r) == IF ~up THEN <<>> ELSE IF granted THEN r ELSE <<No>>

(* A command and what is read after it.  Send fails when it may not send,   *)
(* and may fail when the connection is broken.                              *)
Exchange(may, answer, Then(_)) ==
  \/ /\ ~may \/ ~up
     /\ UNCHANGED <<pending, late>>
     /\ Then(Failed)
  \/ /\ may
     /\ \E k \in 0..Len(pending \o answer) :
           /\ serverResponse(pending \o answer, k)
           /\ Then(First(pending \o answer, k))

Return == pc' = "idle"

\* What was read is handed to the caller and leaves the client as it is.
ToCaller(r) == TRUE

(* Connect closes the descriptor it fails with, which stays in m_cmdSocket: *)
(* from then on it fails again and again.                                   *)
ConnectFails == /\ ~up
                /\ m_cmdSocket' = "stale" /\ pending' = <<>>
                /\ UNCHANGED <<up, granted, rest, late>>

(* login2Server: a new connection, or one more read from the one that is.   *)
login2Server ==
  /\ pc = "idle"
  /\ \/ /\ m_cmdSocket = "none"
        /\ m_cmdSocket' = "open" /\ up' = TRUE /\ granted' = FALSE /\ rest' = 0
        /\ \E k \in 0..1 : serverResponse(<<Yes>>, k)
     \/ ConnectFails
     \/ /\ m_cmdSocket = "open"
        /\ \E k \in 0..Len(pending) : serverResponse(pending, k)
        /\ UNCHANGED <<m_cmdSocket, up, granted, rest>>
  /\ UNCHANGED <<m_bLogin, m_nDLMaxSize, m_nDownLoaded, pc, file, offset, nSize, transfer, downState, local, remote>>

inputUserName ==
  /\ pc = "idle"
  /\ Exchange(m_cmdSocket = "open", IF up THEN <<Yes>> ELSE <<>>, ToCaller)
  /\ UNCHANGED <<client, pc, file, offset, nSize, server, downState, local, remote>>

\* m_bLogin is set when PASS is sent, whatever the server says.
inputPassWord ==
  /\ pc = "idle"
  /\ \E accepted \in BOOLEAN :
        Exchange(m_cmdSocket = "open",
                 IF ~up THEN <<>> ELSE IF accepted THEN <<Yes>> ELSE <<No>>,
                 LAMBDA r : /\ m_bLogin' = (m_bLogin \/ r # Failed)
                            /\ granted' = IF r # Failed THEN accepted /\ up ELSE granted)
  /\ UNCHANGED <<m_cmdSocket, m_nDLMaxSize, m_nDownLoaded, pc, file, offset, nSize, up, rest, transfer, downState, local, remote>>

\* What the server says to SIZE; an empty file is as good as none.
SizeReply(f) == IF remote[f] = <<>> THEN Reply(550, 0) ELSE Reply(213, Len(remote[f]))

(* SIZE by itself, PWD, TYPE, CWD, and DELE, RMD, MKD, RNFR and RNTO of     *)
(* other files than these; Rename is two commands in a row.                 *)
Command ==
  /\ pc = "idle"
  /\ \E r \in {Yes, Reply(550, 0)} \cup {SizeReply(f) : f \in Files} :
        Exchange(MaySend, Answers(<<r>>), ToCaller)
  /\ UNCHANGED <<client, pc, file, offset, nSize, server, downState, local, remote>>

quitServer ==
  /\ pc = "idle"
  /\ Exchange(MaySend, Answers(<<Yes>>), LAMBDA r : up' = (up /\ r = Failed))
  /\ UNCHANGED <<client, pc, file, offset, nSize, granted, rest, transfer, downState, local, remote>>

\* CloseFtp leaves m_bLogin as it is.
CloseFtp ==
  /\ pc = "idle"
  /\ m_cmdSocket' = "none"
  /\ up' = FALSE
  /\ pending' = <<>>
  /\ UNCHANGED <<m_bLogin, m_nDLMaxSize, m_nDownLoaded, call, granted, rest, transfer, downState, local, remote, late>>

\* The object is destroyed, and the next one is made.
Renew ==
  /\ pc = "idle"
  /\ m_cmdSocket' = "none" /\ m_bLogin' = FALSE
  /\ m_nDLMaxSize' = 0 /\ m_nDownLoaded' = 0
  /\ downState' = 0
  /\ up' = FALSE
  /\ pending' = <<>>
  /\ UNCHANGED <<call, granted, rest, transfer, local, remote, late>>

\* The server or the network drops the connection and some of what is on its way.
Drop ==
  /\ up
  /\ up' = FALSE
  /\ \E j \in 0..Len(pending) : pending' = SubSeq(pending, 1, j)
  /\ UNCHANGED <<client, call, granted, rest, transfer, downState, local, remote, late>>

-----------------------------------------------------------------------------
(* Transfers                                                                *)

\* Mutant: the reply's code is not looked at.
FileLengthOfAny(first) == IF m_cmdSocket = "none" THEN -2 ELSE first.v

\* The number behind the first reply, if that is a 213.
getFileLength(first) ==
  IF m_cmdSocket = "none" THEN -2 ELSE IF first.code = 213 THEN first.v ELSE -1

(* Get(f): SIZE, then the length of what is here.                           *)
Get(f) ==
  /\ pc = "idle"
  /\ file' = f
  /\ Exchange(MaySend, Answers(<<SizeReply(f)>>), LAMBDA r : m_nDLMaxSize' = getFileLength(r))
  /\ nSize' = Len(local[f])
  /\ pc' = "pasv"
  /\ UNCHANGED <<m_cmdSocket, m_bLogin, m_nDownLoaded, offset, server, downState, local, remote>>

(* createDataLink: the first address in what was read is taken; an older    *)
(* one is no longer listened to.  Connect may fail with the newest, too.    *)
Withdrawn == [i \in DOMAIN pending |->
                IF pending[i].code = 227 THEN Reply(227, 0) ELSE pending[i]]

PasvQueue == IF up /\ granted THEN Append(Withdrawn, Reply(227, 1)) ELSE pending \o Answers(<<>>)

createDataLink(next) ==
  \/ /\ ~MaySend \/ ~up
     /\ UNCHANGED <<pending, late>>
     /\ Return
  \/ /\ MaySend
     /\ \E k \in 0..Len(PasvQueue) :
           LET read == SubSeq(PasvQueue, 1, k)
               address == SelectInSeq(read, LAMBDA r : r.code = 227)
           IN /\ serverResponse(PasvQueue, k)
              /\ \/ address # 0 /\ read[address].v = 1 /\ pc' = next
                 \/ Return

Pasv == /\ pc = "pasv"
        /\ createDataLink("rest")
        /\ UNCHANGED <<client, file, offset, nSize, server, downState, local, remote>>

\* Mutant: REST with pos in the place of nLocalNow.
RestAtPos == /\ pc = "rest"
             /\ Exchange(MaySend, Answers(<<Yes>>), LAMBDA r : pc' = "retr")
             /\ rest' = 0
             /\ UNCHANGED <<client, file, offset, nSize, up, granted, transfer, downState, local, remote>>

\* REST: the reply is read and not looked at.
Rest == /\ pc = "rest"
        /\ Exchange(MaySend, Answers(<<IF RestHonoured THEN Yes ELSE No>>),
                    LAMBDA r : IF r = Failed THEN Return /\ UNCHANGED rest
                               ELSE /\ pc' = "retr"
                                    /\ rest' = IF RestHonoured /\ up /\ granted THEN nSize ELSE rest)
        /\ UNCHANGED <<client, file, offset, nSize, up, granted, transfer, downState, local, remote>>

(* RETR: the server begins or not; a short file may be sent, and its end    *)
(* reported, before the client reads.  The client goes on unless it reads a *)
(* 550.                                                                     *)
Retr == /\ pc = "retr"
        /\ \E begun \in {"none", "open", "told"} :
              /\ Exchange(MaySend,
                          Answers(IF begun = "none" THEN <<Reply(550, 0)>>
                                  ELSE IF begun = "open" THEN <<Yes>>
                                  ELSE <<Yes, Yes>>),
                          LAMBDA r : IF r = Failed \/ r.code = 550
                                     THEN Return /\ UNCHANGED m_nDownLoaded
                                     ELSE pc' = "recv" /\ m_nDownLoaded' = nSize)
              /\ transfer' = IF up /\ granted /\ pc' = "recv" THEN begun ELSE "none"
        /\ offset' = rest
        /\ rest' = 0
        /\ UNCHANGED <<m_cmdSocket, m_bLogin, m_nDLMaxSize, file, nSize, up, granted, downState, local, remote>>

\* What arrives is appended to the file here.
Recv == /\ pc = "recv"
        /\ transfer # "none"
        /\ offset < Len(remote[file])
        /\ local' = [local EXCEPT ![file] = Append(@, remote[file][offset + 1])]
        /\ offset' = offset + 1
        /\ m_nDownLoaded' = m_nDownLoaded + 1
        /\ pc' = "wait"
        /\ UNCHANGED <<m_cmdSocket, m_bLogin, m_nDLMaxSize, file, nSize, server, downState, remote, pending, late>>

\* The server reports the end of a transfer, good or bad, on the control line.
Report(r) == /\ pending' = IF up /\ transfer = "open" THEN Append(pending, r) ELSE pending
             /\ transfer' = "none"

EndGet == /\ Return
          /\ Report(IF offset = Len(remote[file]) THEN Yes ELSE No)
          /\ UNCHANGED <<client, file, offset, nSize, up, granted, rest, downState, local, remote, late>>

\* A second of silence, the end of the data or a broken connection.
Silence == pc = "recv" /\ EndGet

\* downLoad64 waits while the switch is at 1 and leaves when it is at 2.
Wait == /\ pc = "wait"
        /\ downState = 0
        /\ pc' = "recv"
        /\ UNCHANGED <<client, file, offset, nSize, server, downState, local, remote, pending, late>>

\* Mutant: the switch is compared with another value.
LeaveNever == pc = "wait" /\ downState = 3 /\ EndGet

Leave == pc = "wait" /\ downState = 2 /\ EndGet

(* Dir: PASV, LIST, and the listing, which is read to its end; the report   *)
(* that follows it is read when it is in time.                              *)
Dir == /\ pc = "idle"
       /\ pc' = "dir"
       /\ UNCHANGED <<client, file, offset, nSize, server, downState, local, remote, pending, late>>

DirPasv == /\ pc = "dir"
           /\ createDataLink("list")
           /\ UNCHANGED <<client, file, offset, nSize, server, downState, local, remote>>

List == /\ pc = "list"
        /\ \E answer \in {<<Yes, Yes>>, <<Reply(550, 0)>>} :
              Exchange(MaySend, Answers(answer), LAMBDA r : Return)
        /\ UNCHANGED <<client, file, offset, nSize, server, downState, local, remote>>

(* Put(f): SIZE, PASV, then STOR, or APPE when the server has some of it.   *)
Put(f) ==
  /\ pc = "idle"
  /\ file' = f
  /\ Exchange(MaySend, Answers(<<SizeReply(f)>>), LAMBDA r : nSize' = getFileLength(r))
  /\ pc' = "putpasv"
  /\ UNCHANGED <<client, offset, server, downState, local, remote>>

PutPasv == /\ pc = "putpasv"
           /\ createDataLink("stor")
           /\ UNCHANGED <<client, file, offset, nSize, server, downState, local, remote>>

\* Mutant: APPE, whatever SIZE said.
StorAppending == /\ pc = "stor"
                 /\ Exchange(MaySend, Answers(<<Yes>>), LAMBDA r : pc' = "send")
                 /\ transfer' = IF up /\ granted THEN "open" ELSE "none"
                 /\ offset' = IF nSize = -1 THEN 0 ELSE nSize
                 /\ UNCHANGED <<client, file, nSize, up, granted, rest, downState, local, remote>>

\* The reply is read and not looked at; fseek goes to nSize, or fails at -1.
Stor == /\ pc = "stor"
        /\ \E begun \in {"none", "open"} :
              LET taken == up /\ granted /\ begun = "open" IN
              /\ Exchange(MaySend, Answers(<<IF taken THEN Yes ELSE No>>),
                          LAMBDA r : IF r = Failed THEN Return ELSE pc' = "send")
              /\ transfer' = IF taken THEN "open" ELSE "none"
              /\ remote' = IF taken /\ nSize = -1 THEN [remote EXCEPT ![file] = <<>>] ELSE remote
        /\ offset' = IF nSize = -1 THEN 0 ELSE nSize
        /\ UNCHANGED <<client, file, nSize, up, granted, rest, downState, local>>

SendByte == /\ pc = "send"
            /\ offset < Len(local[file])
            /\ remote' = IF transfer = "open"
                         THEN [remote EXCEPT ![file] = Append(@, local[file][offset + 1])]
                         ELSE remote
            /\ offset' = offset + 1
            /\ UNCHANGED <<client, pc, file, nSize, server, downState, local, pending, late>>

\* The data connection breaks.
SendFails == /\ pc = "send"
             /\ offset < Len(local[file])
             /\ Return
             /\ Report(No)
             /\ UNCHANGED <<client, file, offset, nSize, up, granted, rest, downState, local, remote, late>>

\* The end of the file: close the data connection and read what the server says.
EndPut == /\ pc = "send"
          /\ offset >= Len(local[file])
          /\ Return
          /\ LET queue == IF up /\ transfer = "open" THEN Append(pending, Yes) ELSE pending IN
                \E k \in 0..Len(queue) : serverResponse(queue, k)
          /\ transfer' = "none"
          /\ UNCHANGED <<client, file, offset, nSize, up, granted, rest, downState, local, remote>>

copyVariable(s) == /\ downState' = s
                   /\ downState # s
                   /\ UNCHANGED <<client, call, server, local, remote, pending, late>>

Step == \/ Pasv \/ Rest \/ Retr \/ Recv \/ Silence \/ Wait \/ Leave
        \/ DirPasv \/ List \/ PutPasv \/ Stor \/ SendByte \/ SendFails \/ EndPut

Next == \/ login2Server \/ inputUserName \/ inputPassWord
        \/ Command \/ quitServer \/ CloseFtp \/ Renew \/ Drop
        \/ Dir \/ \E f \in Fetched : Get(f)
        \/ \E f \in Stored : Put(f)
        \/ Step
        \/ \E s \in 0..2 : copyVariable(s)

Spec == Init /\ [][Next]_vars

\* Every wait of a call is bounded by select's second.
FairSpec == Spec /\ WF_vars(Step)

-----------------------------------------------------------------------------
(* Properties                                                               *)

\* Whatever is late, refused, dropped or broken off, and however often Get
\* resumes, the file here is a beginning of the file there (downLoad64 opens
\* it to append and asks for the rest), as long as the server obeys REST.
LocalIsPrefix == \A f \in Fetched : IsPrefix(local[f], Whole(f))

\* As long as no reply was late, a Put that resumes, begins again or breaks off
\* leaves a beginning of the file on the server: STOR truncates and starts at
\* 0, APPE goes on where the server's file ends.
RemoteIsPrefix == ~late => \A f \in Stored : IsPrefix(remote[f], Whole(f))

\* As long as no reply was late, progress (m_nDownLoaded of m_nDLMaxSize) that
\* reads as complete during a transfer means the whole file is here.
ProgressIsTrue ==
  ~late /\ pc \in {"recv", "wait"} /\ m_nDownLoaded = m_nDLMaxSize => local[file] = Whole(file)

\* A call returns, unless the switch of copyVariable stays at 1: every wait for
\* the server ends after a second.
CallsReturn == <>[](downState # 1) => (pc # "idle" ~> pc = "idle")

\* Put never throws away what the server already has of the file, as long as no
\* reply is late.
UploadResumes ==
  [][pc = "stor" /\ ~late' => Len(remote'[file]) >= Len(remote[file])]_vars
=============================================================================
