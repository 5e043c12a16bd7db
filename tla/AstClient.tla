----------------------------- MODULE AstClient ------------------------------
(***************************************************************************)
(* CAstClient (src/public/astclient.cpp) over CSocket (zsocket.h): a       *)
(* connection is opened, bound to the client's address or not, one request *)
(* is sent, the answer is read in two parts (eight bytes of head, which    *)
(* hold the length, then the rest), and the connection is closed, as       *)
(* TryConnect and RegAst do it.                                            *)
(*                                                                         *)
(* Followed are the descriptors of the process, of which m_fd is one, and  *)
(* the O_NONBLOCK flag that setblocking changes around every send and      *)
(* receive.  A request is at most 1024 bytes, on a fresh connection: the   *)
(* kernel takes it at once.  The socket blocks when connect is called, so  *)
(* EINPROGRESS and the wait behind it do not occur.  The length in a head  *)
(* counts the head: it is 8 or more.                                       *)
(***************************************************************************)
EXTENDS Integers

CONSTANTS MaxFd,     \* descriptors the process may have open
          BodyLen,   \* most parts in which the rest of an answer may arrive
          Timeouts   \* configured values of m_timeout (ms)

ASSUME MaxFdAssumption == MaxFd \in Nat \ {0}
ASSUME BodyLenAssumption == BodyLen \in Nat \ {0}
ASSUME TimeoutsAssumption == Timeouts \subseteq Nat

VARIABLES m_timeout,
          used,      \* descriptors of this process that are open
          m_fd,      \* m_fd # -1
          binds,     \* history: calls of connect(true) that got a descriptor
          nonblock,  \* O_NONBLOCK of the socket
          at,        \* inside run: "send", "head", "body"; runcontinue: "rest"
          nLen,      \* parts behind the head, as the head tells them
          recved,    \* parts of the answer that have been read
          inbox,     \* parts that have arrived and were not read
          owed,      \* parts the server has still to send
          peer,      \* "open", "closed" or "none"
          result     \* of the last run or runcontinue

clientVars == <<m_timeout, used, m_fd, binds, nonblock, at, nLen, recved, inbox, owed, peer,
                result>>
fds == <<used, m_fd, binds>>
net == <<inbox, owed, peer>>

\* Parts of the whole answer.
Whole == 1 + nLen

ClientTypeOK == /\ m_timeout \in Timeouts
                /\ used \in 0..MaxFd /\ m_fd \in BOOLEAN /\ binds \in Nat
                /\ nonblock \in BOOLEAN
                /\ at \in {"idle", "send", "head", "body", "more", "rest"}
                /\ nLen \in 0..BodyLen
                /\ recved \in 0..(1 + BodyLen) /\ inbox \in 0..(1 + BodyLen)
                /\ owed \in 0..(1 + BodyLen)
                /\ peer \in {"none", "open", "closed"}
                /\ result \in {"none", "0", "space", "-1", "-3", "-4", "-6"}

ClientInit == /\ m_timeout \in Timeouts
              /\ used = 0 /\ m_fd = FALSE /\ binds = 0
              /\ nonblock = FALSE
              /\ at = "idle" /\ nLen = 0 /\ recved = 0 /\ result = "none"
              /\ inbox = 0 /\ owed = 0 /\ peer = "none"

-----------------------------------------------------------------------------
(* Descriptors.                                                            *)

\* Descriptors in use after build_stream: m_fd is overwritten, not closed.
BuildStream(n) == IF n < MaxFd THEN n + 1 ELSE n

\* A connection stands: a fresh socket blocks.
Connected == /\ m_fd' = TRUE /\ nonblock' = FALSE
             /\ peer' = "open" /\ inbox' = 0 /\ owed' = 0 /\ recved' = 0 /\ result' = "none"

\* connect() and connect(false): a descriptor is made unless there is one; a
\* failure leaves it in m_fd for the next close.
ConnectUnbound ==
  /\ at = "idle" /\ ~m_fd
  /\ used' = BuildStream(used)
  /\ \/ used < MaxFd /\ Connected
     \/ m_fd' = (used < MaxFd) /\ UNCHANGED <<nonblock, recved, result, net>>
  /\ UNCHANGED <<m_timeout, binds, at, nLen>>

\* A retry behind EXIT_CONNECT that does not close the bound socket first.
ConnectBoundKeepsFailed ==
  /\ at = "idle" /\ ~m_fd
  /\ LET first == BuildStream(used)
         second == BuildStream(first)
     IN  /\ binds' = IF used < MaxFd THEN binds + 1 ELSE binds
         /\ \/ /\ used' = second
               /\ first < MaxFd /\ Connected
            \/ /\ used' = BuildStream(second)
               /\ m_fd' = (second < MaxFd) /\ UNCHANGED <<nonblock, recved, result, net>>
  /\ UNCHANGED <<m_timeout, at, nLen>>

(* connect(true): build_stream, then bindClientIP, which calls build_stream *)
(* again and loses the first descriptor; when binding or connecting fails,  *)
(* the socket is closed and one more, unbound, is tried.                    *)
ConnectBound ==
  /\ at = "idle" /\ ~m_fd
  /\ LET first == BuildStream(used)   \* lost by bindClientIP
     IN  /\ binds' = IF used < MaxFd THEN binds + 1 ELSE binds
         /\ used' = BuildStream(first)
         /\ \/ first < MaxFd /\ Connected
            \/ m_fd' = (first < MaxFd) /\ UNCHANGED <<nonblock, recved, result, net>>
  /\ UNCHANGED <<m_timeout, at, nLen>>

\* The caller closes after every attempt, whether it connected or not.
Close ==
  /\ at = "idle" /\ m_fd
  /\ m_fd' = FALSE /\ used' = used - 1
  /\ peer' = "none" /\ inbox' = 0 /\ owed' = 0
  /\ UNCHANGED <<m_timeout, binds, nonblock, at, nLen, recved, result>>

-----------------------------------------------------------------------------
(* Sending and receiving.                                                  *)

\* The meaning FIONBIO has on Windows: anything but 0 makes it non-blocking.
SetBlockingInverted(b) == b # 0

(* opts ^ O_NONBLOCK for every b but 0 that does not match the flag: 1      *)
(* makes the socket blocking, -1 turns the flag over.                       *)
SetBlocking(b) ==
  IF b = (IF nonblock THEN 0 ELSE 1) THEN nonblock
  ELSE IF b # 0 THEN ~nonblock ELSE TRUE

\* On entry of sendv_impl and recvv_impl, and in ERR_RET.
OnEntry == SetBlocking(IF m_timeout = 0 THEN -1 ELSE 1)
OnError == SetBlocking(IF m_timeout = 0 THEN -1 ELSE 0)

\* An error other than EWOULDBLOCK: ERR_RET without a limit, a bare return with one.
OnReset == IF m_timeout = 0 THEN OnError ELSE nonblock

\* run: sendv of the whole request.
Run == /\ at = "idle" /\ m_fd /\ peer # "none" /\ result = "none"
       /\ nonblock' = OnEntry
       /\ at' = "send"
       /\ UNCHANGED <<m_timeout, fds, nLen, recved, net, result>>

\* The server has the request, unless it has closed: it owes an answer of some length.
Requested == /\ nLen' \in 0..BodyLen
             /\ owed' = IF peer = "open" THEN 1 + nLen' ELSE 0

(* The request goes out and the head is asked for with recvv, or, when the  *)
(* caller gave no room for a head (obuf NULL or olen < 8), run is over.     *)
Send ==
  /\ at = "send"
  /\ \/ Requested /\ nonblock' = OnEntry /\ at' = "head" /\ UNCHANGED result
     \/ Requested /\ result' = "-1" /\ at' = "idle" /\ UNCHANGED nonblock
     \/ /\ peer = "closed"
        /\ result' = "-3" /\ at' = "idle" /\ nonblock' = OnReset /\ UNCHANGED <<nLen, owed>>
  /\ UNCHANGED <<m_timeout, fds, recved, inbox, peer>>

Receiving == at \in {"head", "body", "rest"}
Failed == IF at = "head" THEN "-6" ELSE IF at = "body" THEN "-4" ELSE "-1"
Wanted == IF at = "head" THEN 1 ELSE Whole

Fails == result' = Failed /\ at' = "idle"

(* What follows a head.  When nothing comes after it, recvv returns 0 at     *)
(* once and run takes that for a failure; when the rest fits the caller's   *)
(* buffer it is read; else run returns the length, for runcontinue.         *)
AfterHead ==
  \/ nLen = 0 /\ nonblock' = OnEntry /\ at' = "idle" /\ result' = "-4"
  \/ nLen > 0 /\ nonblock' = OnEntry /\ at' = "body" /\ UNCHANGED result
  \/ nLen > 0 /\ at' = "more" /\ result' = "space" /\ UNCHANGED nonblock

\* recv takes what is there, at most what is wanted.
Recv ==
  /\ Receiving /\ inbox > 0
  /\ \E n \in 1..inbox :
       /\ recved + n <= Wanted
       /\ recved' = recved + n /\ inbox' = inbox - n
       /\ \/ recved + n < Wanted /\ UNCHANGED <<at, result, nonblock>>
          \/ recved + n = Wanted /\ at = "head" /\ AfterHead
          \/ /\ recved + n = Wanted /\ at # "head"
             /\ at' = "idle" /\ result' = "0" /\ UNCHANGED nonblock
  /\ UNCHANGED <<m_timeout, fds, nLen, owed, peer>>

\* A recvv_impl that returns what came before the peer closed.
RecvClosedPartial ==
  /\ Receiving /\ inbox = 0 /\ peer = "closed"
  /\ result' = (IF at # "head" THEN "0" ELSE Failed) /\ at' = "idle"
  /\ UNCHANGED <<m_timeout, fds, nonblock, nLen, recved, net>>

\* A recvv_impl that tries again when the peer has closed.
RecvClosedRetries ==
  /\ Receiving /\ inbox = 0 /\ peer = "closed"
  /\ UNCHANGED clientVars

\* The peer has closed: recv returns 0, or an error when it was reset.
RecvClosed ==
  /\ Receiving /\ inbox = 0 /\ peer = "closed"
  /\ nonblock' \in {nonblock, OnReset}
  /\ Fails
  /\ UNCHANGED <<m_timeout, fds, nLen, recved, net>>

(* EWOULDBLOCK: without a limit the call is over at once, with one when the *)
(* select behind it runs out (ETIME).                                       *)
RecvWouldBlock ==
  /\ Receiving /\ inbox = 0 /\ peer = "open" /\ nonblock
  /\ nonblock' = OnError
  /\ Fails
  /\ UNCHANGED <<m_timeout, fds, nLen, recved, net>>

RunContinue ==
  /\ at = "more"
  /\ nonblock' = OnEntry
  /\ at' = "rest"
  /\ UNCHANGED <<m_timeout, fds, nLen, recved, net, result>>

-----------------------------------------------------------------------------
(* The server.                                                             *)

PeerSends ==
  /\ peer = "open" /\ owed > 0
  /\ \E n \in 1..owed : owed' = owed - n /\ inbox' = inbox + n
  /\ UNCHANGED <<m_timeout, fds, nonblock, at, nLen, recved, peer, result>>

PeerCloses ==
  /\ peer = "open"
  /\ peer' = "closed"
  /\ UNCHANGED <<m_timeout, fds, nonblock, at, nLen, recved, inbox, owed, result>>

Client == Send \/ Recv \/ RecvClosed \/ RecvWouldBlock \/ RunContinue

ClientNext == ConnectUnbound \/ ConnectBound \/ Close \/ Run \/ Client \/ PeerSends \/ PeerCloses

ClientSpec == ClientInit /\ [][ClientNext]_clientVars

\* The process is scheduled; nothing is known of the server.
ClientFair == ClientSpec /\ WF_clientVars(Client)

\* A server that answers or closes.
FairSpec == ClientFair /\ WF_clientVars(PeerSends)

-----------------------------------------------------------------------------
(* Properties.                                                             *)

(* However the answer arrives in pieces, and whichever of run and           *)
(* runcontinue reads the end of it, 0 is returned for a whole answer.       *)
ZeroIsWhole == result = "0" => recved = Whole

(* Without a limit (m_timeout = 0), sendv_impl and recvv_impl each turn the *)
(* flag of the socket over; between them the head is read in blocking mode, *)
(* so that run gives up before the head only when the server has closed.    *)
(* The rest of the answer is read in the other mode.                        *)
HeadIsAwaited == m_timeout = 0 /\ result \in {"-3", "-6"} => peer # "open"

(* Besides the socket in use, at most one descriptor stays open for every   *)
(* connect(true), whichever of its steps fails and however it tries again;  *)
(* connect(false) and close leave none behind.                              *)
LosesAtMostOnePerBind == used <= binds + (IF m_fd THEN 1 ELSE 0)

(* A server that answers or closes: every run and runcontinue returns.      *)
RunReturns == at # "idle" ~> at = "idle"

(* recvv takes a limit, "timeout_ms": run returns, answer or no answer.     *)
RunReturnsInTime == (m_timeout # 0 /\ at # "idle") ~> at = "idle"
=============================================================================
