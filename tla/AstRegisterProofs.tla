------------------------- MODULE AstRegisterProofs --------------------------
(***************************************************************************)
(* The identity of a registered agent, in memory and on disk, is a pair    *)
(* the server issued, for every set of pairs, uuids and addresses; and     *)
(* AstRegister implements AgentIdentity.  The address a registration names *)
(* is the one it came from, one that fails costs nothing, and a save that  *)
(* succeeds loads again when its uuid is read back as it was written.      *)
(*                                                                         *)
(* What CAstClient and CSocket guarantee for any number of descriptors,    *)
(* any length of the answer and any configured limits: an answer that is   *)
(* returned is whole, without a limit the head is waited for, and          *)
(* connect(true) loses at most one descriptor, whatever fails.             *)
(***************************************************************************)
EXTENDS AstRegister, AstClient, TLAPS

\* The MAC of a file covers a pair that was issued, whatever else is in it.
MacIssued(f) == f.mac # None => <<f.mac.over[2], f.mac.over[3]>> \in issued

\* The inductive invariant.
IInv == /\ TypeOK
        /\ MemoryIsIssued
        /\ MacIssued(file)
        /\ wbuf # None => MacIssued(wbuf)
        /\ answer \in Pairs => answer \in issued
        /\ pc = "save" => ~m_bInit /\ saving \in Fields

(* A pair is made of an id and a key.                                       *)
LEMMA PairParts == \A p \in Pairs : p[1] \in Ids /\ p[2] \in Keys /\ <<p[1], p[2]>> = p
  BY PairsAssumption DEF Ids, Keys

(* A pair is not the absent value, and neither are its parts.               *)
LEMMA NotNone == /\ None \notin Pairs /\ None \notin Ids /\ None \notin Keys
                 /\ None \notin Uuids /\ None \notin Ips
  BY NoneAssumption

(* The file of an agent that was never registered loads as nothing.         *)
LEMMA EmptyLoadsAsNone == LoadsAs(Empty) = None
  BY DEF LoadsAs, Accepted, Empty, Fields

\* The file of an agent that was never registered.
LEMMA EmptyType == Empty \in FileType /\ Empty.mac = None
  BY DEF Empty, Fields, FileType

(* What LoadConf reads as the uuid.                                         *)
LEMMA UuidType == \A f \in FileType : Uuid(f) \in Uuids \cup {None}
  BY ReadBackAssumption DEF FileType, Uuid

(* What LoadConf accepts is the pair its MAC covers.                        *)
LEMMA AcceptedIsIssued ==
  ASSUME NEW f \in FileType, MacIssued(f), Accepted(f)
  PROVE  /\ LoadsAs(f) = <<f.agentid, f.ka.cipher>>
         /\ <<f.agentid, f.ka.cipher>> \in issued
         /\ f.agentid \in Ids /\ f.ka.cipher \in Keys /\ f.uuid \in Uuids
         /\ Uuid(f) \in Uuids
  <1>1. f.mac # None /\ f.agentid # None /\ f.uuid # None /\ f.ka # None
    BY DEF Accepted, Fields
  <1>2. f.mac.over = <<Uuid(f), f.agentid, f.ka.cipher>>
    BY DEF Accepted, Mac
  <1>3. <<f.agentid, f.ka.cipher>> \in issued
    BY <1>1, <1>2 DEF MacIssued
  <1>4. f.agentid \in Ids /\ f.ka.cipher \in Keys /\ f.uuid \in Uuids
    BY <1>1 DEF FileType
  <1>5. Uuid(f) \in Uuids
    BY <1>4, UuidType DEF Accepted
  <1>. QED  BY <1>3, <1>4, <1>5 DEF LoadsAs

(* FileIsIssued follows from the invariant.                                 *)
LEMMA LoadableIsIssued ==
  ASSUME NEW f \in FileType, MacIssued(f)
  PROVE  LoadsAs(f) \in issued \cup {None}
  <1>1. CASE Accepted(f)  BY <1>1, AcceptedIsIssued
  <1>2. CASE ~Accepted(f)  BY <1>2 DEF LoadsAs
  <1>. QED  BY <1>1, <1>2

\* A fresh agent.
LEMMA InitIInv == Init => IInv
  <1> SUFFICES ASSUME Init PROVE IInv
    OBVIOUS
  <1>1. TypeOK
    BY EmptyType DEF Init, TypeOK, Empty
  <1>2. MacIssued(file)
    BY EmptyType DEF Init, MacIssued
  <1>3. answer \notin Pairs
    BY NotNone DEF Init
  <1>. QED  BY <1>1, <1>2, <1>3 DEF Init, IInv, MemoryIsIssued

-----------------------------------------------------------------------------
(* One lemma per group of actions.  The first group leaves the identity,    *)
(* the file and the server's pairs alone.                                   *)

\* What such a step may change without touching the invariant.
Quiet == /\ UNCHANGED <<pkg, disk, issued>>
         /\ answer' \in Pairs => answer' \in issued
         /\ pc' # "save" \/ pc = "save"

\* A step that leaves the identity, the file and the answer alone.
LEMMA QuietStep ==
  ASSUME IInv, Quiet, TypeOK'
  PROVE  IInv'
  BY DEF IInv, Quiet, pkg, disk, MemoryIsIssued, MacIssued

\* Leaving RegAst changes no identity.
LEMMA ReturnQuiet ==
  ASSUME IInv, NEW r \in {1, 2, 3, 4, 5, 6, 10, 0, 30}, Return(r),
         UNCHANGED <<pkg, disk, server, hostIp>>,
         m_qsCurrentIp' \in Ips \cup {None}, devIp' \in Ips \cup {None}
  PROVE  IInv'
  <1>1. TypeOK'
    BY DEF IInv, TypeOK, Return, pkg, disk, server
  <1>2. Quiet
    BY NotNone DEF Quiet, Return, server
  <1>. QED  BY <1>1, <1>2, QuietStep

\* The first request.
LEMMA RegAstStep == IInv /\ RegAst => IInv'
  <1> SUFFICES ASSUME IInv, RegAst PROVE IInv'
    OBVIOUS
  <1>1. m_qsCurrentIp' \in Ips \cup {None} /\ devIp' \in Ips \cup {None}
    BY DEF IInv, TypeOK, RegAst, TryConnect, GetDevInfo
  <1>2. CASE Return(1)
    BY <1>1, <1>2, ReturnQuiet DEF RegAst, TryConnect, GetDevInfo
  <1>3. CASE pc' = "connect1" /\ UNCHANGED <<ret, answer, srcIp, msgIp>>
    <2>1. TypeOK'
      BY <1>1, <1>3 DEF IInv, TypeOK, RegAst, TryConnect, GetDevInfo, pkg, disk, server
    <2>2. Quiet
      BY <1>3 DEF IInv, Quiet, RegAst, TryConnect, GetDevInfo, server
    <2>. QED  BY <2>1, <2>2, QuietStep
  <1>. QED  BY <1>2, <1>3 DEF RegAst, TryConnect, GetDevInfo

\* A connection for a request.
LEMMA ConnectStep ==
  ASSUME IInv, NEW from, NEW to \in {"wait1", "wait2"}, Connect(from, to)
  PROVE  IInv'
  <1>1. devIp' \in Ips \cup {None}
    BY DEF IInv, TypeOK, Connect, GetDevInfo
  <1>2. TypeOK'
    BY <1>1 DEF IInv, TypeOK, Connect, GetDevInfo, pkg, disk, server
  <1>3. Quiet
    BY DEF IInv, Quiet, Connect, GetDevInfo, server
  <1>. QED  BY <1>2, <1>3, QuietStep

\* The early exits of RegAst.
LEMMA GiveUpStep ==
  ASSUME IInv, NEW from, NEW r \in {2, 3, 5, 6}, GiveUp(from, r)
  PROVE  IInv'
  BY ReturnQuiet DEF IInv, TypeOK, GiveUp, addr

\* The second request does not fit.
LEMMA Request2TooLongStep == IInv /\ Request2TooLong => IInv'
  BY ReturnQuiet DEF IInv, TypeOK, Request2TooLong, addr

\* The answer to the second request.
LEMMA RegAckStep == IInv /\ RegAck => IInv'
  <1> SUFFICES ASSUME IInv, RegAck PROVE IInv'
    OBVIOUS
  <1>1. PICK r \in {0, 30} : Return(r)
    BY DEF RegAck
  <1>. QED  BY <1>1, ReturnQuiet DEF IInv, TypeOK, RegAck, addr

\* The pair of the answer becomes the identity.
LEMMA RegFinishStep == IInv /\ RegFinish => IInv'
  <1> SUFFICES ASSUME IInv, RegFinish PROVE IInv'
    OBVIOUS
  <1>0. UNCHANGED <<m_UUID, disk, server, hostIp, addr>>
    BY DEF RegFinish
  <1>1. CASE Return(10) /\ UNCHANGED <<m_bInit, m_AgentID, m_KA>>
    BY <1>0, <1>1, ReturnQuiet DEF IInv, TypeOK, addr, pkg
  <1>2. CASE /\ answer \in Pairs
             /\ m_AgentID' = answer[1] /\ m_KA' = answer[2] /\ m_bInit' = FALSE
             /\ pc' = "connect2" /\ msgIp' = m_qsCurrentIp /\ answer' = None
             /\ UNCHANGED <<ret, srcIp>>
    <2>1. /\ m_AgentID' \in Ids /\ m_KA' \in Keys
          /\ <<m_AgentID', m_KA'>> \in issued
      BY <1>2, PairParts DEF IInv
    <2>2. TypeOK'
      BY <1>0, <1>2, <2>1 DEF IInv, TypeOK, disk, server, addr
    <2>3. MacIssued(file)' /\ (wbuf' # None => MacIssued(wbuf)')
      BY <1>0 DEF IInv, MacIssued, disk, server
    <2>. QED  BY <1>0, <1>2, <2>1, <2>2, <2>3, NotNone
              DEF IInv, MemoryIsIssued, disk, server
  <1>. QED  BY <1>1, <1>2 DEF RegFinish, InitReg, SecondRequest

\* The server issues, refuses or accepts.
LEMMA ServerStep ==
  ASSUME IInv, (\E p \in Pairs : Grant(p)) \/ Refuse \/ Accept
  PROVE  IInv'
  <1>1. CASE Refuse
    <2>1. TypeOK'
      BY <1>1 DEF IInv, TypeOK, Refuse, pkg, disk, server, ips, addr
    <2>2. Quiet
      BY <1>1, AnswerAssumption DEF Quiet, Refuse, server
    <2>. QED  BY <2>1, <2>2, QuietStep
  <1>2. CASE Accept
    <2>0. <<m_AgentID, m_KA>> \in Pairs
      BY <1>2 DEF IInv, TypeOK, Accept
    <2>1. TypeOK'
      BY <1>2, <2>0 DEF IInv, TypeOK, Accept, pkg, disk, ips, addr
    <2>2. Quiet
      BY <1>2, AnswerAssumption DEF Quiet, Accept
    <2>. QED  BY <2>1, <2>2, QuietStep
  <1>3. ASSUME NEW p \in Pairs, Grant(p) PROVE IInv'
    <2>1. TypeOK'
      BY <1>3 DEF IInv, TypeOK, Grant, pkg, disk, ips, addr
    <2>2. /\ issued \subseteq issued' /\ answer' \in issued'
          /\ UNCHANGED <<pkg, disk, pc>>
      BY <1>3 DEF Grant
    <2>. QED  BY <2>1, <2>2 DEF IInv, MemoryIsIssued, MacIssued, pkg, disk
  <1>. QED  BY <1>1, <1>2, <1>3

-----------------------------------------------------------------------------
(* The steps that touch the identity or the file.                           *)

\* The identity comes from the file.
LEMMA LoadConfStep == IInv /\ LoadConf => IInv'
  <1> SUFFICES ASSUME IInv, LoadConf PROVE IInv'
    OBVIOUS
  <1>1. file \in FileType /\ MacIssued(file)
    BY DEF IInv, TypeOK
  <1>2. /\ m_AgentID' \in Ids \cup {None} /\ m_UUID' \in Uuids
        /\ m_KA' \in Keys \cup {None} /\ m_bInit' \in BOOLEAN
    <2>1. m_AgentID' \in Ids \cup {None} /\ m_UUID' \in Uuids
      BY <1>1, UuidType DEF IInv, TypeOK, LoadConf, FileType
    <2>2. CASE Accepted(file)
      BY <2>1, <2>2, <1>1, AcceptedIsIssued DEF LoadConf
    <2>3. CASE ~Accepted(file)
      BY <2>1, <2>3 DEF IInv, TypeOK, LoadConf
    <2>. QED  BY <2>2, <2>3
  <1>3. TypeOK'
    BY <1>2 DEF IInv, TypeOK, LoadConf, disk, server, ips, addr
  <1>4. MemoryIsIssued'
    <2>1. CASE Accepted(file)
      <3>1. file.agentid # None
        BY <2>1 DEF Accepted, Fields
      <3>. QED  BY <2>1, <3>1, <1>1, AcceptedIsIssued DEF MemoryIsIssued, LoadConf, server
    <2>2. CASE ~Accepted(file)
      BY <2>2 DEF MemoryIsIssued, LoadConf
    <2>. QED  BY <2>1, <2>2
  <1>5. MacIssued(file)' /\ (wbuf' # None => MacIssued(wbuf)')
    BY DEF IInv, MacIssued, LoadConf, disk, server
  <1>. QED  BY <1>3, <1>4, <1>5 DEF IInv, LoadConf, disk, server

\* A save begins.
LEMMA SaveConfStep == IInv /\ SaveConf => IInv'
  <1> SUFFICES ASSUME IInv, SaveConf PROVE IInv'
    OBVIOUS
  <1>1. TypeOK'
    BY DEF IInv, TypeOK, SaveConf, Fields, pkg, server, ips, addr
  <1>2. UNCHANGED <<pkg, file, wbuf, answer, issued>> /\ ~m_bInit /\ saving' \in Fields
    BY DEF SaveConf, server, Fields
  <1>. QED  BY <1>1, <1>2 DEF IInv, MemoryIsIssued, MacIssued, pkg

(* A rewrite in progress: only the field that is written is new, and a new  *)
(* MAC covers the identity in memory, which is issued.                      *)
LEMMA WriteType ==
  ASSUME IInv, pc = "save"
  PROVE  /\ [file EXCEPT ![saving] = Value(saving)] \in FileType
         /\ MacIssued([file EXCEPT ![saving] = Value(saving)])
  <1>1. /\ m_AgentID \in Ids /\ m_KA \in Keys /\ m_UUID \in Uuids
        /\ <<m_AgentID, m_KA>> \in issued /\ saving \in Fields /\ file \in FileType
    <2>1. <<m_AgentID, m_KA>> \in issued /\ issued \subseteq Pairs
      BY DEF IInv, MemoryIsIssued, TypeOK
    <2>2. PICK p \in Pairs : p = <<m_AgentID, m_KA>>
      BY <2>1
    <2>3. m_AgentID = p[1] /\ m_KA = p[2]
      BY <2>2
    <2>. QED  BY <2>1, <2>3, PairParts DEF IInv, TypeOK
  <1>2. CASE saving = "agentid"
    BY <1>1, <1>2 DEF IInv, Value, FileType, MacIssued
  <1>3. CASE saving = "uuid"
    BY <1>1, <1>3 DEF IInv, Value, FileType, MacIssued
  <1>4. CASE saving = "mac"
    BY <1>1, <1>4 DEF IInv, Value, FileType, MacIssued, Mac
  <1>5. CASE saving = "ka"
    BY <1>1, <1>5 DEF IInv, Value, FileType, MacIssued, EncryptByID
  <1>. QED  BY <1>1, <1>2, <1>3, <1>4, <1>5 DEF Fields

\* The place in a save stays a field or the end.
LEMMA SaveNextType ==
  ASSUME IInv, pc = "save", SaveNext
  PROVE  /\ saving' \in Fields \cup {None} /\ pc' \in {"idle", "save"}
         /\ pc' = "save" => saving' \in Fields
  BY DEF IInv, SaveNext, After, Fields

\* A rewrite truncates the file.
LEMMA OpenFileStep == IInv /\ OpenFile => IInv'
  <1> SUFFICES ASSUME IInv, OpenFile PROVE IInv'
    OBVIOUS
  <1>1. wbuf' \in FileType /\ MacIssued(wbuf')
    BY WriteType DEF OpenFile
  <1>2. file' \in FileType /\ file'.mac = None
    BY EmptyType DEF OpenFile
  <1>3. TypeOK'
    BY <1>1, <1>2 DEF IInv, TypeOK, OpenFile, pkg, server, ips, addr
  <1>. QED  BY <1>1, <1>2, <1>3 DEF IInv, MemoryIsIssued, MacIssued, OpenFile, pkg, server

\* A rewrite cannot open the file.
LEMMA OpenFailsStep == IInv /\ OpenFails => IInv'
  <1> SUFFICES ASSUME IInv, OpenFails PROVE IInv'
    OBVIOUS
  <1>1. /\ saving' \in Fields \cup {None} /\ pc' \in {"idle", "save"}
        /\ pc' = "save" => saving' \in Fields
    BY SaveNextType DEF OpenFails
  <1>2. TypeOK'
    BY <1>1 DEF IInv, TypeOK, OpenFails, pkg, server, ips, addr
  <1>. QED  BY <1>1, <1>2 DEF IInv, MemoryIsIssued, MacIssued, OpenFails, pkg, server

\* A rewrite writes its text, or fails.
LEMMA PutFileStep == IInv /\ PutFile => IInv'
  <1> SUFFICES ASSUME IInv, PutFile PROVE IInv'
    OBVIOUS
  <1>1. /\ saving' \in Fields \cup {None} /\ pc' \in {"idle", "save"}
        /\ pc' = "save" => saving' \in Fields
    BY SaveNextType DEF PutFile
  <1>2. file' \in FileType /\ MacIssued(file') /\ clean' \in BOOLEAN
    BY DEF IInv, TypeOK, PutFile
  <1>3. TypeOK'
    BY <1>1, <1>2 DEF IInv, TypeOK, PutFile, pkg, server, ips, addr
  <1>. QED  BY <1>1, <1>2, <1>3 DEF IInv, MemoryIsIssued, MacIssued, PutFile, pkg, server

\* The agent dies and starts again.
LEMMA CrashStep == IInv /\ Crash => IInv'
  <1> SUFFICES ASSUME IInv, Crash PROVE IInv'
    OBVIOUS
  <1>1. TypeOK'
    BY DEF IInv, TypeOK, Crash, Fresh, server
  <1>. QED  BY <1>1, NotNone DEF IInv, MemoryIsIssued, MacIssued, Crash, Fresh, server

\* The host gets another address.
LEMMA HostMovesStep == ASSUME IInv, NEW ip \in Ips, HostMoves(ip) PROVE IInv'
  <1>1. TypeOK'
    BY DEF IInv, TypeOK, HostMoves, pkg, disk, server, ips, addr
  <1>2. Quiet
    BY DEF IInv, Quiet, HostMoves, server
  <1>. QED  BY <1>1, <1>2, QuietStep

\* Nothing happens.
LEMMA StutterStep == IInv /\ UNCHANGED vars => IInv'
  BY DEF IInv, TypeOK, MemoryIsIssued, MacIssued, vars, pkg, disk, server, ips, addr

\* Every step keeps the invariant.
LEMMA NextIInv == IInv /\ [Next]_vars => IInv'
  <1> SUFFICES ASSUME IInv, [Next]_vars PROVE IInv'
    OBVIOUS
  <1>. USE StutterStep
  <1>1. CASE RegAst  BY <1>1, RegAstStep
  <1>2. CASE Connect("connect1", "wait1") \/ Connect("connect2", "wait2")
    BY <1>2, ConnectStep
  <1>3. CASE GiveUp("connect1", 2) \/ GiveUp("wait1", 3) \/ GiveUp("connect2", 5) \/ GiveUp("wait2", 6)
    BY <1>3, GiveUpStep
  <1>4. CASE RegFinish \/ Request2TooLong \/ RegAck
    BY <1>4, RegFinishStep, Request2TooLongStep, RegAckStep
  <1>5. CASE (\E p \in Pairs : Grant(p)) \/ Refuse \/ Accept
    BY <1>5, ServerStep
  <1>6. CASE LoadConf \/ SaveConf \/ OpenFile \/ OpenFails \/ PutFile \/ Crash
    BY <1>6, LoadConfStep, SaveConfStep, OpenFileStep, OpenFailsStep, PutFileStep, CrashStep
  <1>7. CASE \E ip \in Ips : HostMoves(ip)
    BY <1>7, HostMovesStep
  <1>. QED  BY <1>1, <1>2, <1>3, <1>4, <1>5, <1>6, <1>7 DEF Next

-----------------------------------------------------------------------------
(* The invariant holds in every reachable state.                            *)
THEOREM Invariance == Spec => []IInv
  <1>1. Init => IInv
    BY InitIInv
  <1>2. IInv /\ [Next]_vars => IInv'
    BY NextIInv
  <1>. QED  BY <1>1, <1>2, PTL DEF Spec

(* Every variable keeps its type.                                           *)
THEOREM TypeCorrect == Spec => []TypeOK
  <1>1. IInv => TypeOK
    BY DEF IInv
  <1>. QED  BY <1>1, Invariance, PTL

(* An agent that may send under its key (m_bInit cleared by InitReg or      *)
(* LoadConf) works under a pair the server issued.                          *)
THEOREM AgentUsesIssuedPair == Spec => []MemoryIsIssued
  <1>1. IInv => MemoryIsIssued
    BY DEF IInv
  <1>. QED  BY <1>1, Invariance, PTL

(* Whatever SaveConf's rewrites left of the file, LoadConf accepts only a   *)
(* pair the server issued.                                                  *)
THEOREM FileHoldsIssuedPair == Spec => []FileIsIssued
  <1>1. IInv => FileIsIssued
    BY LoadableIsIssued DEF IInv, TypeOK, FileIsIssued
  <1>. QED  BY <1>1, Invariance, PTL

-----------------------------------------------------------------------------
(* AstRegister implements AgentIdentity.                                    *)

\* A fresh agent is one of AgentIdentity.
LEMMA IdentityInit == Init => Identity!Init
  BY EmptyLoadsAsNone DEF Init, Identity!Init, Empty

\* A step that keeps the server's pairs, m_bInit, the identity and the file.
LEMMA IdentityStutter ==
  ASSUME UNCHANGED <<issued, pkg, file>>
  PROVE  UNCHANGED Identity!vars
  BY DEF Identity!vars, pkg, LoadsAs, Accepted, Uuid

(* The first answer is adopted: Adopt.                                      *)
LEMMA IdentityRegFinish ==
  ASSUME IInv, RegFinish
  PROVE  [Identity!Next]_(Identity!vars)
  <1>1. CASE UNCHANGED <<m_bInit, m_AgentID, m_KA>>
    BY <1>1, IdentityStutter DEF RegFinish, InitReg, SecondRequest, server, disk, pkg
  <1>2. CASE /\ answer \in Pairs
             /\ m_AgentID' = answer[1] /\ m_KA' = answer[2] /\ m_bInit' = FALSE
    <2>1. <<m_AgentID', m_KA'>> \in issued
      BY <1>2, PairParts DEF IInv
    <2>2. UNCHANGED <<issued, file>>
      BY DEF RegFinish, InitReg, SecondRequest, server, disk
    <2>3. LoadsAs(file') = LoadsAs(file)
      BY <2>2
    <2>4. Identity!Adopt
      BY <1>2, <2>1, <2>2, <2>3 DEF Identity!Adopt, LoadsAs, Accepted, Uuid
    <2>. QED  BY <2>4 DEF Identity!Next
  <1>. QED  BY <1>1, <1>2 DEF RegFinish, InitReg, SecondRequest

(* The server issues a pair: Issue.                                         *)
LEMMA IdentityGrant ==
  ASSUME IInv, NEW p \in Pairs, Grant(p)
  PROVE  [Identity!Next]_(Identity!vars)
  <1>1. Identity!Issue
    BY DEF Identity!Issue, Grant, pkg, disk, LoadsAs, Accepted, Uuid
  <1>. QED  BY <1>1 DEF Identity!Next

(* A LoadConf that accepts the file: Load; another changes no identity.     *)
LEMMA IdentityLoadConf ==
  ASSUME IInv, LoadConf
  PROVE  [Identity!Next]_(Identity!vars)
  <1>0. UNCHANGED <<issued, file>> /\ file \in FileType /\ MacIssued(file)
    BY DEF IInv, TypeOK, LoadConf, disk, server
  <1>1. CASE Accepted(file)
    <2>1. /\ LoadsAs(file) = <<file.agentid, file.ka.cipher>>
          /\ <<file.agentid, file.ka.cipher>> \in Pairs
          /\ file.agentid # None
      BY <1>0, <1>1, AcceptedIsIssued, NotNone DEF IInv, TypeOK
    <2>2. LoadsAs(file) # None
      BY <2>1, NotNone
    <2>3. m_bInit /\ ~m_bInit' /\ m_AgentID' = file.agentid /\ m_KA' = file.ka.cipher
      BY <1>1, <2>1 DEF LoadConf
    <2>4. Identity!Load
      BY <1>0, <2>1, <2>2, <2>3 DEF Identity!Load, LoadsAs, Accepted, Uuid
    <2>. QED  BY <2>4 DEF Identity!Next
  <1>2. CASE ~Accepted(file)
    <2>1. m_bInit /\ m_bInit'
      BY <1>2 DEF LoadConf
    <2>. QED  BY <1>0, <2>1 DEF Identity!vars, LoadsAs, Accepted, Uuid
  <1>. QED  BY <1>1, <1>2

(* A rewrite truncates the file or completes it: Save.                      *)
LEMMA IdentityRewrite ==
  ASSUME IInv, OpenFile \/ PutFile
  PROVE  [Identity!Next]_(Identity!vars)
  <1>1. /\ ~m_bInit /\ <<m_AgentID, m_KA>> \in Pairs /\ UNCHANGED <<pkg, issued>>
    BY DEF IInv, MemoryIsIssued, TypeOK, OpenFile, PutFile, server
  <1>2. <<m_AgentID, m_KA>> # None
    BY <1>1, NotNone
  <1>3. file' \in FileType /\ MacIssued(file')
    <2>1. CASE OpenFile
      BY <2>1, EmptyType DEF OpenFile, MacIssued
    <2>2. CASE PutFile
      BY <2>2 DEF IInv, TypeOK, PutFile
    <2>. QED  BY <2>1, <2>2
  <1>4. LoadsAs(file') \in issued \cup {None}
    BY <1>3, LoadableIsIssued
  <1>5. Identity!Save
    BY <1>1, <1>2, <1>4 DEF Identity!Save, LoadsAs, Accepted, Uuid, pkg
  <1>. QED  BY <1>5 DEF Identity!Next

(* The process dies: Restart.                                               *)
LEMMA IdentityCrash ==
  ASSUME Crash
  PROVE  [Identity!Next]_(Identity!vars)
  <1>1. Identity!Restart
    BY DEF Identity!Restart, Crash, Fresh, server, LoadsAs, Accepted, Uuid
  <1>. QED  BY <1>1 DEF Identity!Next

\* Every step is one of AgentIdentity, or changes nothing of it.
LEMMA IdentityNext == IInv /\ [Next]_vars => [Identity!Next]_(Identity!vars)
  <1> SUFFICES ASSUME IInv, [Next]_vars PROVE [Identity!Next]_(Identity!vars)
    OBVIOUS
  <1>1. CASE \/ RegAst \/ Request2TooLong \/ RegAck \/ Refuse \/ Accept
             \/ Connect("connect1", "wait1") \/ Connect("connect2", "wait2")
             \/ GiveUp("connect1", 2) \/ GiveUp("wait1", 3)
             \/ GiveUp("connect2", 5) \/ GiveUp("wait2", 6)
             \/ SaveConf \/ OpenFails \/ UNCHANGED vars
    <2>1. UNCHANGED <<issued, pkg, file>>
      BY <1>1 DEF RegAst, TryConnect, GetDevInfo, Request2TooLong, RegAck, Refuse, Accept, Connect, GiveUp,
                  SaveConf, OpenFails, vars, server, disk
    <2>. QED  BY <2>1, IdentityStutter
  <1>2. CASE \E ip \in Ips : HostMoves(ip)
    <2>1. UNCHANGED <<issued, pkg, file>>
      BY <1>2 DEF HostMoves, server, disk
    <2>. QED  BY <2>1, IdentityStutter
  <1>3. CASE RegFinish  BY <1>3, IdentityRegFinish
  <1>4. CASE \E p \in Pairs : Grant(p)  BY <1>4, IdentityGrant
  <1>5. CASE LoadConf  BY <1>5, IdentityLoadConf
  <1>6. CASE OpenFile \/ PutFile  BY <1>6, IdentityRewrite
  <1>7. CASE Crash  BY <1>7, IdentityCrash
  <1>. QED  BY <1>1, <1>2, <1>3, <1>4, <1>5, <1>6, <1>7 DEF Next

(* Registration, load, save, crash and restart implement the identity that  *)
(* AgentIdentity specifies, for every set of pairs.                         *)
THEOREM Implementation == Spec => ImplementsIdentity
  <1>1. Init => Identity!Init
    BY IdentityInit
  <1>2. IInv /\ [Next]_vars => [Identity!Next]_(Identity!vars)
    BY IdentityNext
  <1>. QED  BY <1>1, <1>2, Invariance, PTL DEF Spec, ImplementsIdentity, Identity!Spec
-----------------------------------------------------------------------------
(* The address that the second request names.                               *)

\* While RegAst waits for the first answer, m_qsCurrentIp is the address its
\* connection came from.
AddressKnown == /\ pc = "wait1" => srcIp = m_qsCurrentIp
                /\ ReportedIpIsSource

\* Only Connect and RegFinish lead to the places AddressKnown speaks of; the
\* other steps leave them or keep the addresses.
LEMMA AddressStep == AddressKnown /\ [Next]_vars => AddressKnown'
  <1> SUFFICES ASSUME AddressKnown, [Next]_vars PROVE AddressKnown'
    OBVIOUS
  <1>. USE DEF AddressKnown, ReportedIpIsSource
  <1>1. CASE Connect("connect1", "wait1") \/ Connect("connect2", "wait2")
    BY <1>1 DEF Connect
  <1>2. CASE RegFinish
    BY <1>2 DEF RegFinish, SecondRequest, Return
  <1>3. CASE RegAst
    BY <1>3 DEF RegAst, Return
  <1>4. CASE \/ GiveUp("connect1", 2) \/ GiveUp("wait1", 3)
             \/ GiveUp("connect2", 5) \/ GiveUp("wait2", 6)
    BY <1>4 DEF GiveUp, Return
  <1>5. CASE Request2TooLong \/ RegAck
    BY <1>5 DEF Request2TooLong, RegAck, Return
  <1>6. CASE (\E p \in Pairs : Grant(p)) \/ Refuse \/ Accept
    BY <1>6 DEF Grant, Refuse, Accept, ips, addr
  <1>7. CASE LoadConf \/ SaveConf \/ OpenFile
    BY <1>7 DEF LoadConf, SaveConf, OpenFile, ips, addr
  <1>8. CASE OpenFails \/ PutFile
    <2>1. pc' \in {"idle", "save"}
      BY <1>8 DEF OpenFails, PutFile, SaveNext
    <2>. QED  BY <2>1
  <1>9. CASE Crash
    BY <1>9 DEF Crash, Fresh
  <1>10. CASE \E ip \in Ips : HostMoves(ip)
    BY <1>10 DEF HostMoves, ips, addr
  <1>11. CASE UNCHANGED vars
    BY <1>11 DEF vars, ips, addr
  <1>. QED  BY <1>1, <1>2, <1>3, <1>4, <1>5, <1>6, <1>7, <1>8, <1>9, <1>10, <1>11 DEF Next

(* However often the host moves and whichever attempt connects, the second  *)
(* request names the address the first connection came from (RegAst and     *)
(* CAstClient::connect).                                                    *)
THEOREM SecondRequestNamesSource == Spec => []ReportedIpIsSource
  <1>1. Init => AddressKnown
    BY DEF Init, AddressKnown, ReportedIpIsSource
  <1>2. AddressKnown /\ [Next]_vars => AddressKnown'
    BY AddressStep
  <1>3. AddressKnown => ReportedIpIsSource
    BY DEF AddressKnown
  <1>. QED  BY <1>1, <1>2, <1>3, PTL DEF Spec

-----------------------------------------------------------------------------
(* A registration that fails.                                               *)

\* The steps that end a registration before RegFinish adopts a pair.
LEMMA FailureStep ==
  ASSUME [Next]_vars, pc \in {"connect1", "wait1"}, pc' = "idle", ret' # None
  PROVE  pkg' = pkg
  <1>1. CASE GiveUp("connect1", 2) \/ GiveUp("wait1", 3)
    BY <1>1 DEF GiveUp
  <1>2. CASE RegFinish
    BY <1>2 DEF RegFinish, SecondRequest, pkg
  <1>3. CASE Crash
    BY <1>3 DEF Crash, Fresh
  <1>4. CASE \/ RegAst \/ Connect("connect1", "wait1") \/ Request2TooLong
             \/ Connect("connect2", "wait2") \/ GiveUp("connect2", 5) \/ GiveUp("wait2", 6)
             \/ RegAck \/ Accept
    BY <1>4 DEF RegAst, Connect, Request2TooLong, GiveUp, RegAck, Accept
  <1>5. CASE \/ (\E p \in Pairs : Grant(p)) \/ Refuse
             \/ (\E ip \in Ips : HostMoves(ip)) \/ UNCHANGED vars
    BY <1>5 DEF Grant, Refuse, HostMoves, vars
  <1>6. CASE LoadConf \/ SaveConf \/ OpenFile \/ OpenFails \/ PutFile
    BY <1>6 DEF LoadConf, SaveConf, OpenFile, OpenFails, PutFile
  <1>. QED  BY <1>1, <1>2, <1>3, <1>4, <1>5, <1>6 DEF Next

(* A registration that fails before the server's pair has been checked      *)
(* leaves the identity as it was (RegAst, RegFinish, InitReg).              *)
THEOREM FailureIsHarmless == Spec => FailureKeepsIdentity
  <1>1. [Next]_vars => [(pc = "connect1" \/ pc = "wait1") /\ pc' = "idle" /\ ret' # None
                          => pkg' = pkg]_vars
    BY FailureStep
  <1>. QED  BY <1>1, PTL DEF Spec, FailureKeepsIdentity

-----------------------------------------------------------------------------
(* A SaveConf that succeeds.                                                *)

\* The fields in front of the one SaveConf writes next are those of the
\* identity in memory.
Written(text) ==
  /\ saving \in {"uuid", "mac", "ka"} => text.agentid = m_AgentID
  /\ saving \in {"mac", "ka"} => text.uuid = m_UUID
  /\ saving = "ka" => text.mac = Mac(m_UUID, m_AgentID, m_KA)

\* As long as no rewrite has failed that is true of the file, and during a
\* rewrite of the text that is to replace it, which holds the next field too.
SavedSoFar == /\ pc # "save" => wbuf = None
              /\ pc = "save" /\ clean /\ wbuf = None => Written(file)
              /\ pc = "save" /\ clean /\ wbuf # None => Written(wbuf) /\ wbuf[saving] = Value(saving)

\* What SaveConf writes for each field.
LEMMA Values == /\ Value("agentid") = m_AgentID
                /\ Value("uuid") = m_UUID
                /\ Value("mac") = Mac(m_UUID, m_AgentID, m_KA)
                /\ Value("ka") = EncryptByID(m_KA, m_UUID)
  BY DEF Value

\* The order in which SaveConf writes them.
LEMMA Order == /\ After("agentid") = "uuid" /\ After("uuid") = "mac"
               /\ After("mac") = "ka" /\ After("ka") = None
  BY DEF After

\* A text has its fields, and a rewrite changes one.
LEMMA Rewritten ==
  ASSUME NEW text \in FileType, NEW f \in Fields, NEW v
  PROVE  /\ [text EXCEPT ![f] = v][f] = v
         /\ \A g \in Fields : g # f => [text EXCEPT ![f] = v][g] = text[g]
  BY DEF FileType, Fields

\* Opening the file for the next field.
LEMMA OpenFileSaves == IInv /\ SavedSoFar /\ OpenFile => SavedSoFar'
  <1> SUFFICES ASSUME IInv, SavedSoFar, OpenFile PROVE SavedSoFar'
    OBVIOUS
  <1>1. /\ pc = "save" /\ pc' = "save" /\ saving \in Fields /\ file \in FileType
        /\ wbuf = None /\ UNCHANGED <<pkg, saving, clean>>
        /\ wbuf' = [file EXCEPT ![saving] = Value(saving)]
    BY DEF IInv, TypeOK, OpenFile
  <1>2. wbuf' \in FileType /\ wbuf' # None
    BY WriteType, <1>1, AbsentAssumption
  <1>3. wbuf'[saving] = Value(saving)
    BY <1>1, Rewritten
  <1>4. Value(saving)' = Value(saving)
    BY <1>1, Zenon DEF Value, pkg
  <1>5. clean => Written(wbuf')
    <2> SUFFICES ASSUME clean PROVE Written(wbuf')
      OBVIOUS
    <2>1. Written(file)
      BY <1>1 DEF SavedSoFar
    <2>2. \A g \in Fields : g # saving => wbuf'[g] = file[g]
      BY <1>1, Rewritten
    <2>. QED  BY <2>1, <2>2 DEF Written, Fields
  <1>. QED  BY <1>1, <1>2, <1>3, <1>4, <1>5 DEF SavedSoFar, Written, pkg

\* The text reaches the disk, and the next field is up.
LEMMA PutFileSaves == IInv /\ SavedSoFar /\ PutFile => SavedSoFar'
  <1> SUFFICES ASSUME IInv, SavedSoFar, PutFile PROVE SavedSoFar'
    OBVIOUS
  <1>1. /\ pc = "save" /\ saving \in Fields /\ wbuf # None /\ wbuf' = None
        /\ UNCHANGED pkg /\ saving' = After(saving)
        /\ After(saving) = None => pc' = "idle"
    BY DEF IInv, PutFile, SaveNext
  <1>2. clean' => clean /\ file' = wbuf
    <2>1. CASE file' = wbuf /\ UNCHANGED clean
      BY <2>1
    <2>2. CASE clean' = FALSE /\ UNCHANGED file
      BY <2>2
    <2>. QED  BY <2>1, <2>2 DEF PutFile
  <1>3. ASSUME clean', pc' = "save" PROVE Written(file)'
    <2>1. Written(wbuf) /\ wbuf[saving] = Value(saving) /\ file' = wbuf
      BY <1>1, <1>2, <1>3 DEF SavedSoFar
    <2>2. CASE saving = "agentid"
      BY <1>1, <2>1, <2>2, Values, Order DEF Written, pkg
    <2>3. CASE saving = "uuid"
      BY <1>1, <2>1, <2>3, Values, Order DEF Written, pkg
    <2>4. CASE saving = "mac"
      BY <1>1, <2>1, <2>4, Values, Order DEF Written, pkg
    <2>5. CASE saving = "ka"
      BY <1>1, <1>3, <2>5, Order
    <2>. QED  BY <1>1, <2>2, <2>3, <2>4, <2>5 DEF Fields
  <1>. QED  BY <1>1, <1>3 DEF SavedSoFar

\* A SaveConf that has just begun, a rewrite whose open fails, and the steps
\* that leave the file and the identity alone, or find nothing being saved.
LEMMA OtherSaves ==
  ASSUME IInv, SavedSoFar, [Next]_vars, ~OpenFile, ~PutFile
  PROVE  SavedSoFar'
  <1>1. CASE SaveConf
    BY <1>1 DEF SaveConf, SavedSoFar, Written
  <1>2. CASE OpenFails
    <2>1. ~clean' /\ wbuf' = None
      BY <1>2 DEF OpenFails
    <2>. QED  BY <2>1 DEF SavedSoFar
  <1>3. CASE Crash
    BY <1>3 DEF Crash, Fresh, SavedSoFar
  <1>4. CASE /\ pc # "save" /\ pc' # "save"
             /\ wbuf' = wbuf
    BY <1>4 DEF SavedSoFar
  <1>5. CASE UNCHANGED <<pkg, disk, pc>>
    <2>1. Value(saving)' = Value(saving)
      BY <1>5 DEF Value, pkg, disk
    <2>. QED  BY <1>5, <2>1 DEF SavedSoFar, Written, pkg, disk
  <1>6. CASE \/ RegAst \/ Connect("connect1", "wait1") \/ Connect("connect2", "wait2")
             \/ GiveUp("connect1", 2) \/ GiveUp("wait1", 3)
             \/ GiveUp("connect2", 5) \/ GiveUp("wait2", 6)
             \/ RegFinish \/ Request2TooLong \/ RegAck \/ LoadConf
    <2>1. pc # "save" /\ pc' # "save" /\ wbuf' = wbuf
      BY <1>6 DEF RegAst, Connect, GiveUp, RegFinish, SecondRequest, Request2TooLong,
                  RegAck, LoadConf, Return, disk
    <2>. QED  BY <2>1, <1>4
  <1>7. CASE \/ (\E p \in Pairs : Grant(p)) \/ Refuse \/ Accept
             \/ (\E ip \in Ips : HostMoves(ip)) \/ UNCHANGED vars
    <2>1. UNCHANGED <<pkg, disk, pc>>
      BY <1>7 DEF Grant, Refuse, Accept, HostMoves, vars
    <2>. QED  BY <2>1, <1>5
  <1>. QED  BY <1>1, <1>2, <1>3, <1>6, <1>7 DEF Next

\* SavedSoFar holds in every reachable state.
LEMMA SavedInvariance == Spec => []SavedSoFar
  <1>1. Init => SavedSoFar
    BY DEF Init, SavedSoFar
  <1>2. IInv /\ SavedSoFar /\ [Next]_vars => SavedSoFar'
    BY OpenFileSaves, PutFileSaves, OtherSaves
  <1>. QED  BY <1>1, <1>2, Invariance, PTL DEF Spec

\* The last rewrite of a SaveConf that nothing has disturbed.
LEMMA LastRewrite ==
  ASSUME IInv, SavedSoFar, PutFile, pc' = "idle", clean', ReadBack[m_UUID] = m_UUID
  PROVE  LoadsAs(file') = <<m_AgentID, m_KA>>
  <1>1. /\ pc = "save" /\ saving \in Fields /\ wbuf # None /\ wbuf \in FileType
        /\ After(saving) = None
    BY DEF IInv, TypeOK, PutFile, SaveNext
  <1>2. clean /\ file' = wbuf
    <2>1. CASE file' = wbuf /\ UNCHANGED clean
      BY <2>1
    <2>2. CASE clean' = FALSE /\ UNCHANGED file
      BY <2>2
    <2>. QED  BY <2>1, <2>2 DEF PutFile
  <1>3. Written(wbuf) /\ wbuf[saving] = Value(saving)
    BY <1>1, <1>2 DEF SavedSoFar
  <1>4. /\ m_AgentID \in Ids /\ m_KA \in Keys /\ m_UUID \in Uuids
    <2>1. <<m_AgentID, m_KA>> \in Pairs
      BY <1>1 DEF IInv, MemoryIsIssued, TypeOK
    <2>2. PICK p \in Pairs : p = <<m_AgentID, m_KA>>
      BY <2>1
    <2>3. m_AgentID = p[1] /\ m_KA = p[2]
      BY <2>2
    <2>. QED  BY <2>3, PairParts DEF IInv, TypeOK
  <1>5. saving = "ka"
    <2>1. None # "uuid" /\ None # "mac" /\ None # "ka"
      BY AbsentAssumption DEF Fields
    <2>2. saving # "agentid" /\ saving # "uuid" /\ saving # "mac"
      BY <1>1, <2>1, Order
    <2>. QED  BY <1>1, <2>2 DEF Fields
  <1>6. /\ wbuf.agentid = m_AgentID /\ wbuf.uuid = m_UUID
        /\ wbuf.mac = Mac(m_UUID, m_AgentID, m_KA)
        /\ wbuf.ka = EncryptByID(m_KA, m_UUID)
    BY <1>3, <1>5, Values DEF Written
  <1>7. /\ Mac(m_UUID, m_AgentID, m_KA) # None /\ EncryptByID(m_KA, m_UUID) # None
        /\ m_AgentID # None /\ m_UUID # None
    BY <1>4, NotNone, AbsentAssumption DEF Mac, EncryptByID
  <1>8. Accepted(wbuf)
    BY <1>6, <1>7 DEF Accepted, Uuid, Fields, EncryptByID
  <1>. QED  BY <1>2, <1>6, <1>8 DEF LoadsAs, EncryptByID

(* A SaveConf none of whose rewrites failed, under a uuid that LoadConf     *)
(* reads back as it was written, leaves a file that LoadConf accepts as the *)
(* identity in memory, whatever the file held before (SaveConf,             *)
(* write_profile_string, LoadConf).                                         *)
THEOREM SavedIsLoadable == Spec => SaveThenLoad
  <1>1. IInv /\ SavedSoFar /\ [Next]_vars
          => [(pc = "save" /\ pc' = "idle" /\ clean' /\ ReadBack[m_UUID] = m_UUID)
                => LoadsAs(file') = <<m_AgentID, m_KA>>]_vars
    <2> SUFFICES ASSUME IInv, SavedSoFar, [Next]_vars, pc = "save", pc' = "idle", clean',
                        ReadBack[m_UUID] = m_UUID
                 PROVE  LoadsAs(file') = <<m_AgentID, m_KA>>
      OBVIOUS
    <2>1. CASE PutFile
      BY <2>1, LastRewrite
    <2>2. CASE OpenFails
      BY <2>2 DEF OpenFails
    <2>3. CASE Crash
      BY <2>3 DEF Crash, Fresh
    <2>4. ~(pc = "idle") /\ ~(pc' = "save")
      OBVIOUS
    <2>5. CASE \/ RegAst \/ Connect("connect1", "wait1") \/ Connect("connect2", "wait2")
               \/ GiveUp("connect1", 2) \/ GiveUp("wait1", 3)
               \/ GiveUp("connect2", 5) \/ GiveUp("wait2", 6)
               \/ RegFinish \/ Request2TooLong \/ RegAck \/ LoadConf \/ SaveConf
      BY <2>4, <2>5 DEF RegAst, Connect, GiveUp, RegFinish, Request2TooLong, RegAck, LoadConf, SaveConf
    <2>6. CASE \/ (\E p \in Pairs : Grant(p)) \/ Refuse \/ Accept \/ OpenFile
               \/ (\E ip \in Ips : HostMoves(ip)) \/ UNCHANGED vars
      BY <2>6 DEF Grant, Refuse, Accept, OpenFile, HostMoves, vars
    <2>. QED  BY <2>1, <2>2, <2>3, <2>5, <2>6 DEF Next
  <1>. QED  BY <1>1, Invariance, SavedInvariance, PTL DEF Spec, SaveThenLoad

-----------------------------------------------------------------------------
(* CAstClient, the connection the registration goes over                    *)

\* The parts of one answer are read, waiting or owed; none is made up.
Parts == recved + inbox + owed <= Whole

\* A connection that has not been used yet.
Unused == recved = 0 /\ inbox = 0 /\ owed = 0

\* Where the calls are, against what is known of the connection.
Calls ==
  /\ ~m_fd => peer = "none"
  /\ at # "idle" => m_fd /\ result \in {"none", "space"}
  /\ at = "idle" /\ peer # "none" /\ result = "none" => Unused
  /\ at = "send" => Unused

\* The mode of a socket without a limit, which every sendv and recvv turns over.
Flag ==
  m_timeout = 0 => /\ at = "idle" /\ peer # "none" /\ result = "none" => nonblock = FALSE
                   /\ at = "send" => nonblock = TRUE
                   /\ at = "head" => nonblock = FALSE

\* The socket in use is one of the open descriptors.
Descriptors == LosesAtMostOnePerBind /\ (m_fd => used > 0)

ClientIInv == ClientTypeOK /\ Parts /\ Calls /\ Flag /\ ZeroIsWhole /\ HeadIsAwaited /\ Descriptors

\* The bounds of the counters.
LEMMA WholeNat == 1 + BodyLen \in Nat /\ 0 \in 0..(1 + BodyLen) /\ 0 \in 0..BodyLen /\ 0 \in 0..MaxFd
BY BodyLenAssumption, MaxFdAssumption

\* setblocking(-1) turns the flag over, whatever it was.
LEMMA UntimedEntryFlips ==
  m_timeout = 0 => /\ nonblock = FALSE => OnEntry = TRUE
                   /\ nonblock = TRUE => OnEntry = FALSE
BY DEF OnEntry, SetBlocking

\* The flag stays a flag.
LEMMA FlagType == ClientTypeOK => OnEntry \in BOOLEAN /\ OnError \in BOOLEAN /\ OnReset \in BOOLEAN
<1>1. SUFFICES ASSUME nonblock \in BOOLEAN
               PROVE  OnEntry \in BOOLEAN /\ OnError \in BOOLEAN /\ OnReset \in BOOLEAN
  BY DEF ClientTypeOK
<1>2. \A b : SetBlocking(b) \in BOOLEAN
  BY <1>1 DEF SetBlocking
<1> QED BY <1>1, <1>2 DEF OnEntry, OnError, OnReset

\* The start of the program.
LEMMA ClientInitIInv == ClientInit => ClientIInv
<1> SUFFICES ASSUME ClientInit PROVE ClientIInv
  OBVIOUS
<1> USE WholeNat DEF ClientInit
<1>1. ClientTypeOK
  BY DEF ClientTypeOK
<1> QED
  BY <1>1 DEF Whole, ClientIInv, Parts, Unused, Calls, ZeroIsWhole, Flag,
              HeadIsAwaited, Descriptors, LosesAtMostOnePerBind

\* A fresh connection, or none, has nothing to read and no result.
LEMMA ClientConnects ==
  ASSUME ClientIInv, at = "idle", ~m_fd, UNCHANGED <<m_timeout, at>>,
         used' \in 0..MaxFd, binds' \in Nat, Descriptors',
         m_fd' \in BOOLEAN,
         UNCHANGED nLen,
         Connected \/ UNCHANGED <<nonblock, recved, result, net>>
  PROVE  ClientIInv'
<1>1. CASE Connected
  <2>1. m_timeout' \in Timeouts /\ nonblock' = FALSE /\ at' = "idle" /\ nLen' \in 0..BodyLen
    BY <1>1 DEF ClientIInv, ClientTypeOK, Connected
  <2>2. recved' = 0 /\ inbox' = 0 /\ owed' = 0 /\ peer' = "open" /\ result' = "none" /\ m_fd' = TRUE
    BY <1>1 DEF Connected
  <2>3. ClientTypeOK'
    BY <2>1, <2>2, WholeNat DEF ClientTypeOK
  <2>4. Parts' /\ Calls' /\ ZeroIsWhole'
    BY <2>1, <2>2, BodyLenAssumption DEF Parts, Unused, Calls, ZeroIsWhole, Whole
  <2>5. Flag' /\ HeadIsAwaited'
    BY <2>1, <2>2 DEF Flag, HeadIsAwaited
  <2> QED BY <2>3, <2>4, <2>5 DEF ClientIInv
<1>2. CASE UNCHANGED <<nonblock, recved, result, net>>
  <2>1. ClientTypeOK'
    BY <1>2 DEF ClientIInv, ClientTypeOK, net
  <2>2. Parts' /\ Calls' /\ ZeroIsWhole' /\ Flag' /\ HeadIsAwaited'
    BY <1>2 DEF ClientIInv, net, Parts, Whole, Unused, Calls, ZeroIsWhole, Flag,
                HeadIsAwaited
  <2> QED BY <2>1, <2>2 DEF ClientIInv
<1> QED BY <1>1, <1>2

\* connect() and connect(false) lose no descriptor.
LEMMA ConnectUnboundStep == ClientIInv /\ ConnectUnbound => ClientIInv'
<1> SUFFICES ASSUME ClientIInv, ConnectUnbound PROVE ClientIInv'
  OBVIOUS
<1>1. used \in 0..MaxFd /\ binds \in Nat /\ used <= binds
  BY DEF ClientIInv, ClientTypeOK, Descriptors, LosesAtMostOnePerBind, ConnectUnbound
<1>2. m_fd' = (used < MaxFd)
  BY DEF ConnectUnbound, Connected
<1>3. used' = (IF used < MaxFd THEN used + 1 ELSE used) /\ binds' = binds
  BY DEF ConnectUnbound, BuildStream
<1>4. m_fd' \in BOOLEAN
  BY <1>2
<1>5. m_fd' <=> used < MaxFd
  BY <1>2
<1>6. used' \in 0..MaxFd /\ binds' \in Nat /\ Descriptors'
  BY <1>1, <1>3, <1>5, MaxFdAssumption DEF Descriptors, LosesAtMostOnePerBind
<1> QED BY <1>4, <1>6, ClientConnects DEF ConnectUnbound

\* connect(true) loses the descriptor that bindClientIP writes over.
LEMMA ConnectBoundStep == ClientIInv /\ ConnectBound => ClientIInv'
<1> SUFFICES ASSUME ClientIInv, ConnectBound PROVE ClientIInv'
  OBVIOUS
<1> DEFINE first == IF used < MaxFd THEN used + 1 ELSE used
<1>1. used \in 0..MaxFd /\ binds \in Nat /\ used <= binds
  BY DEF ClientIInv, ClientTypeOK, Descriptors, LosesAtMostOnePerBind, ConnectBound
<1>2. m_fd' = (first < MaxFd)
  BY DEF ConnectBound, Connected, BuildStream
<1>3. /\ used' = (IF first < MaxFd THEN first + 1 ELSE first)
      /\ binds' = (IF used < MaxFd THEN binds + 1 ELSE binds)
  BY DEF ConnectBound, BuildStream
<1>4. m_fd' \in BOOLEAN
  BY <1>2
<1>5. m_fd' <=> first < MaxFd
  BY <1>2
<1> HIDE DEF first
<1>6. first = IF used < MaxFd THEN used + 1 ELSE used
  BY DEF first
<1>7. used' \in 0..MaxFd /\ binds' \in Nat /\ Descriptors'
  BY <1>1, <1>3, <1>5, <1>6, MaxFdAssumption DEF Descriptors, LosesAtMostOnePerBind
<1> QED BY <1>4, <1>7, ClientConnects DEF ConnectBound

\* close gives the descriptor back.
LEMMA CloseStep == ClientIInv /\ Close => ClientIInv'
<1> SUFFICES ASSUME ClientIInv, Close PROVE ClientIInv'
  OBVIOUS
<1>1. used' \in 0..MaxFd /\ Descriptors'
  BY MaxFdAssumption DEF ClientIInv, ClientTypeOK, Descriptors, LosesAtMostOnePerBind, Close
<1>2. ClientTypeOK'
  BY <1>1, WholeNat DEF ClientIInv, ClientTypeOK, Close
<1>3. Parts'
  BY WholeNat DEF ClientIInv, ClientTypeOK, Parts, Close, Whole
<1>4. Calls' /\ ZeroIsWhole' /\ Flag' /\ HeadIsAwaited'
  BY DEF ClientIInv, Close, Calls, ZeroIsWhole, Whole, Flag, HeadIsAwaited
<1> QED BY <1>1, <1>2, <1>3, <1>4 DEF ClientIInv

\* A step inside a call leaves the descriptors alone.
LEMMA FdsKept == Descriptors /\ UNCHANGED fds => Descriptors'
BY DEF Descriptors, LosesAtMostOnePerBind, fds

\* run starts on a connection that has not been used.
LEMMA RunStep == ClientIInv /\ Run => ClientIInv'
<1> SUFFICES ASSUME ClientIInv, Run PROVE ClientIInv'
  OBVIOUS
<1>1. Descriptors'
  BY FdsKept DEF ClientIInv, Run
<1>2. ClientTypeOK'
  BY FlagType DEF ClientIInv, ClientTypeOK, Run, fds, net
<1>3. Parts' /\ Calls' /\ ZeroIsWhole' /\ HeadIsAwaited'
  BY DEF ClientIInv, Run, fds, net, Parts, Whole, Unused, Calls, ZeroIsWhole, HeadIsAwaited
<1>4. Flag'
  BY UntimedEntryFlips DEF ClientIInv, Run, Flag
<1> QED BY <1>1, <1>2, <1>3, <1>4 DEF ClientIInv

\* The request goes out whole, or the server has closed.
LEMMA SendStep == ClientIInv /\ Send => ClientIInv'
<1> SUFFICES ASSUME ClientIInv, Send PROVE ClientIInv'
  OBVIOUS
<1>1. Descriptors'
  BY FdsKept DEF ClientIInv, Send
<1>2. /\ at = "send" /\ UNCHANGED <<m_timeout, fds, recved, inbox, peer>> /\ Unused /\ m_fd
      /\ result \in {"none", "space"}
  BY DEF ClientIInv, Calls, Send
<1>3. ASSUME Requested
      PROVE  nLen' \in 0..BodyLen /\ owed' \in 0..(1 + BodyLen) /\ Parts'
  <2>1. nLen' \in 0..BodyLen /\ (owed' = 0 \/ owed' = 1 + nLen')
    BY <1>3 DEF Requested
  <2>2. recved' = 0 /\ inbox' = 0
    BY <1>2 DEF Unused
  <2>3. owed' \in 0..(1 + BodyLen) /\ owed' <= 1 + nLen'
    BY <2>1, BodyLenAssumption
  <2>4. recved' + inbox' + owed' <= 1 + nLen'
    BY <2>2, <2>3
  <2> QED BY <2>1, <2>3, <2>4 DEF Parts, Whole
<1>4. CASE Requested /\ nonblock' = OnEntry /\ at' = "head" /\ UNCHANGED result
  <2>1. ClientTypeOK'
    BY <1>2, <1>3, <1>4, FlagType DEF ClientIInv, ClientTypeOK, fds
  <2>2. Flag'
    BY <1>2, <1>4, UntimedEntryFlips DEF ClientIInv, Flag
  <2>3. Calls' /\ ZeroIsWhole' /\ HeadIsAwaited'
    BY <1>2, <1>4 DEF ClientIInv, fds, Calls, ZeroIsWhole, HeadIsAwaited
  <2> QED BY <1>1, <1>3, <1>4, <2>1, <2>2, <2>3 DEF ClientIInv
<1>5. CASE Requested /\ result' = "-1" /\ at' = "idle" /\ UNCHANGED nonblock
  <2>1. ClientTypeOK'
    BY <1>2, <1>3, <1>5 DEF ClientIInv, ClientTypeOK, fds
  <2>2. Calls' /\ ZeroIsWhole' /\ HeadIsAwaited' /\ Flag'
    BY <1>2, <1>5 DEF ClientIInv, fds, Calls, ZeroIsWhole, HeadIsAwaited, Flag
  <2> QED BY <1>1, <1>3, <1>5, <2>1, <2>2 DEF ClientIInv
<1>6. CASE /\ peer = "closed"
           /\ result' = "-3" /\ at' = "idle" /\ nonblock' = OnReset /\ UNCHANGED <<nLen, owed>>
  <2>1. ClientTypeOK'
    BY <1>2, <1>6, FlagType DEF ClientIInv, ClientTypeOK, fds
  <2>2. Parts' /\ Calls' /\ ZeroIsWhole' /\ HeadIsAwaited' /\ Flag'
    BY <1>2, <1>6 DEF ClientIInv, fds, Parts, Whole, Calls, ZeroIsWhole, HeadIsAwaited, Flag
  <2> QED BY <1>1, <2>1, <2>2 DEF ClientIInv
<1> QED BY <1>4, <1>5, <1>6 DEF Send

\* What recv takes from the parts that wait, and what follows.
LEMMA RecvStep == ClientIInv /\ Recv => ClientIInv'
<1> SUFFICES ASSUME ClientIInv, Recv PROVE ClientIInv'
  OBVIOUS
<1>1. Descriptors'
  BY FdsKept DEF ClientIInv, Recv
<1>2. PICK n \in 1..inbox :
        /\ recved + n <= Wanted
        /\ recved' = recved + n /\ inbox' = inbox - n
        /\ \/ recved + n < Wanted /\ UNCHANGED <<at, result, nonblock>>
           \/ recved + n = Wanted /\ at = "head" /\ AfterHead
           \/ /\ recved + n = Wanted /\ at # "head"
              /\ at' = "idle" /\ result' = "0" /\ UNCHANGED nonblock
  BY DEF Recv
<1>3. /\ Receiving /\ UNCHANGED <<m_timeout, fds, nLen, owed, peer>> /\ m_fd
      /\ result \in {"none", "space"}
  BY DEF ClientIInv, Calls, Recv, Receiving
<1>4. Whole \in Nat /\ Whole <= 1 + BodyLen /\ Whole' = Whole
  BY <1>3, BodyLenAssumption DEF ClientIInv, ClientTypeOK, Whole
<1>5. Wanted \in 0..Whole /\ (at # "head" => Wanted = Whole)
  BY BodyLenAssumption DEF Wanted, Whole, ClientIInv, ClientTypeOK
<1>6. recved' \in 0..(1 + BodyLen) /\ inbox' \in 0..(1 + BodyLen) /\ Parts'
  BY <1>2, <1>3, <1>4, <1>5, WholeNat DEF ClientIInv, ClientTypeOK, Parts
<1>7. CASE UNCHANGED <<at, result, nonblock>>
  <2>1. ClientTypeOK'
    BY <1>3, <1>6, <1>7 DEF ClientIInv, ClientTypeOK, fds
  <2>2. Calls' /\ ZeroIsWhole' /\ HeadIsAwaited' /\ Flag'
    BY <1>3, <1>7 DEF ClientIInv, fds, Calls, ZeroIsWhole, HeadIsAwaited, Flag, Receiving
  <2> QED BY <1>1, <1>6, <2>1, <2>2 DEF ClientIInv
<1>8. CASE at = "head" /\ AfterHead
  <2>1. nonblock' \in BOOLEAN
    BY <1>8, FlagType DEF ClientIInv, ClientTypeOK, AfterHead
  <2>2. at' \in {"idle", "body", "more"} /\ result' \in {"none", "space", "-4"}
    BY <1>3, <1>8 DEF AfterHead
  <2>3. at' = "idle" => result' = "-4"
    BY <1>3, <1>8 DEF AfterHead
  <2>4. at' # "idle" => result' \in {"none", "space"}
    BY <1>3, <1>8 DEF AfterHead
  <2>5. ClientTypeOK'
    BY <1>3, <1>6, <2>1, <2>2 DEF ClientIInv, ClientTypeOK, fds
  <2>6. Calls' /\ ZeroIsWhole' /\ HeadIsAwaited' /\ Flag'
    BY <1>3, <2>2, <2>3, <2>4 DEF ClientIInv, fds, Calls, ZeroIsWhole, HeadIsAwaited, Flag
  <2> QED BY <1>1, <1>6, <2>5, <2>6 DEF ClientIInv
<1>9. CASE /\ at # "head" /\ at' = "idle" /\ result' = "0" /\ UNCHANGED nonblock
           /\ recved + n = Wanted
  <2>1. ClientTypeOK'
    BY <1>3, <1>6, <1>9 DEF ClientIInv, ClientTypeOK, fds
  <2>2. recved' = Whole'
    BY <1>2, <1>4, <1>5, <1>9
  <2>3. Calls' /\ ZeroIsWhole' /\ HeadIsAwaited' /\ Flag'
    BY <1>3, <1>9, <2>2 DEF ClientIInv, fds, Calls, ZeroIsWhole, HeadIsAwaited, Flag
  <2> QED BY <1>1, <1>6, <2>1, <2>3 DEF ClientIInv
<1> QED BY <1>2, <1>7, <1>8, <1>9

\* A call that fails leaves the parts alone; one that got no head has a cause.
LEMMA FailStep ==
  ASSUME ClientIInv, Receiving, Fails, UNCHANGED <<m_timeout, fds, nLen, recved, net>>,
         nonblock' \in BOOLEAN, m_timeout = 0 /\ at = "head" => peer # "open"
  PROVE  ClientIInv'
<1>1. Descriptors'
  BY FdsKept DEF ClientIInv
<1>2. at' = "idle" /\ result' \in {"-1", "-4", "-6"} /\ (result' = "-6" => at = "head")
  BY DEF Fails, Failed, Receiving
<1>3. ClientTypeOK' /\ Parts'
  BY <1>2 DEF ClientIInv, ClientTypeOK, Parts, Whole, fds, net
<1>4. Calls' /\ ZeroIsWhole' /\ HeadIsAwaited' /\ Flag'
  BY <1>2 DEF ClientIInv, fds, net, Calls, ZeroIsWhole, HeadIsAwaited, Flag
<1> QED BY <1>1, <1>3, <1>4 DEF ClientIInv

\* A receive that finds the connection closed fails for that reason.
LEMMA RecvClosedStep == ClientIInv /\ RecvClosed => ClientIInv'
<1> SUFFICES ASSUME ClientIInv, RecvClosed PROVE ClientIInv'
  OBVIOUS
<1>1. nonblock' \in BOOLEAN /\ peer # "open"
  BY FlagType DEF ClientIInv, ClientTypeOK, RecvClosed
<1> QED BY <1>1, FailStep DEF RecvClosed

\* Without a limit the socket blocks while the head is read.
LEMMA RecvWouldBlockStep == ClientIInv /\ RecvWouldBlock => ClientIInv'
<1> SUFFICES ASSUME ClientIInv, RecvWouldBlock PROVE ClientIInv'
  OBVIOUS
<1>1. nonblock' \in BOOLEAN
  BY FlagType DEF ClientIInv, RecvWouldBlock
<1>2. ~(m_timeout = 0 /\ at = "head")
  BY DEF ClientIInv, Flag, RecvWouldBlock
<1> QED BY <1>1, <1>2, FailStep DEF RecvWouldBlock

\* runcontinue goes on where run stopped.
LEMMA RunContinueStep == ClientIInv /\ RunContinue => ClientIInv'
<1> SUFFICES ASSUME ClientIInv, RunContinue PROVE ClientIInv'
  OBVIOUS
<1>1. Descriptors'
  BY FdsKept DEF ClientIInv, RunContinue
<1>2. ClientTypeOK'
  BY FlagType DEF ClientIInv, ClientTypeOK, RunContinue, fds, net
<1>3. Parts' /\ Calls' /\ ZeroIsWhole' /\ HeadIsAwaited' /\ Flag'
  BY DEF ClientIInv, RunContinue, fds, net, Parts, Whole, Calls, ZeroIsWhole, HeadIsAwaited, Flag
<1> QED BY <1>1, <1>2, <1>3 DEF ClientIInv

\* What the server does.
LEMMA PeerStep == ClientIInv /\ (PeerSends \/ PeerCloses) => ClientIInv'
<1>1. ASSUME ClientIInv, PeerSends PROVE ClientIInv'
  <2>1. PICK n \in 1..owed : owed' = owed - n /\ inbox' = inbox + n
    BY <1>1 DEF PeerSends
  <2>2. owed > 0 /\ UNCHANGED <<m_timeout, fds, nonblock, at, nLen, recved, peer, result>>
    BY <1>1 DEF PeerSends
  <2>3. inbox' \in 0..(1 + BodyLen) /\ owed' \in 0..(1 + BodyLen) /\ Parts'
    BY <1>1, <2>1, <2>2, BodyLenAssumption DEF ClientIInv, ClientTypeOK, Parts, Whole
  <2>4. ClientTypeOK'
    BY <1>1, <2>2, <2>3 DEF ClientIInv, ClientTypeOK, fds
  <2>5. ~Unused /\ Descriptors'
    BY <1>1, <2>2, FdsKept DEF ClientIInv, ClientTypeOK, Unused
  <2>6. Calls'
    BY <1>1, <2>2, <2>5 DEF ClientIInv, fds, Calls
  <2>7. ZeroIsWhole' /\ HeadIsAwaited' /\ Flag'
    BY <1>1, <2>2 DEF ClientIInv, ZeroIsWhole, Whole, HeadIsAwaited, Flag
  <2> QED BY <2>3, <2>4, <2>5, <2>6, <2>7 DEF ClientIInv
<1>2. ASSUME ClientIInv, PeerCloses PROVE ClientIInv'
  <2>1. ClientTypeOK' /\ Parts' /\ Descriptors'
    BY <1>2, FdsKept DEF ClientIInv, ClientTypeOK, Parts, Whole, PeerCloses, fds
  <2>2. Calls'
    BY <1>2 DEF ClientIInv, PeerCloses, fds, Calls, Unused
  <2>3. ZeroIsWhole' /\ HeadIsAwaited' /\ Flag'
    BY <1>2 DEF ClientIInv, PeerCloses, ZeroIsWhole, Whole, HeadIsAwaited, Flag
  <2> QED BY <2>1, <2>2, <2>3 DEF ClientIInv
<1> QED BY <1>1, <1>2

\* Nothing happens.
LEMMA ClientStutter == ClientIInv /\ UNCHANGED clientVars => ClientIInv'
<1> SUFFICES ASSUME ClientIInv, UNCHANGED clientVars PROVE ClientIInv'
  OBVIOUS
<1>1. ClientTypeOK' /\ Parts' /\ Descriptors'
  BY DEF ClientIInv, ClientTypeOK, Parts, Whole, Descriptors, LosesAtMostOnePerBind, clientVars
<1>2. Calls'
  BY DEF ClientIInv, Calls, Unused, clientVars
<1>3. ZeroIsWhole' /\ HeadIsAwaited' /\ Flag'
  BY DEF ClientIInv, ZeroIsWhole, Whole, HeadIsAwaited, Flag, clientVars
<1> QED BY <1>1, <1>2, <1>3 DEF ClientIInv

(* The inductive invariant of the client holds of every behaviour.          *)
THEOREM ClientInvariance == ClientSpec => []ClientIInv
<1>1. ClientIInv /\ [ClientNext]_clientVars => ClientIInv'
  BY ConnectUnboundStep, ConnectBoundStep, CloseStep, RunStep, SendStep, RecvStep,
     RecvClosedStep, RecvWouldBlockStep, RunContinueStep, PeerStep, ClientStutter
     DEF ClientNext, Client
<1> QED BY ClientInitIInv, <1>1, PTL DEF ClientSpec

(* The variables of CAstClient and its socket keep their types.             *)
THEOREM ClientTypes == ClientSpec => []ClientTypeOK
<1>1. ClientIInv => ClientTypeOK
  BY DEF ClientIInv
<1> QED BY <1>1, ClientInvariance, PTL

(* run and runcontinue return 0 for a whole answer only, however many       *)
(* pieces it came in.                                                       *)
THEOREM AnswersAreWhole == ClientSpec => []ZeroIsWhole
<1>1. ClientIInv => ZeroIsWhole
  BY DEF ClientIInv
<1> QED BY <1>1, ClientInvariance, PTL

(* Without a limit, the two calls of setblocking(-1) before the head is     *)
(* read cancel out: run gives up on the head only after the server closed.  *)
THEOREM UntimedHeadIsAwaited == ClientSpec => []HeadIsAwaited
<1>1. ClientIInv => HeadIsAwaited
  BY DEF ClientIInv
<1> QED BY <1>1, ClientInvariance, PTL

(* No more descriptors stay open than the one in use and one for each       *)
(* connect(true), for any number of attempts, failures and closes.          *)
THEOREM OneDescriptorPerBind == ClientSpec => []LosesAtMostOnePerBind
<1>1. ClientIInv => LosesAtMostOnePerBind
  BY DEF ClientIInv, Descriptors
<1> QED BY <1>1, ClientInvariance, PTL
=============================================================================
