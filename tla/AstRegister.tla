---------------------------- MODULE AstRegister -----------------------------
(***************************************************************************)
(* Registration of an agent: astServerCtrl::RegAst with RegFinish and      *)
(* RegAck (src/public/astPackage/astserverctrl.cpp), the identity kept by  *)
(* astPackage (InitReg, LoadConf, SaveConf of astpackage.cpp) and its file *)
(* (astConfig::write_profile_string).                                      *)
(*                                                                         *)
(* RegAst speaks to the server twice.  The answer to the first request     *)
(* carries an agent id and a key, encrypted; InitReg checks the key's MAC  *)
(* and adopts both.  The second request proves possession of the key.      *)
(* SaveConf rewrites the file once per value: agentid, uuid, mac over all  *)
(* three, ka encrypted under the uuid.  Each rewrite first truncates the   *)
(* file, may fail, and is not looked at; the process may die anywhere.     *)
(*                                                                         *)
(* m_UUID is whatever 64 bytes the object was made in, up to the first 0.  *)
(* SaveConf writes, hashes and encrypts under all of it; LoadConf keeps    *)
(* the first 40 characters of the line it finds.  ReadBack stands for      *)
(* that: a uuid of at most 40 characters that is one line is read back as  *)
(* it is, a longer one is cut, an empty one may not be found (None).       *)
(*                                                                         *)
(* Encryption and MAC are symbolic: a ciphertext is the key it carries     *)
(* with the id it is under, a MAC is what it covers.  The server, and the  *)
(* program that calls LoadConf, RegAst and SaveConf, are not in the        *)
(* repository: the caller loads when it starts, registers, and saves an    *)
(* identity it has; m_bInit stands for the first and the last of these in  *)
(* the guards, though neither LoadConf nor SaveConf looks at it.           *)
(***************************************************************************)
EXTENDS Integers

CONSTANTS Pairs,    \* what the server may issue: <<agent id, key>>
          Uuids,    \* contents of m_UUID, which the constructor leaves unset
          ReadBack, \* what LoadConf reads of a uuid that SaveConf wrote
          Ips,      \* addresses the host may have
          None      \* a value that is not there

Ids == {p[1] : p \in Pairs}
Keys == {p[2] : p \in Pairs}

ASSUME PairsAssumption == \A p \in Pairs : p = <<p[1], p[2]>>
ASSUME AnswerAssumption == {"refused", "accepted"} \cap Pairs = {}
ASSUME ReadBackAssumption == ReadBack \in [Uuids -> Uuids \cup {None}]
ASSUME NoneAssumption == None \notin Pairs \cup Ids \cup Keys \cup Uuids \cup Ips

VARIABLES
  m_bInit, m_AgentID, m_KA, m_UUID,  \* astPackage
  file,      \* the SECRETKEY section of the configuration file
  wbuf,      \* the text of the rewrite that has truncated the file, or None
  saving,    \* the value SaveConf writes next
  clean,     \* history: no rewrite of this SaveConf has failed
  pc, ret,   \* where RegAst is, and what it returned
  answer,    \* what the server answered to the request under way
  issued, accepted,    \* the server: pairs given out, pairs proved in phase two
  hostIp,              \* the address of the host
  m_qsCurrentIp, devIp, \* m_qsCurrentIp, and m_stDevInfo.ipmac
  srcIp, msgIp         \* local to RegAst: of its last connection; in its second request

pkg == <<m_bInit, m_AgentID, m_KA, m_UUID>>
disk == <<file, wbuf, saving, clean>>
server == <<issued, accepted>>
addr == <<m_qsCurrentIp, devIp>>
ips == <<addr, srcIp, msgIp>>
vars == <<pkg, disk, pc, ret, answer, server, hostIp, ips>>

Fields == {"agentid", "uuid", "mac", "ka"}
Empty == [f \in Fields |-> None]

Mac(uuid, id, key) == [over |-> <<uuid, id, key>>]
EncryptByID(key, uuid) == [cipher |-> key, under |-> uuid]

FileType == [agentid : Ids \cup {None}, uuid : Uuids \cup {None},
             mac : [over : Uuids \X Ids \X Keys] \cup {None},
             ka : [cipher : Keys, under : Uuids] \cup {None}]

ASSUME AbsentAssumption ==
  None \notin Fields \cup FileType \cup [over : Uuids \X Ids \X Keys] \cup [cipher : Keys, under : Uuids]

TypeOK ==
  /\ m_bInit \in BOOLEAN
  /\ m_AgentID \in Ids \cup {None} /\ m_KA \in Keys \cup {None} /\ m_UUID \in Uuids
  /\ file \in FileType /\ wbuf \in FileType \cup {None}
  /\ saving \in Fields \cup {None} /\ clean \in BOOLEAN
  /\ pc \in {"idle", "connect1", "wait1", "connect2", "wait2", "save"}
  /\ ret \in {None, 0, 1, 2, 3, 4, 5, 6, 10, 30}
  /\ answer \in Pairs \cup {None, "refused", "accepted"}
  /\ issued \subseteq Pairs /\ accepted \subseteq Pairs
  /\ hostIp \in Ips
  /\ {m_qsCurrentIp, devIp, srcIp, msgIp} \subseteq Ips \cup {None}

\* A process that has just started, over whatever file the last one left.
Fresh == /\ m_bInit' = TRUE /\ m_AgentID' = None /\ m_KA' = None /\ m_UUID' \in Uuids
         /\ wbuf' = None /\ saving' = None /\ clean' = FALSE
         /\ pc' = "idle" /\ ret' = None /\ answer' = None
         /\ m_qsCurrentIp' = None /\ devIp' = None /\ srcIp' = None /\ msgIp' = None

Init == /\ m_bInit = TRUE /\ m_AgentID = None /\ m_KA = None /\ m_UUID \in Uuids
        /\ file = Empty /\ wbuf = None /\ saving = None /\ clean = FALSE
        /\ pc = "idle" /\ ret = None /\ answer = None
        /\ issued = {} /\ accepted = {}
        /\ hostIp \in Ips
        /\ m_qsCurrentIp = None /\ devIp = None /\ srcIp = None /\ msgIp = None

-----------------------------------------------------------------------------
(* RegAst.                                                                 *)

\* close() and return.
Return(r) == pc' = "idle" /\ ret' = r /\ answer' = None /\ srcIp' = None /\ msgIp' = None

\* m_qsCurrentIp after TryConnect, which learns the address when it connects.
TryConnect == {m_qsCurrentIp, hostIp}

\* GetDevInfo looks for the interface of m_qsCurrentIp, and keeps the old
\* record when there is none.
GetDevInfo(ip) == IF ip = hostIp THEN hostIp ELSE devIp

\* The addresses are looked up, and the first request is built.
RegAst ==
  /\ pc = "idle"
  /\ m_qsCurrentIp' \in TryConnect
  /\ devIp' = GetDevInfo(m_qsCurrentIp')
  /\ \/ pc' = "connect1" /\ UNCHANGED <<ret, answer, srcIp, msgIp>>
     \/ Return(1)   \* PutData: the request does not fit cbuf
  /\ UNCHANGED <<pkg, disk, server, hostIp>>

\* A caller that does not take the new address over.
ConnectKeepsIp(from, to) ==
  /\ pc = from /\ pc' = to
  /\ srcIp' = hostIp
  /\ UNCHANGED <<pkg, disk, ret, answer, server, hostIp, m_qsCurrentIp, devIp, msgIp>>

(* CAstClient::connect(true): binding to an address the host has lost       *)
(* fails, and the connection is made again unbound; the caller then takes   *)
(* the new address over and calls GetDevInfo.  An attempt from the right    *)
(* address may fail and be made again, too.                                 *)
Connect(from, to) ==
  /\ pc = from /\ pc' = to
  /\ srcIp' = hostIp
  /\ m_qsCurrentIp' = hostIp
  /\ devIp' \in IF m_qsCurrentIp = hostIp THEN {devIp, GetDevInfo(hostIp)} ELSE {GetDevInfo(hostIp)}
  /\ UNCHANGED <<pkg, disk, ret, answer, server, hostIp, msgIp>>

\* connect or run fails; the server may have seen the request or not.
GiveUp(from, r) ==
  /\ pc = from
  /\ Return(r)
  /\ UNCHANGED <<pkg, disk, server, hostIp, addr>>

\* An InitReg that stores the id before the key's MAC has been compared, and
\* one that stores the answer undecoded.
RegFinishEarly ==
  /\ pc = "wait1" /\ answer # None
  /\ IF answer \in Pairs
     THEN /\ m_AgentID' = answer[1]
          /\ \/ /\ m_KA' = answer[2] /\ m_bInit' = FALSE
                /\ pc' = "connect2" /\ msgIp' = m_qsCurrentIp /\ answer' = None
                /\ UNCHANGED <<ret, srcIp>>
             \/ Return(10) /\ UNCHANGED <<m_KA, m_bInit>>
     ELSE Return(10) /\ UNCHANGED <<m_bInit, m_AgentID, m_KA>>
  /\ UNCHANGED <<m_UUID, disk, server, hostIp, addr>>

RegFinishRaw ==
  /\ pc = "wait1" /\ answer # None
  /\ \/ /\ answer \in Pairs
        /\ m_AgentID' = answer /\ m_KA' = answer[2] /\ m_bInit' = FALSE
        /\ pc' = "connect2" /\ msgIp' = m_qsCurrentIp /\ answer' = None
        /\ UNCHANGED <<ret, srcIp>>
     \/ Return(10) /\ UNCHANGED <<m_bInit, m_AgentID, m_KA>>
  /\ UNCHANGED <<m_UUID, disk, server, hostIp, addr>>

\* InitReg behind its checks, and the construction of the second request.
InitReg(aid, ka) == m_AgentID' = aid /\ m_KA' = ka /\ m_bInit' = FALSE

SecondRequest == /\ pc' = "connect2" /\ msgIp' = m_qsCurrentIp /\ answer' = None
                 /\ UNCHANGED <<ret, srcIp>>

(* RegFinish with InitReg: a damaged or refused answer changes nothing; a   *)
(* good one is adopted, and the second request is built under the new key.  *)
RegFinish ==
  /\ pc = "wait1" /\ answer # None
  /\ \/ /\ answer \in Pairs
        /\ InitReg(answer[1], answer[2])
        /\ SecondRequest
     \/ Return(10) /\ UNCHANGED <<m_bInit, m_AgentID, m_KA>>
  /\ UNCHANGED <<m_UUID, disk, server, hostIp, addr>>

\* PutData of the second request fails.
Request2TooLong == /\ pc = "connect2" /\ Return(4)
                   /\ UNCHANGED <<pkg, disk, server, hostIp, addr>>

(* RegAck has no body and no return statement: its value is whatever the    *)
(* build leaves, and the answer is not looked at.                           *)
RegAck ==
  /\ pc = "wait2" /\ answer # None
  /\ \E r \in {0, 30} : Return(r)
  /\ UNCHANGED <<pkg, disk, server, hostIp, addr>>

-----------------------------------------------------------------------------
(* The server.                                                             *)

Grant(p) ==
  /\ pc = "wait1" /\ answer = None
  /\ p \in Pairs \ issued
  /\ issued' = issued \cup {p}
  /\ answer' = p
  /\ UNCHANGED <<pkg, disk, pc, ret, accepted, hostIp, ips>>

Refuse ==
  /\ pc \in {"wait1", "wait2"} /\ answer = None
  /\ answer' = "refused"
  /\ UNCHANGED <<pkg, disk, pc, ret, server, hostIp, ips>>

\* regck is the MAC of the agent id under the key of the pair.
Accept ==
  /\ pc = "wait2" /\ answer = None
  /\ <<m_AgentID, m_KA>> \in issued
  /\ accepted' = accepted \cup {<<m_AgentID, m_KA>>}
  /\ answer' = "accepted"
  /\ UNCHANGED <<pkg, disk, pc, ret, issued, hostIp, ips>>

-----------------------------------------------------------------------------
(* LoadConf and SaveConf.                                                  *)

\* The uuid LoadConf takes from a file: m_UUID behind the strncpy.
Uuid(f) == IF f.uuid = None THEN None ELSE ReadBack[f.uuid]

\* A LoadConf that does not compare the MAC.
AcceptedUnmaced(f) ==
  /\ \A x \in Fields : f[x] # None
  /\ Uuid(f) # None
  /\ f.ka.under = Uuid(f)

(* The checks of LoadConf in their order: every value is there, ka decrypts *)
(* under the uuid, the MAC covers all three.                                *)
Accepted(f) ==
  /\ \A x \in Fields : f[x] # None
  /\ Uuid(f) # None
  /\ f.ka.under = Uuid(f)
  /\ f.mac = Mac(Uuid(f), f.agentid, f.ka.cipher)

LoadsAs(f) == IF Accepted(f) THEN <<f.agentid, f.ka.cipher>> ELSE None

\* A LoadConf that clears m_bInit before its checks.
LoadConfEarly ==
  /\ pc = "idle" /\ m_bInit
  /\ file.agentid # None
  /\ m_AgentID' = file.agentid /\ m_bInit' = FALSE
  /\ UNCHANGED <<m_UUID, m_KA, disk, pc, ret, answer, server, hostIp, ips>>

(* Called when the process has started.  A failing LoadConf has overwritten *)
(* m_AgentID, and m_UUID when it is there, but m_bInit stays set.           *)
LoadConf ==
  /\ pc = "idle" /\ m_bInit
  /\ m_AgentID' = IF file.agentid = None THEN m_AgentID ELSE file.agentid
  /\ m_UUID' = IF file.agentid = None \/ Uuid(file) = None THEN m_UUID ELSE Uuid(file)
  /\ IF Accepted(file)
     THEN m_KA' = file.ka.cipher /\ m_bInit' = FALSE
     ELSE UNCHANGED <<m_KA, m_bInit>>
  /\ UNCHANGED <<disk, pc, ret, answer, server, hostIp, ips>>

SaveConf ==
  /\ pc = "idle" /\ ~m_bInit
  /\ pc' = "save" /\ saving' = "agentid" /\ clean' = TRUE
  /\ UNCHANGED <<pkg, file, wbuf, ret, answer, server, hostIp, ips>>

\* A SaveConf that computes the MAC over the key the file still has.
ValueStale(f) == CASE f = "agentid" -> m_AgentID
                   [] f = "uuid" -> m_UUID
                   [] f = "mac" -> Mac(m_UUID, m_AgentID,
                                       IF file.ka = None THEN m_KA ELSE file.ka.cipher)
                   [] f = "ka" -> EncryptByID(m_KA, m_UUID)

\* The value SaveConf writes for a field, from what it has in memory.
Value(f) == CASE f = "agentid" -> m_AgentID
              [] f = "uuid" -> m_UUID
              [] f = "mac" -> Mac(m_UUID, m_AgentID, m_KA)
              [] f = "ka" -> EncryptByID(m_KA, m_UUID)

After(f) == CASE f = "agentid" -> "uuid" [] f = "uuid" -> "mac" [] f = "mac" -> "ka" [] f = "ka" -> None

SaveNext == /\ saving' = After(saving)
            /\ pc' = IF After(saving) = None THEN "idle" ELSE "save"

(* write_profile_string: the text is put together from the file as it is,   *)
(* then fopen(..., "w") truncates the file.                                 *)
OpenFile ==
  /\ pc = "save" /\ wbuf = None
  /\ wbuf' = [file EXCEPT ![saving] = Value(saving)]
  /\ file' = Empty
  /\ UNCHANGED <<pkg, saving, clean, pc, ret, answer, server, hostIp, ips>>

OpenFails ==
  /\ pc = "save" /\ wbuf = None
  /\ SaveNext
  /\ clean' = FALSE
  /\ UNCHANGED <<pkg, file, wbuf, ret, answer, server, hostIp, ips>>

\* fputs and fclose: the text is written, or the disk is full.
PutFile ==
  /\ pc = "save" /\ wbuf # None
  /\ \/ file' = wbuf /\ UNCHANGED clean
     \/ clean' = FALSE /\ UNCHANGED file
  /\ wbuf' = None
  /\ SaveNext
  /\ UNCHANGED <<pkg, ret, answer, server, hostIp, ips>>

Crash == Fresh /\ UNCHANGED <<file, server, hostIp>>

HostMoves(ip) == /\ hostIp' = ip
                 /\ UNCHANGED <<pkg, disk, pc, ret, answer, server, ips>>

-----------------------------------------------------------------------------
Next ==
  \/ RegAst \/ Connect("connect1", "wait1") \/ GiveUp("connect1", 2) \/ GiveUp("wait1", 3)
  \/ RegFinish \/ Request2TooLong
  \/ Connect("connect2", "wait2") \/ GiveUp("connect2", 5) \/ GiveUp("wait2", 6) \/ RegAck
  \/ (\E p \in Pairs : Grant(p)) \/ Refuse \/ Accept
  \/ LoadConf \/ SaveConf \/ OpenFile \/ OpenFails \/ PutFile
  \/ Crash \/ (\E ip \in Ips : HostMoves(ip))

Spec == Init /\ [][Next]_vars

-----------------------------------------------------------------------------
(* Properties.                                                             *)

(* InitReg assigns the id and the key together, and LoadConf sets m_bInit   *)
(* only behind its last check: an agent that may send under its key works   *)
(* under a pair the server issued as a pair.                                *)
MemoryIsIssued == ~m_bInit => <<m_AgentID, m_KA>> \in issued

(* Four rewrites, each with a failing open, a truncation and a failing      *)
(* write, over the values of any earlier save, and a crash anywhere: what   *)
(* LoadConf accepts is still a pair that was issued as a pair.              *)
FileIsIssued == LoadsAs(file) \in issued \cup {None}

(* The second request names the address that the first connection really    *)
(* came from, however often the host moved before it.                       *)
ReportedIpIsSource == pc = "connect2" => msgIp = srcIp

(* A registration that fails before the server's pair has been checked      *)
(* leaves the identity the agent had (a process that dies has none).        *)
FailureKeepsIdentity ==
  [][(pc = "connect1" \/ pc = "wait1") /\ pc' = "idle" /\ ret' # None => pkg' = pkg]_vars

(* A SaveConf none of whose rewrites failed, under a uuid that is read back *)
(* as it was written (no premise in the code: m_UUID is never set), leaves  *)
(* a file that LoadConf accepts as the identity in memory, whatever was in  *)
(* the file before.                                                         *)
SaveThenLoad ==
  [][(pc = "save" /\ pc' = "idle" /\ clean' /\ ReadBack[m_UUID] = m_UUID)
       => LoadsAs(file') = <<m_AgentID, m_KA>>]_vars

Identity == INSTANCE AgentIdentity
              WITH mem <- IF m_bInit THEN None ELSE <<m_AgentID, m_KA>>,
                   disk <- LoadsAs(file)

(* Registration, load, save, crash and restart implement the identity that  *)
(* AgentIdentity specifies.                                                 *)
ImplementsIdentity == Identity!Spec

(* "完成应答处理": RegAck handles the answer to the second request, so that   *)
(* RegAst returns 0 for a pair the server has accepted.                     *)
ZeroIsAccepted == pc = "idle" /\ ret = 0 => <<m_AgentID, m_KA>> \in accepted
=============================================================================
