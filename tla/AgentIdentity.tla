--------------------------- MODULE AgentIdentity ----------------------------
(***************************************************************************)
(* What registration promises: the identity of an agent, a pair of agent   *)
(* id and key, is one the server issued as a pair, in memory and in the    *)
(* configuration file alike; a pair is never mixed from two registrations, *)
(* whatever crashes, failed writes and lost answers come in between.       *)
(***************************************************************************)
CONSTANTS Pairs,  \* agent ids with their keys
          None    \* no identity

VARIABLES issued,  \* the pairs the server has given out
          mem,     \* the identity the running agent works under
          disk     \* the identity its configuration file would load as

vars == <<issued, mem, disk>>

Init == issued = {} /\ mem = None /\ disk = None

Issue == \E p \in Pairs : issued' = issued \cup {p} /\ UNCHANGED <<mem, disk>>

\* A registration has ended its first phase.
Adopt == mem' \in issued /\ UNCHANGED <<issued, disk>>

Load == mem = None /\ disk # None /\ mem' = disk /\ UNCHANGED <<issued, disk>>

Restart == mem' = None /\ UNCHANGED <<issued, disk>>

\* A save in progress makes the file unreadable, then readable again.
Save == mem # None /\ disk' \in issued \cup {None} /\ UNCHANGED <<issued, mem>>

Next == Issue \/ Adopt \/ Load \/ Restart \/ Save

Spec == Init /\ [][Next]_vars
=============================================================================
