------------------------------ MODULE TaskHead ------------------------------
(***************************************************************************)
(* TASKHEAD of src/public/astTask/astTask.h: a task record that shares one *)
(* heap block `atpr' with its copies.  The block holds a reference count   *)
(* `ref' and the task object; whoever brings the count to 0 deletes both.  *)
(*                                                                         *)
(* A head is a C++ object: it is dead before its constructor and after its *)
(* destructor.  Every operation is one action here, which is what a single *)
(* thread sees.                                                            *)
(***************************************************************************)
EXTENDS Integers, FiniteSets

CONSTANTS Heads,   \* the TASKHEAD objects (locals, vector elements)
          Blocks,  \* the addresses `new _atpr' may return
          None     \* the atpr of a head that is not constructed

ASSUME HeadsFinite == IsFiniteSet(Heads)
ASSUME NoneAssumption == None \notin Blocks

VARIABLES atpr,  \* the block a constructed head points to, else None
          ref,   \* the count stored in each block
          heap   \* the blocks that are allocated

headVars == <<atpr, ref, heap>>

HeadTypeOK == /\ atpr \in [Heads -> Blocks \cup {None}]
              /\ ref \in [Blocks -> Nat]
              /\ heap \subseteq Blocks

Live(h) == atpr[h] # None

\* The heads that point to block p: what the count is meant to count.
Owners(p) == {h \in Heads : atpr[h] = p}

HeadInit == /\ atpr = [h \in Heads |-> None]
            /\ ref = [p \in Blocks |-> 0]
            /\ heap = {}

-----------------------------------------------------------------------------
(* taskhead() and taskhead(tid, cycle, type): a fresh block with ref = 1.   *)
Construct(h) == /\ ~Live(h)
                /\ \E p \in Blocks \ heap :
                      /\ heap' = heap \cup {p}
                      /\ ref' = [ref EXCEPT ![p] = 1]
                      /\ atpr' = [atpr EXCEPT ![h] = p]

\* A copy constructor that forgets to count itself.
CopyUncounted(h, old) == /\ ~Live(h)
                         /\ Live(old)
                         /\ atpr' = [atpr EXCEPT ![h] = atpr[old]]
                         /\ UNCHANGED <<ref, heap>>

(* taskhead(const taskhead &old): share old's block.                        *)
CopyConstruct(h, old) == /\ ~Live(h)
                         /\ Live(old)
                         /\ atpr' = [atpr EXCEPT ![h] = atpr[old]]
                         /\ ref' = [ref EXCEPT ![atpr[old]] = @ + 1]
                         /\ UNCHANGED heap

\* A destructor that compares with 1 instead of 0.
DestroyEarly(h) == LET p == atpr[h] IN
                   /\ Live(h)
                   /\ ref' = [ref EXCEPT ![p] = IF @ - 1 < 0 THEN 0 ELSE @ - 1]
                   /\ heap' = IF ref[p] - 1 <= 1 THEN heap \ {p} ELSE heap
                   /\ atpr' = [atpr EXCEPT ![h] = None]

(* ~taskhead(): a negative count is clamped to 0, a count <= 0 frees.       *)
Destroy(h) == LET p == atpr[h] IN
              /\ Live(h)
              /\ ref' = [ref EXCEPT ![p] = IF @ - 1 < 0 THEN 0 ELSE @ - 1]
              /\ heap' = IF ref[p] - 1 <= 0 THEN heap \ {p} ELSE heap
              /\ atpr' = [atpr EXCEPT ![h] = None]

\* An assignment that forgets to delete the old block.
AssignKeeping(h, old) == /\ h # old
                         /\ Live(h)
                         /\ Live(old)
                         /\ ref' = [[ref EXCEPT ![atpr[h]] = @ - 1] EXCEPT ![atpr[old]] = @ + 1]
                         /\ atpr' = [atpr EXCEPT ![h] = atpr[old]]
                         /\ UNCHANGED heap

(* operator=: release the old link, then share old's block.  vector's erase *)
(* and insert only ever assign between two different elements.              *)
Assign(h, old) == LET p == atpr[h]
                      q == atpr[old]
                      released == [ref EXCEPT ![p] = @ - 1]
                  IN /\ h # old
                     /\ Live(h)
                     /\ Live(old)
                     /\ heap' = IF released[p] <= 0 THEN heap \ {p} ELSE heap
                     /\ ref' = [released EXCEPT ![q] = @ + 1]
                     /\ atpr' = [atpr EXCEPT ![h] = q]

HeadNext == \E h \in Heads :
           \/ Construct(h)
           \/ Destroy(h)
           \/ \E old \in Heads : CopyConstruct(h, old) \/ Assign(h, old)

HeadSpec == HeadInit /\ [][HeadNext]_headVars

-----------------------------------------------------------------------------
(* The comment "task 引用计数" on `ref': the stored count is the number of   *)
(* heads that share the block, after any mix of copies, assignments and     *)
(* destructions.                                                            *)
CountExact == \A p \in heap : ref[p] = Cardinality(Owners(p))

(* No head is left pointing to a deleted block.                             *)
NoDangling == \A h \in Heads : Live(h) => atpr[h] \in heap

(* A block is deleted with its last head: none is leaked.                   *)
NoLeak == \A p \in heap : Owners(p) # {}
=============================================================================
