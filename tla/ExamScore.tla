----------------------------- MODULE ExamScore -----------------------------
(***************************************************************************)
(* CTaskExam of src/public/astTask: items are inserted, FinishInit weighs  *)
(* them, and the health check walks them with Begin, GetCurrent and Next.  *)
(***************************************************************************)
EXTENDS ExamPercent

CONSTANT MaxItems  \* bound on the items of a check, for TLC

ASSUME MaxItemsAssumption == MaxItems \in Nat

VARIABLES m_CheckItemList,  \* the items
          m_iCurrent,       \* the cursor, as an index; Len + 1 is end()
          weighed,          \* FinishInit has run since the last InsertItem
          walked            \* history: the items GetCurrent gave since Begin

examVars == <<m_CheckItemList, m_iCurrent, weighed, walked>>

Item == [score : Scores, percent : Undefined..100]

ExamTypeOK == /\ m_CheckItemList \in Seq(Item)
              /\ Len(m_CheckItemList) <= MaxItems
              /\ m_iCurrent \in 1..(Len(m_CheckItemList) + 1)
              /\ weighed \in BOOLEAN
              /\ walked \in Seq(1..MaxItems)

ExamInit == /\ m_CheckItemList = <<>>
            /\ m_iCurrent = 1
            /\ weighed = FALSE
            /\ walked = <<>>

(* The vector may move when it grows: a walk ends, and FinishInit or Begin  *)
(* sets the cursor again.                                                   *)
InsertItem(score) ==
  /\ Len(m_CheckItemList) < MaxItems
  /\ m_CheckItemList' = Append(m_CheckItemList, [score |-> score, percent |-> 0])
  /\ weighed' = FALSE
  /\ walked' = <<>>
  /\ UNCHANGED m_iCurrent

Weigh ==
  /\ m_CheckItemList' = FinishInit(m_CheckItemList)
  /\ m_iCurrent' = 1
  /\ weighed' = TRUE
  /\ walked' = <<>>

\* A Begin that goes on from where the cursor is.
BeginHere ==
  /\ walked' = IF m_iCurrent <= Len(m_CheckItemList) THEN <<m_iCurrent>> ELSE <<>>
  /\ UNCHANGED <<m_CheckItemList, m_iCurrent, weighed>>

(* Begin puts the cursor on the first item; it returns 1 for an empty list  *)
(* and the caller does not use the cursor.                                  *)
Begin ==
  /\ m_iCurrent' = 1
  /\ walked' = IF m_CheckItemList = <<>> THEN <<>> ELSE <<1>>
  /\ UNCHANGED <<m_CheckItemList, weighed>>

(* Next: the cursor moves unless it is at end(), and 1 is returned when it  *)
(* is there.                                                                *)
NextItem ==
  LET moved == IF m_iCurrent <= Len(m_CheckItemList) THEN m_iCurrent + 1 ELSE m_iCurrent
  IN /\ walked # <<>>
     /\ m_iCurrent' = moved
     /\ walked' = IF moved <= Len(m_CheckItemList) THEN Append(walked, moved) ELSE walked
     /\ UNCHANGED <<m_CheckItemList, weighed>>

ExamNext == \/ \E score \in Scores : InsertItem(score)
            \/ Weigh
            \/ Begin
            \/ NextItem

ExamSpec == ExamInit /\ [][ExamNext]_examVars

-----------------------------------------------------------------------------
Finished == weighed /\ TotalScore(m_CheckItemList) > 0

(* "总和不是100分，调整最大分值的项": after FinishInit the percents add up to   *)
(* 100, however the shares were truncated and raised.                       *)
SumIs100 ==
  Finished => Total([i \in DOMAIN m_CheckItemList |-> m_CheckItemList[i].percent]) = 100

(* The adjustment never moves an item further from its exact share than the *)
(* truncation and one point: an item keeps the weight its score gives it.   *)
NearExact ==
  Finished => \A i \in DOMAIN m_CheckItemList :
     LET item == m_CheckItemList[i]
         total == TotalScore(m_CheckItemList)
         error == item.percent * total - item.score * 100
     IN -2 * total < error /\ error < 2 * total

(* A walk that reached end() gave every item exactly once, in order.        *)
WalkIsComplete ==
  walked # <<>> /\ m_iCurrent = Len(m_CheckItemList) + 1
    => walked = [i \in DOMAIN m_CheckItemList |-> i]
=============================================================================
