---------------------------- MODULE ExamPercent ----------------------------
(***************************************************************************)
(* CTaskExam::FinishInit of src/public/astTask/astTask.cpp: the scores of  *)
(* a health check's items become percents that add up to 100.  An item is  *)
(* a record with the fields score and percent.                             *)
(*                                                                         *)
(* The code divides doubles and truncates; for int scores that is the      *)
(* integer quotient.  Items whose scores are all 0 divide 0.0 by 0.0 and   *)
(* convert the result to int, which C++ does not define; their percents    *)
(* are Undefined here, a value that no property relies on, and so are the  *)
(* percents of a total below 0, which no weights have.                     *)
(***************************************************************************)
EXTENDS Integers, Sequences, SequencesExt

CONSTANT Scores  \* scores an item may have

ASSUME ScoresAssumption == Scores \subseteq Nat  \* "权重分数": a score is a weight

Total(numbers) == FoldLeft(+, 0, numbers)

TotalScore(items) == Total([i \in DOMAIN items |-> items[i].score])

Undefined == -1

\* A share that truncates to 0 is raised to 1.
Share(items, i) ==
  LET p == (items[i].score * 100) \div TotalScore(items)
  IN IF p = 0 THEN 1 ELSE p

\* The place of an item in vmax: highest scores first, earlier items first.
Rank(items, i) ==
  Cardinality({j \in DOMAIN items : \/ items[j].score > items[i].score
                                    \/ items[j].score = items[i].score /\ j < i})

\* Adjustments that stop one item early, or put everything on the first item.
ShortOfOne(items) ==
  LET nPad == 100 - Total([i \in DOMAIN items |-> Share(items, i)])
      nLoop == IF nPad < 0 THEN -nPad ELSE nPad
      pad(i) == IF Rank(items, i) >= nLoop - 1 THEN 0 ELSE IF nPad < 0 THEN -1 ELSE 1
  IN [i \in DOMAIN items |-> [items[i] EXCEPT !.percent =
        IF TotalScore(items) <= 0 THEN Undefined ELSE Share(items, i) + pad(i)]]

AllOnFirst(items) ==
  LET nPad == 100 - Total([i \in DOMAIN items |-> Share(items, i)])
  IN [i \in DOMAIN items |-> [items[i] EXCEPT !.percent =
        IF TotalScore(items) <= 0 THEN Undefined
        ELSE Share(items, i) + (IF Rank(items, i) = 0 THEN nPad ELSE 0)]]

\* The |nPad| first items in that order are moved by one towards the sum 100.
FinishInit(items) ==
  LET nPad == 100 - Total([i \in DOMAIN items |-> Share(items, i)])
      nLoop == IF nPad < 0 THEN -nPad ELSE nPad
      pad(i) == IF Rank(items, i) >= nLoop THEN 0 ELSE IF nPad < 0 THEN -1 ELSE 1
  IN [i \in DOMAIN items |->
        [items[i] EXCEPT !.percent =
           IF TotalScore(items) <= 0 THEN Undefined ELSE Share(items, i) + pad(i)]]
=============================================================================
