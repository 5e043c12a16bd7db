----------------------------- MODULE MCTaskFile -----------------------------
EXTENDS TaskFile

CONSTANT txt

MCText == <<Word("name", txt)>>

MCFull == [name |-> MCText, path |-> MCText, desc |-> <<>>, score |-> 1, method |-> MCText,
           percent |-> 0, type |-> 2, methodValue |-> MCText]

\* An item without a name, whose last line is empty too, and one that does not fit.
MCBare == [MCFull EXCEPT !.name = <<>>, !.methodValue = <<>>]

MCLong == [MCFull EXCEPT !.desc = <<Word("long", txt)>>]

MCChecks == {<<>>, <<MCFull, MCBare>>, <<MCBare, MCFull>>, <<MCFull, MCLong>>}

\* TLC loads every file; behind it, it follows the agent only where the lines were
\* in place, and with damaged items only when they are all it has.
MCInPlace ==
  phase \in {"loaded", "loadedCut"} =>
    /\ \A t \in ToSet(saved) : ~Stamped(t) /\ Readable(t) /\ Fits(t)
    /\ \A t \in ToSet(m_TaskList) : t \in ToSet(saved) \/ Len(m_TaskList) = 1

MCSymmetry == Permutations(Tids)
=============================================================================
