------------------------------- MODULE Removal --------------------------------
(***************************************************************************)
(* What a page with bins promises its user, whatever calls and dialogs it  *)
(* is made of: rows are entered once, under an id that none had before, go *)
(* one at a time, only after the user agreed to it, and never come back.   *)
(***************************************************************************)
CONSTANT Ids

VARIABLES
    rows,    \* the rows that are there
    used,    \* those that ever were
    agreed   \* those the user agreed to remove

vars == <<rows, used, agreed>>

Init ==
    /\ rows \in SUBSET Ids
    /\ used = rows
    /\ agreed = {}

Enter(x) ==
    /\ x \in Ids \ used
    /\ rows' = rows \cup {x} /\ used' = used \cup {x}
    /\ UNCHANGED agreed

\* Of rows that were seen; they may have gone meanwhile.
Agree(seen) ==
    /\ agreed' = agreed \cup seen
    /\ UNCHANGED <<rows, used>>

Remove(x) ==
    /\ x \in rows \cap agreed
    /\ rows' = rows \ {x}
    /\ UNCHANGED <<used, agreed>>

Next ==
    \/ \E x \in Ids : Enter(x) \/ Remove(x)
    \/ \E seen \in SUBSET used : Agree(seen)

Spec == Init /\ [][Next]_vars
=============================================================================
