---------------------------- MODULE Transactions -----------------------------
(***************************************************************************)
(* One visit to src/frontend/src/pages/Transactions.jsx: rows that are     *)
(* checked and deleted together, or one by one with their bin.  The dialog *)
(* stays open until all the answers are there, so that it may be cancelled *)
(* or confirmed again meanwhile, and what a deletion does at its end, it   *)
(* does with the selection of the click that began it.                     *)
(***************************************************************************)
EXTENDS Api, FiniteSets

CONSTANT Income     \* the rows of type income; the others are expenses

ASSUME IncomeAssumption == Income \subseteq Ids

VARIABLES
    page,              \* "transactions" or "login"
    expenses, filter,
    selectedIds,
    deleteModalOpen, pendingDeleteId,
    waiting,           \* the runs of executeDelete that wait for their answers
    subject,           \* the row whose bin opened the dialog last; NoId: the selection
    meant,             \* the rows whose box the user last checked, and did not uncheck
    late,              \* those unchecked while a deletion was under way
    agreed             \* the rows the user said "Delete" of

dialogVars == <<deleteModalOpen, pendingDeleteId, subject>>
userVars == <<meant, late, agreed>>
vars == <<apiVars, page, expenses, filter, selectedIds, dialogVars, waiting, userVars>>

\* A run of executeDelete: its calls, their rows, and the selection to set.
Run == [calls : SUBSET Calls, ids : SUBSET Ids, kept : SUBSET Ids]

TypeOK ==
    /\ ApiTypeOK
    /\ page \in {"transactions", "login"}
    /\ deleteModalOpen \in BOOLEAN
    /\ filter \in {"all", "income", "expense"}
    /\ {expenses, selectedIds, meant, late, agreed} \subseteq SUBSET Ids
    /\ {pendingDeleteId, subject} \subseteq Ids \cup {NoId}
    /\ waiting \subseteq Run

Init ==
    /\ ApiInit
    /\ page = "transactions"
    /\ filter = "all" /\ deleteModalOpen = FALSE
    /\ pendingDeleteId = NoId /\ subject = NoId
    /\ expenses = {} /\ selectedIds = {} /\ waiting = {}
    /\ meant = {} /\ late = {} /\ agreed = {}

-----------------------------------------------------------------------------
(* The user.  The dialog covers the rest of the page. *)

FilteredExpenses ==
    {x \in expenses : filter = "all" \/ (filter = "income" <=> x \in Income)}

SetFilter(f) ==
    /\ ~deleteModalOpen
    /\ filter' = f
    /\ UNCHANGED <<apiVars, page, expenses, selectedIds, dialogVars, waiting, userVars>>

\* Boxes are set by hand.  What a click unchecks while a deletion is under way is
\* late: its end may check the box again.
Choose(selection, checks, unchecks) ==
    /\ ~deleteModalOpen
    /\ selectedIds' = selection
    /\ meant' = (meant \ unchecks) \cup checks
    /\ late' = (IF waiting = {} THEN late \ unchecks ELSE late \cup unchecks) \ checks
    /\ UNCHANGED <<apiVars, page, expenses, filter, dialogVars, waiting, agreed>>

SelectRow(x) ==
    /\ x \in FilteredExpenses
    /\ IF x \in selectedIds THEN Choose(selectedIds \ {x}, {}, {x})
                            ELSE Choose(selectedIds \cup {x}, {x}, {})

\* The box of the header compares numbers, not rows; unchecking it, and checking
\* it, replaces the whole selection.
SelectAll ==
    LET checked == /\ FilteredExpenses # {}
                   /\ Cardinality(selectedIds) = Cardinality(FilteredExpenses)
        chosen  == IF checked THEN {} ELSE FilteredExpenses
    IN  Choose(chosen, chosen, (meant \cup late) \ chosen)

HandleSingleDelete(x) ==
    /\ ~deleteModalOpen /\ x \in FilteredExpenses
    /\ pendingDeleteId' = x /\ deleteModalOpen' = TRUE /\ subject' = x
    /\ UNCHANGED <<apiVars, page, expenses, filter, selectedIds, waiting, userVars>>

\* Mutant: the row of the dialog before is still pending.
HandleBatchDeleteOfPending ==
    /\ ~deleteModalOpen /\ selectedIds # {}
    /\ deleteModalOpen' = TRUE /\ subject' = NoId
    /\ UNCHANGED <<apiVars, page, expenses, filter, selectedIds, pendingDeleteId,
                   waiting, userVars>>

\* "Delete Selected": the rows that the filter hides by now included.
HandleBatchDelete ==
    /\ ~deleteModalOpen /\ selectedIds # {}
    /\ pendingDeleteId' = NoId /\ deleteModalOpen' = TRUE /\ subject' = NoId
    /\ UNCHANGED <<apiVars, page, expenses, filter, selectedIds, waiting, userVars>>

Cancel ==
    /\ deleteModalOpen
    /\ deleteModalOpen' = FALSE
    /\ UNCHANGED <<apiVars, page, expenses, filter, selectedIds, pendingDeleteId, subject,
                   waiting, userVars>>

-----------------------------------------------------------------------------
(* executeDelete *)

FreeCall(c) == call[c] = NoCall

\* fetchExpenses, with call c.  Other tabs log in and out: when checkAuth finds no
\* token, the page is left.
FetchExpenses(calls, c) ==
    \/ call' = [calls EXCEPT ![c] = Sent("list", NoId)] /\ page' = page
    \/ call' = calls /\ page' = "login"

\* Mutant: the selection goes with the row of the bin.
TargetsOfBoth == (selectedIds \cup {pendingDeleteId}) \ {NoId}

Targets == IF pendingDeleteId # NoId THEN {pendingDeleteId} ELSE selectedIds
Kept    == IF pendingDeleteId # NoId THEN selectedIds \ {pendingDeleteId} ELSE {}

\* One fetch for each target, all at once.
SendDeletes ==
    \E cs \in SUBSET {c \in Calls : FreeCall(c)} : \E target \in [cs -> Targets] :
        /\ \A x \in Targets : \E c \in cs : target[c] = x
        /\ \A c, d \in cs : target[c] = target[d] => c = d
        /\ call' = [c \in Calls |-> IF c \in cs THEN Sent("delete", target[c]) ELSE call[c]]
        /\ waiting' = waiting \cup {[calls |-> cs, ids |-> Targets, kept |-> Kept]}

\* "Delete"; there is something to delete, see SelectionInv.
ExecuteDelete ==
    /\ deleteModalOpen
    /\ agreed' = agreed \cup IF subject # NoId THEN {subject} ELSE meant \cup late
    /\ SendDeletes
    /\ UNCHANGED <<rows, used, page, expenses, filter, selectedIds, dialogVars, meant, late>>

\* checkAuth finds no token: the page is left; the calls are made all the same,
\* with "Bearer null", and refused.
ExecuteDeleteLoggedOut ==
    /\ deleteModalOpen
    /\ page' = "login"
    /\ UNCHANGED <<apiVars, expenses, filter, selectedIds, dialogVars, waiting, userVars>>

Came(c)   == Back(c, "delete")
Failed(c) == Came(c) /\ call[c].status = "network"

\* Every fetch has a response, whatever its status: "Transaction(s) deleted".
DeletionEnds(run) ==
    /\ run \in waiting
    /\ \A c \in run.calls : Came(c) /\ ~Failed(c)
    /\ waiting' = waiting \ {run}
    /\ selectedIds' = run.kept
    /\ \E c \in run.calls :
           FetchExpenses([d \in Calls |-> IF d \in run.calls THEN NoCall ELSE call[d]], c)
    /\ deleteModalOpen' = FALSE
    /\ UNCHANGED <<rows, used, expenses, filter, pendingDeleteId, subject, userVars>>

\* One of them rejects: Promise.all does, and the console is told.
DeletionFails(run) ==
    /\ run \in waiting
    /\ \E c \in run.calls : Failed(c) /\ call' = [call EXCEPT ![c] = NoCall]
    /\ waiting' = waiting \ {run}
    /\ UNCHANGED <<rows, used, page, expenses, filter, selectedIds, dialogVars, userVars>>

\* The others go on, and nobody waits for them.
Forgotten(c) ==
    /\ Came(c) /\ \A run \in waiting : c \notin run.calls
    /\ call' = [call EXCEPT ![c] = NoCall]
    /\ UNCHANGED <<rows, used, page, expenses, filter, selectedIds, dialogVars,
                   waiting, userVars>>

-----------------------------------------------------------------------------

ListBack(c) ==
    /\ Back(c, "list")
    /\ expenses' = IF call[c].status = "ok" THEN call[c].list ELSE expenses
    /\ page' = IF call[c].status = "unauthorized" THEN "login" ELSE page
    /\ call' = [call EXCEPT ![c] = NoCall]
    /\ UNCHANGED <<rows, used, filter, selectedIds, dialogVars, waiting, userVars>>

\* To a deletion here any response is the same: "failed" stands for 401, too.
ServeCall(c) ==
    /\ Serve(c)
    /\ Came(c)' => call'[c].status # "unauthorized"
    /\ UNCHANGED <<page, expenses, filter, selectedIds, dialogVars, waiting, userVars>>

User ==
    \/ \E f \in {"all", "income", "expense"} : SetFilter(f)
    \/ \E x \in Ids : SelectRow(x) \/ HandleSingleDelete(x)
    \/ SelectAll \/ HandleBatchDelete \/ Cancel \/ ExecuteDelete \/ ExecuteDeleteLoggedOut

\* What follows an answer.
Answered(c) ==
    \/ ListBack(c) \/ Forgotten(c)
    \/ \E run \in waiting : c \in run.calls /\ (DeletionEnds(run) \/ DeletionFails(run))

Next ==
    /\ page = "transactions"
    /\ \/ User
       \/ \E c \in Calls : ServeCall(c) \/ Answered(c)

Spec == Init /\ [][Next]_vars

-----------------------------------------------------------------------------

\* The page deletes a row only if the user said so in the dialog: of the row whose bin
\* was pressed, or of the rows checked and not unchecked since.  What was unchecked
\* while a deletion ran is excepted, and nothing else: its end sets the selection that
\* the click on "Delete" had found (Transactions.jsx:82).
OnlyMeantIsDeleted == used \ rows \subseteq agreed

\* The parts of the inductive invariant: the dialog is about the row its bin was
\* pressed of, and never about nothing; what is, or will be, selected is meant or late; each
\* run of executeDelete has its own calls, which are for its rows.
SelectionInv ==
    /\ pendingDeleteId = subject
    /\ deleteModalOpen => Targets # {}
    /\ selectedIds \subseteq meant \cup late
    /\ \A run \in waiting : run.kept \subseteq meant \cup late

RunInv ==
    /\ \A run \in waiting : /\ \A c \in run.calls : call[c].kind = "delete"
                            /\ run.calls # {}
                            /\ {call[c].id : c \in run.calls} = run.ids
    /\ \A run, other \in waiting : run.calls \cap other.calls # {} => run = other

AgreedInv == \A c \in Calls : call[c].kind = "delete" => call[c].id \in agreed

\* What the page knows of was there once, and will not be given again.
KnownInv ==
    /\ expenses \cup selectedIds \cup meant \cup late \cup agreed \subseteq used
    /\ subject \in used \cup {NoId}
    /\ \A c \in Calls : call[c].list \subseteq used

\* 200 to a deletion holds for good.
GoneInv ==
    \A c \in Calls : Came(c) /\ call[c].status = "ok" => call[c].id \notin rows

\* No order of clicks and answers deletes what was not meant, or mixes up the
\* calls of two deletions.
TransactionsInv ==
    /\ TypeOK /\ SelectionInv /\ RunInv /\ AgreedInv /\ OnlyMeantIsDeleted
    /\ KnownInv /\ GoneInv

\* "Transaction(s) deleted" is true when every answer of the run was 200; that any
\* other status passes for one is all that makes DeletedMeansGone fail.
AllOkMeansGone ==
    \A run \in waiting :
        (\A c \in run.calls : Came(c) /\ call[c].status = "ok") => run.ids \cap rows = {}

-----------------------------------------------------------------------------
(* What the code does not do *)

\* When the page says "Transaction(s) deleted" (Transactions.jsx:89), they are.
DeletedMeansGone ==
    \A run \in waiting : (\A c \in run.calls : Came(c) /\ ~Failed(c)) => run.ids \cap rows = {}
=============================================================================
