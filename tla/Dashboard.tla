----------------------------- MODULE Dashboard ------------------------------
(***************************************************************************)
(* One visit to the page src/frontend/src/pages/Dashboard.jsx: its state,  *)
(* the handlers of its buttons up to their await, and what follows each    *)
(* answer.  A handler goes on with the values of the render it was made    *)
(* in; React applies the state it sets at the end in one piece.  Answers   *)
(* come in any order, and handlers of earlier clicks go on while new ones  *)
(* begin.                                                                  *)
(***************************************************************************)
EXTENDS Api

VARIABLES
    page,        \* "dashboard" or "login"
    expenses,    \* the rows of the table on the page
    isModalOpen, deleteModalOpen,
    pendingDeleteId,
    toast,       \* the message shown, and the row it is about
    subject,     \* the row whose bin opened the dialog that is open
    confirmed    \* the rows the user said "Delete it" of

pageVars == <<page, expenses, isModalOpen, deleteModalOpen, pendingDeleteId, toast>>
vars == <<apiVars, pageVars, subject, confirmed>>

Messages == {"none", "added", "removed", "error"}

Toast(message, id) == [message |-> message, id |-> id]

TypeOK ==
    /\ ApiTypeOK
    /\ page \in {"dashboard", "login"}
    /\ expenses \subseteq Ids
    /\ isModalOpen \in BOOLEAN /\ deleteModalOpen \in BOOLEAN
    /\ {pendingDeleteId, subject} \subseteq Ids \cup {NoId}
    /\ toast \in [message : Messages, id : Ids \cup {NoId}]
    /\ confirmed \subseteq Ids

\* The page is mounted with its initial state, and fetches.
Init ==
    /\ ApiInit
    /\ page = "dashboard"
    /\ expenses = {} /\ toast = Toast("none", NoId)
    /\ isModalOpen = FALSE /\ deleteModalOpen = FALSE
    /\ pendingDeleteId = NoId /\ subject = NoId
    /\ confirmed = {}

-----------------------------------------------------------------------------
(* The user.  A dialog that is open covers the rest of the page. *)

FreeCall(c) == call[c] = NoCall

OpenForm ==
    /\ page = "dashboard" /\ ~isModalOpen /\ ~deleteModalOpen
    /\ isModalOpen' = TRUE
    /\ UNCHANGED <<apiVars, page, expenses, deleteModalOpen, pendingDeleteId, toast,
                   subject, confirmed>>

CloseForm ==
    /\ page = "dashboard" /\ isModalOpen
    /\ isModalOpen' = FALSE
    /\ UNCHANGED <<apiVars, page, expenses, deleteModalOpen, pendingDeleteId, toast,
                   subject, confirmed>>

\* Every field of the form is required; the button stays active meanwhile.
HandleAddExpense(c) ==
    /\ page = "dashboard" /\ isModalOpen
    /\ FreeCall(c)
    /\ call' = [call EXCEPT ![c] = Sent("post", NoId)]
    /\ UNCHANGED <<rows, used, pageVars, subject, confirmed>>

\* Mutant: the dialog keeps the row it was opened for before.
ConfirmDeleteOfFirst(id) ==
    /\ page = "dashboard" /\ ~isModalOpen /\ ~deleteModalOpen
    /\ id \in expenses
    /\ pendingDeleteId' = IF pendingDeleteId = NoId THEN id ELSE pendingDeleteId
    /\ deleteModalOpen' = TRUE /\ subject' = id
    /\ UNCHANGED <<apiVars, page, expenses, isModalOpen, toast, confirmed>>

\* The bin of a row.
ConfirmDelete(id) ==
    /\ page = "dashboard" /\ ~isModalOpen /\ ~deleteModalOpen
    /\ id \in expenses
    /\ pendingDeleteId' = id
    /\ deleteModalOpen' = TRUE /\ subject' = id
    /\ UNCHANGED <<apiVars, page, expenses, isModalOpen, toast, confirmed>>

CancelDelete ==
    /\ page = "dashboard" /\ deleteModalOpen
    /\ deleteModalOpen' = FALSE /\ subject' = NoId
    /\ UNCHANGED <<apiVars, page, expenses, isModalOpen, pendingDeleteId, toast,
                   confirmed>>

\* Mutant: the row is not looked at.
ExecuteDeleteUnchecked(c) ==
    /\ page = "dashboard" /\ deleteModalOpen /\ FreeCall(c)
    /\ deleteModalOpen' = FALSE
    /\ confirmed' = confirmed \cup {subject} /\ subject' = NoId
    /\ call' = [call EXCEPT ![c] = Sent("delete", pendingDeleteId)]
    /\ UNCHANGED <<rows, used, page, expenses, isModalOpen, pendingDeleteId, toast>>

\* "Delete it"
ExecuteDelete(c) ==
    /\ page = "dashboard" /\ deleteModalOpen
    /\ deleteModalOpen' = FALSE
    /\ confirmed' = confirmed \cup {subject} /\ subject' = NoId
    /\ IF pendingDeleteId = NoId
       THEN UNCHANGED call
       ELSE /\ FreeCall(c)
            /\ call' = [call EXCEPT ![c] = Sent("delete", pendingDeleteId)]
    /\ UNCHANGED <<rows, used, page, expenses, isModalOpen, pendingDeleteId, toast>>

-----------------------------------------------------------------------------
(* What follows an answer *)

Done(c) == call' = [call EXCEPT ![c] = NoCall]

\* handleUnauthorized: the token is removed, and the page left.
HandleUnauthorized(c) ==
    /\ call[c].status = "unauthorized"
    /\ page' = "login"
    /\ Done(c)
    /\ UNCHANGED <<expenses, isModalOpen, toast>>

\* The first await of fetchExpenses; after an error nothing is fetched.
ListBack(c) ==
    /\ Back(c, "list")
    /\ \/ HandleUnauthorized(c)
       \/ /\ call[c].status = "ok"
          /\ expenses' = call[c].list
          /\ call' = [call EXCEPT ![c] = Sent("savings", NoId)]
          /\ UNCHANGED <<page, isModalOpen, toast>>
       \/ /\ call[c].status = "failed"
          /\ toast' = Toast("error", NoId)
          /\ Done(c)
          /\ UNCHANGED <<page, expenses, isModalOpen>>
    /\ UNCHANGED pendingDeleteId

\* The second one, for the savings: any answer that is not ok is ignored.
SavingsBack(c) ==
    /\ Back(c, "savings")
    /\ toast' = IF call[c].status = "network" THEN Toast("error", NoId) ELSE toast
    /\ Done(c)
    /\ UNCHANGED <<page, expenses, isModalOpen, pendingDeleteId>>

PostBack(c) ==
    /\ Back(c, "post")
    /\ \/ HandleUnauthorized(c)
       \/ /\ call[c].status = "ok"
          /\ isModalOpen' = FALSE
          /\ call' = [call EXCEPT ![c] = Sent("list", NoId)]
          /\ toast' = Toast("added", NoId)
          /\ UNCHANGED <<page, expenses>>
       \/ /\ call[c].status = "failed"
          /\ toast' = Toast("error", NoId)
          /\ Done(c)
          /\ UNCHANGED <<page, expenses, isModalOpen>>
    /\ UNCHANGED pendingDeleteId

\* Mutant: fetch has not thrown, so the row is gone.
DeleteBackUnchecked(c) ==
    /\ Back(c, "delete")
    /\ IF call[c].status = "network"
       THEN Done(c) /\ UNCHANGED toast
       ELSE /\ call' = [call EXCEPT ![c] = Sent("list", NoId)]
            /\ toast' = Toast("removed", call[c].id)
    /\ pendingDeleteId' = NoId
    /\ UNCHANGED <<page, expenses, isModalOpen>>

\* Mutant: the list is not fetched again.
DeleteBackUnfetched(c) ==
    /\ Back(c, "delete")
    /\ toast' = IF call[c].status = "ok" THEN Toast("removed", call[c].id) ELSE Toast("error", NoId)
    /\ Done(c)
    /\ pendingDeleteId' = NoId
    /\ UNCHANGED <<page, expenses, isModalOpen>>

\* finally { setPendingDeleteId(null) }, whatever dialog is open by now.
DeleteBack(c) ==
    /\ Back(c, "delete")
    /\ \/ HandleUnauthorized(c)
       \/ /\ call[c].status = "ok"
          /\ call' = [call EXCEPT ![c] = Sent("list", NoId)]
          /\ toast' = Toast("removed", call[c].id)
          /\ UNCHANGED <<page, expenses, isModalOpen>>
       \/ /\ call[c].status = "failed"
          /\ toast' = Toast("error", NoId)
          /\ Done(c)
          /\ UNCHANGED <<page, expenses, isModalOpen>>
       \/ /\ call[c].status = "network"
          /\ Done(c)
          /\ UNCHANGED <<page, expenses, isModalOpen, toast>>
    /\ pendingDeleteId' = NoId

Answered(c) ==
    /\ page = "dashboard"
    /\ ListBack(c) \/ SavingsBack(c) \/ PostBack(c) \/ DeleteBack(c)
    /\ UNCHANGED <<rows, used, deleteModalOpen, subject, confirmed>>

\* setTimeout(() => setToast(null), 3000), of this message or of one before it.
ToastEnds ==
    /\ page = "dashboard"
    /\ toast.message # "none"
    /\ toast' = Toast("none", NoId)
    /\ UNCHANGED <<apiVars, page, expenses, isModalOpen, deleteModalOpen, pendingDeleteId,
                   subject, confirmed>>

\* What the server does once the page was left, the model leaves out.
ServeCall(c) ==
    /\ page = "dashboard"
    /\ Serve(c)
    /\ UNCHANGED <<pageVars, subject, confirmed>>

-----------------------------------------------------------------------------

User ==
    \/ OpenForm \/ CloseForm \/ CancelDelete
    \/ \E c \in Calls : HandleAddExpense(c) \/ ExecuteDelete(c)
    \/ \E id \in Ids : ConfirmDelete(id)

Next ==
    \/ User
    \/ ToastEnds
    \/ \E c \in Calls : ServeCall(c) \/ Answered(c)

Spec == Init /\ [][Next]_vars

\* Every call comes back in the end (EveryRequestAnswered of Backend, and the
\* timeouts of nginx), and the browser runs what waits for it.  The user need
\* not do anything.
Fairness == \A c \in Calls : WF_vars(ServeCall(c)) /\ WF_vars(Answered(c))

FairSpec == Spec /\ Fairness

-----------------------------------------------------------------------------

\* The page deletes no row but those the user said "Delete it" of, whatever
\* answers come between the bin and the confirmation.
OnlyConfirmedIsDeleted == used \ rows \subseteq confirmed

\* "Expense removed." is not said of a row that is there.
RemovedMeansGone == toast.message = "removed" => toast.id \notin rows

\* With its dialogs, its calls and their answers in any order, the page is one that
\* removes the rows one at a time, after the user agreed, and enters each once.
Removal == INSTANCE Removal WITH agreed <- confirmed

ImplementsRemoval == Removal!Spec

\* When a deletion has come back with 200, the row goes from the page, unless
\* the page says that it could not look, or is left.
DeletionIsShown ==
    \A x \in Ids, c \in Calls :
        Back(c, "delete") /\ call[c].id = x /\ call[c].status = "ok" ~>
            x \notin expenses \/ toast.message = "error" \/ page = "login"

\* The parts of the inductive invariant.  The dialog holds the row whose bin opened
\* it, or none any more.
DialogInv == deleteModalOpen => subject # NoId /\ pendingDeleteId \in {NoId, subject}

\* What the page knows of was there once, and will not be given again.
KnownInv ==
    /\ expenses \subseteq used
    /\ {pendingDeleteId, subject} \subseteq used \cup {NoId}
    /\ \A c \in Calls : call[c].list \subseteq used

\* A deletion that is under way, or done, was confirmed.
DeletionInv ==
    \A c \in Calls : call[c].kind = "delete" =>
        /\ call[c].id \in confirmed \cap used
        /\ call[c].status = "ok" => call[c].id \notin rows

ToastInv == toast.message = "removed" => toast.id \in used \ rows

\* No order of clicks and answers makes the page ask for what was not confirmed,
\* show what never was, or call a row removed that is there.
DashboardInv ==
    TypeOK /\ DialogInv /\ KnownInv /\ DeletionInv /\ ToastInv /\ OnlyConfirmedIsDeleted

-----------------------------------------------------------------------------
(* What the code does not do *)

\* "Expense removed." (Dashboard.jsx:129): the row does not stay on the page, the
\* one that was said of last, unless the page says that it could not look.
RemovedDisappears ==
    \A x \in Ids :
        toast = Toast("removed", x) ~>
            x \notin expenses \/ toast.message = "error" \/ page = "login"
=============================================================================
