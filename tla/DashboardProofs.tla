-------------------------- MODULE DashboardProofs ---------------------------
(* The safety of Dashboard, for any rows and any number of calls at once. *)
EXTENDS Dashboard, TLAPS

USE NoIdAssumption

\* The calls that are not c's stay as they are, and c's becomes what it is set to.
LEMMA OneCall ==
    ASSUME TypeOK, NEW c \in Calls, NEW new, call' = [call EXCEPT ![c] = new]
    PROVE  \A d \in Calls : call'[d] = IF d = c THEN new ELSE call[d]
BY DEF TypeOK, ApiTypeOK

\* A new call that deletes nothing, or an end to one, keeps what is said of calls.
LEMMA HarmlessCall ==
    ASSUME DashboardInv, NEW c \in Calls, NEW new,
           new = NoCall \/ (\E k \in {"list", "savings", "post"} : new = Sent(k, NoId)),
           call' = [call EXCEPT ![c] = new],
           UNCHANGED <<rows, used>>, confirmed \subseteq confirmed', confirmed' \subseteq Ids
    PROVE  /\ ApiTypeOK'
           /\ \A d \in Calls : call'[d].list \subseteq used'
           /\ DeletionInv'
           /\ OnlyConfirmedIsDeleted'
<1>1. new \in Call \cup {NoCall} /\ new.kind # "delete" /\ new.list = {}
  BY DEF Call, NoCall, Sent, Kinds, Statuses
<1>2. \A d \in Calls : call'[d] = IF d = c THEN new ELSE call[d]
  BY OneCall DEF DashboardInv
<1>3. call' \in [Calls -> Call \cup {NoCall}]
  BY <1>1 DEF DashboardInv, TypeOK, ApiTypeOK
<1> QED
  BY <1>1, <1>2, <1>3 DEF DashboardInv, TypeOK, ApiTypeOK, KnownInv, DeletionInv,
                          OnlyConfirmedIsDeleted

\* The page that has just been mounted satisfies the invariant.
LEMMA DashboardInitInv == Init => DashboardInv
<1> SUFFICES ASSUME Init PROVE DashboardInv
  OBVIOUS
<1>1. PICK c \in Calls : call = [d \in Calls |-> IF d = c THEN Sent("list", NoId) ELSE NoCall]
  BY DEF Init, ApiInit
<1>2. Sent("list", NoId) \in Call
  BY DEF Sent, Call, Kinds, Statuses
<1>3. \A d \in Calls : call[d].kind # "delete" /\ call[d].list = {}
  BY <1>1 DEF Sent, NoCall
<1>4. ApiTypeOK
  BY <1>1, <1>2, <1>3 DEF ApiTypeOK, Init, ApiInit
<1>5. Toast("none", NoId) \in [message : Messages, id : Ids \cup {NoId}]
  BY DEF Toast, Messages
<1>6. TypeOK
  BY <1>4, <1>5 DEF Init, TypeOK
<1> QED
  BY <1>3, <1>6 DEF Init, ApiInit, Toast, DashboardInv, DialogInv, KnownInv, DeletionInv, ToastInv,
                    OnlyConfirmedIsDeleted

\* A step of the server: rows go only by a deletion, and come only with new ids.
LEMMA ServeInv ==
    ASSUME DashboardInv, NEW c \in Calls, ServeCall(c)
    PROVE  DashboardInv'
<1> USE DEF ServeCall, Serve, DashboardInv
<1>1. ASSUME NEW s \in Statuses, NEW l \in SUBSET used, Return(c, s, l), call[c].status = "sent",
             rows' \subseteq used', used \subseteq used', used' \subseteq Ids,
             rows \subseteq rows' \cup {call[c].id}, rows' \cap used \subseteq rows,
             \A x \in rows \ rows' : call[c].kind = "delete" /\ x = call[c].id,
             call[c].kind = "delete" /\ s = "ok" => call[c].id \notin rows',
             used' \ used \subseteq rows'
      PROVE  DashboardInv'
  <2>1. call[c] \in Call /\ call[c] # NoCall
    BY <1>1 DEF TypeOK, ApiTypeOK, NoCall
  <2>2. /\ \A d \in Calls \ {c} : call'[d] = call[d]
        /\ call'[c].kind = call[c].kind /\ call'[c].id = call[c].id
        /\ call'[c].status = s /\ call'[c].list = l
        /\ call' \in [Calls -> Call \cup {NoCall}]
    BY <1>1, <2>1 DEF TypeOK, ApiTypeOK, Return, Call
  <2>3. TypeOK'
    BY <1>1, <2>2 DEF TypeOK, ApiTypeOK, pageVars
  <2>4. DialogInv' /\ KnownInv' /\ ToastInv'
    BY <1>1, <2>2 DEF DialogInv, KnownInv, ToastInv, pageVars
  <2>5. DeletionInv'
    BY <1>1, <2>2 DEF DeletionInv
  <2>6. OnlyConfirmedIsDeleted'
    BY <1>1 DEF DeletionInv, OnlyConfirmedIsDeleted
  <2> QED
    BY <2>3, <2>4, <2>5, <2>6
<1>2. CASE ServeList(c)
  <2>1. PICK s \in Statuses, l \in SUBSET used : Return(c, s, l)
    BY <1>2 DEF ServeList, Statuses, TypeOK, ApiTypeOK
  <2> QED
    BY <1>1, <1>2, <2>1 DEF ServeList, TypeOK, ApiTypeOK
<1>3. CASE ServeSavings(c)
  <2>1. PICK s \in Statuses : Return(c, s, {})
    BY <1>3 DEF ServeSavings, Statuses
  <2> QED
    BY <1>1, <1>3, <2>1 DEF ServeSavings, TypeOK, ApiTypeOK
<1>4. CASE ServePost(c)
  <2>1. PICK s \in Statuses : Return(c, s, {})
    BY <1>4 DEF ServePost, Statuses
  <2>2. /\ rows' \subseteq used' /\ used \subseteq used' /\ used' \subseteq Ids
        /\ rows \subseteq rows' /\ rows' \cap used \subseteq rows /\ used' \ used \subseteq rows'
    BY <1>4 DEF ServePost, TypeOK, ApiTypeOK
  <2> QED
    BY <1>1, <1>4, <2>1, <2>2 DEF ServePost
<1>5. CASE ServeDelete(c)
  <2>1. PICK s \in Statuses : Return(c, s, {}) /\ (s = "ok" => rows' = rows \ {call[c].id})
    BY <1>5 DEF ServeDelete, Statuses
  <2> QED
    BY <1>1, <1>5, <2>1 DEF ServeDelete, TypeOK, ApiTypeOK
<1> QED
  BY <1>2, <1>3, <1>4, <1>5

\* What follows an answer.
LEMMA AnsweredInv ==
    ASSUME DashboardInv, NEW c \in Calls, Answered(c)
    PROVE  DashboardInv'
<1> USE DEF Answered, Back
<1>1. PICK new : /\ call' = [call EXCEPT ![c] = new]
                 /\ new = NoCall \/ \E k \in {"list", "savings", "post"} : new = Sent(k, NoId)
  BY DEF ListBack, SavingsBack, PostBack, DeleteBack, HandleUnauthorized, Done
<1>2. /\ ApiTypeOK' /\ DeletionInv' /\ OnlyConfirmedIsDeleted'
      /\ \A d \in Calls : call'[d].list \subseteq used'
  BY <1>1, HarmlessCall DEF DashboardInv, TypeOK
<1>3. expenses' \subseteq used /\ page' \in {"dashboard", "login"} /\ isModalOpen' \in BOOLEAN
  BY DEF ListBack, SavingsBack, PostBack, DeleteBack, HandleUnauthorized, DashboardInv, KnownInv, TypeOK
<1>4. pendingDeleteId' \in {pendingDeleteId, NoId}
  BY DEF ListBack, SavingsBack, PostBack, DeleteBack
<1>5. \/ toast' = toast
      \/ \E m \in {"none", "added", "error"} : toast' = Toast(m, NoId)
      \/ \E x \in used \ rows : toast' = Toast("removed", x)
  BY DEF ListBack, SavingsBack, PostBack, DeleteBack, HandleUnauthorized, DashboardInv, DeletionInv
<1>6. toast' \in [message : Messages, id : Ids \cup {NoId}] /\ ToastInv'
  BY <1>5 DEF Toast, Messages, DashboardInv, TypeOK, ApiTypeOK, ToastInv
<1>7. expenses' \subseteq Ids
  BY <1>3 DEF DashboardInv, TypeOK, ApiTypeOK
<1> QED
  BY <1>2, <1>3, <1>4, <1>6, <1>7 DEF DashboardInv, TypeOK, KnownInv, DialogInv

\* What the user does.
LEMMA UserInv ==
    ASSUME DashboardInv, User
    PROVE  DashboardInv'
<1>1. CASE OpenForm \/ CloseForm
  <2>1. /\ UNCHANGED <<rows, used, call, page, expenses, deleteModalOpen, pendingDeleteId, toast,
                      subject, confirmed>>
        /\ isModalOpen' \in BOOLEAN
    BY <1>1 DEF OpenForm, CloseForm, apiVars
  <2> QED
    BY <2>1 DEF DashboardInv, TypeOK, ApiTypeOK, DialogInv, KnownInv, DeletionInv, ToastInv,
                OnlyConfirmedIsDeleted
<1>2. ASSUME NEW c \in Calls, HandleAddExpense(c) PROVE DashboardInv'
  <2>1. ApiTypeOK' /\ DeletionInv' /\ OnlyConfirmedIsDeleted'
        /\ \A d \in Calls : call'[d].list \subseteq used'
    BY <1>2, HarmlessCall DEF HandleAddExpense, DashboardInv, TypeOK
  <2> QED
    BY <1>2, <2>1 DEF HandleAddExpense, pageVars, DashboardInv, TypeOK, DialogInv, KnownInv, ToastInv
<1>3. ASSUME NEW id \in Ids, ConfirmDelete(id) PROVE DashboardInv'
  BY <1>3 DEF ConfirmDelete, apiVars, DashboardInv, TypeOK, ApiTypeOK, DialogInv, KnownInv,
              DeletionInv, ToastInv, OnlyConfirmedIsDeleted
<1>4. ASSUME NEW c \in Calls, ExecuteDelete(c) PROVE DashboardInv'
  <2>1. subject \in used /\ subject \in Ids /\ pendingDeleteId \in {NoId, subject}
    BY <1>4 DEF ExecuteDelete, DashboardInv, DialogInv, KnownInv, TypeOK, ApiTypeOK
  <2>2. /\ confirmed' = confirmed \cup {subject} /\ deleteModalOpen' = FALSE /\ subject' = NoId
        /\ UNCHANGED <<rows, used, page, expenses, isModalOpen, pendingDeleteId, toast>>
    BY <1>4 DEF ExecuteDelete
  <2>3. CASE UNCHANGED call
    BY <2>1, <2>2, <2>3 DEF DashboardInv, TypeOK, ApiTypeOK, DialogInv, KnownInv, DeletionInv,
                            ToastInv, OnlyConfirmedIsDeleted
  <2>4. CASE pendingDeleteId = subject /\ call' = [call EXCEPT ![c] = Sent("delete", subject)]
    <3>1. Sent("delete", subject) \in Call
      BY <2>1 DEF Sent, Call, Kinds, Statuses
    <3>2. call' \in [Calls -> Call \cup {NoCall}]
      BY <2>4, <3>1 DEF DashboardInv, TypeOK, ApiTypeOK
    <3>3. \A d \in Calls : call'[d] = IF d = c THEN Sent("delete", subject) ELSE call[d]
      BY <2>4, OneCall DEF DashboardInv
    <3>4. ApiTypeOK' /\ DeletionInv' /\ \A d \in Calls : call'[d].list \subseteq used'
      BY <2>1, <2>2, <3>2, <3>3 DEF Sent, DashboardInv, TypeOK, ApiTypeOK, DeletionInv, KnownInv
    <3> QED
      BY <2>1, <2>2, <3>4 DEF DashboardInv, TypeOK, DialogInv, KnownInv, ToastInv,
                              OnlyConfirmedIsDeleted
  <2> QED
    BY <1>4, <2>1, <2>3, <2>4 DEF ExecuteDelete
<1>5. CASE CancelDelete
  BY <1>5 DEF CancelDelete, apiVars, DashboardInv, TypeOK, ApiTypeOK, DialogInv, KnownInv,
              DeletionInv, ToastInv, OnlyConfirmedIsDeleted
<1> QED
  BY <1>1, <1>2, <1>3, <1>4, <1>5 DEF User

\* Every step keeps the invariant.
LEMMA DashboardNextInv == DashboardInv /\ [Next]_vars => DashboardInv'
<1> SUFFICES ASSUME DashboardInv, [Next]_vars PROVE DashboardInv'
  OBVIOUS
<1>1. CASE ToastEnds
  BY <1>1 DEF ToastEnds, Toast, Messages, apiVars, DashboardInv, TypeOK, ApiTypeOK, DialogInv, KnownInv,
              DeletionInv, ToastInv, OnlyConfirmedIsDeleted
<1>2. CASE UNCHANGED vars
  BY <1>2 DEF vars, apiVars, pageVars, DashboardInv, TypeOK, ApiTypeOK, DialogInv, KnownInv,
              DeletionInv, ToastInv, OnlyConfirmedIsDeleted
<1> QED
  BY <1>1, <1>2, UserInv, ServeInv, AnsweredInv DEF Next

\* However clicks and answers interleave: what the page holds, asks for and says is
\* in order.
THEOREM PageInvariance == Spec => []DashboardInv
BY DashboardInitInv, DashboardNextInv, PTL DEF Spec

\* The page deletes no row that was not confirmed (executeDelete sends the id of the
\* dialog that is open, or nothing).
THEOREM DeletesWhatIsConfirmed == Spec => []OnlyConfirmedIsDeleted
<1>1. DashboardInv => OnlyConfirmedIsDeleted
  BY DEF DashboardInv
<1> QED
  BY <1>1, PageInvariance, PTL

\* "Expense removed." is not said of a row that is there (res.ok is looked at, and
\* an id is never given twice).
THEOREM RemovedIsGone == Spec => []RemovedMeansGone
<1>1. DashboardInv => RemovedMeansGone
  BY DEF DashboardInv, ToastInv, RemovedMeansGone
<1> QED
  BY <1>1, PageInvariance, PTL

\* A step of the server is the entry of a row, the removal of one that was agreed to,
\* or nothing to the rows.
LEMMA ServeIsRemoval ==
    ASSUME DashboardInv, NEW c \in Calls, ServeCall(c)
    PROVE  \/ \E x \in Ids : Removal!Enter(x) \/ Removal!Remove(x)
           \/ UNCHANGED Removal!vars
<1> USE DEF ServeCall, Serve
<1>1. CASE ServeList(c) \/ ServeSavings(c)
  BY <1>1 DEF ServeList, ServeSavings, Removal!vars
<1>2. CASE ServePost(c)
  BY <1>2 DEF ServePost, Removal!vars, Removal!Enter
<1>3. CASE ServeDelete(c)
  <2>1. call[c].id \in Ids \cap confirmed
    BY <1>3 DEF ServeDelete, DashboardInv, DeletionInv, TypeOK, ApiTypeOK
  <2>2. CASE rows' = rows
    BY <1>3, <2>2 DEF ServeDelete, Removal!vars
  <2>3. CASE rows' = rows \ {call[c].id} /\ call[c].id \in rows
    BY <1>3, <2>1, <2>3 DEF ServeDelete, Removal!Remove
  <2> QED
    BY <1>3, <2>2, <2>3 DEF ServeDelete
<1> QED
  BY <1>1, <1>2, <1>3

\* The dashboard implements Removal: what the user does is at most to agree, to a row
\* that was seen; only the server, call by call, enters and removes.
THEOREM DashboardImplementsRemoval == Spec => ImplementsRemoval
<1>1. Init => Removal!Init
  BY DEF Init, ApiInit, Removal!Init
<1>2. DashboardInv /\ [Next]_vars => [Removal!Next]_(Removal!vars)
  <2> SUFFICES ASSUME DashboardInv, [Next]_vars PROVE [Removal!Next]_(Removal!vars)
    OBVIOUS
  <2>1. CASE UNCHANGED vars
    BY <2>1 DEF vars, apiVars, Removal!vars
  <2>2. ASSUME NEW c \in Calls, ExecuteDelete(c) PROVE Removal!Next
    <3>1. subject \in used
      BY <2>2 DEF ExecuteDelete, DashboardInv, DialogInv, KnownInv
    <3> QED
      BY <2>2, <3>1 DEF ExecuteDelete, Removal!Next, Removal!Agree
  <2>3. CASE User /\ \A c \in Calls : ~ExecuteDelete(c)
    BY <2>3 DEF User, OpenForm, CloseForm, CancelDelete, HandleAddExpense, ConfirmDelete,
                apiVars, Removal!vars
  <2>4. CASE \E c \in Calls : ServeCall(c)
    BY <2>4, ServeIsRemoval DEF Removal!Next
  <2>5. CASE ToastEnds \/ \E c \in Calls : Answered(c)
    BY <2>5 DEF ToastEnds, Answered, apiVars, Removal!vars
  <2> QED
    BY <2>1, <2>2, <2>3, <2>4, <2>5 DEF Next, User
<1> QED
  BY <1>1, <1>2, PageInvariance, PTL DEF Spec, Removal!Spec, ImplementsRemoval
=============================================================================
