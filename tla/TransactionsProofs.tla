------------------------- MODULE TransactionsProofs --------------------------
(* The safety of Transactions, for any rows and any number of calls at once. *)
EXTENDS Transactions, TLAPS

USE NoIdAssumption DEF TransactionsInv

\* The page that has just been mounted satisfies the invariant.
LEMMA TransactionsInitInv == Init => TransactionsInv
<1> SUFFICES ASSUME Init PROVE TransactionsInv
  OBVIOUS
<1>1. PICK c \in Calls : call = [d \in Calls |-> IF d = c THEN Sent("list", NoId) ELSE NoCall]
  BY DEF Init, ApiInit
<1>2. Sent("list", NoId) \in Call
  BY DEF Sent, Call, Kinds, Statuses
<1>3. \A d \in Calls : call[d].kind # "delete"
  BY <1>1 DEF Sent, NoCall
<1>4. TypeOK
  BY <1>1, <1>2, <1>3 DEF Init, ApiInit, TypeOK, ApiTypeOK
<1> QED
  BY <1>1, <1>3, <1>4
     DEF Init, ApiInit, SelectionInv, RunInv, AgreedInv, OnlyMeantIsDeleted, KnownInv, GoneInv,
         Came, Back, Sent, NoCall

\* The clicks that send nothing: what is selected is meant, and the dialog about
\* what it was opened for.
LEMMA ClickInv ==
    ASSUME TransactionsInv, User, ~ExecuteDelete
    PROVE  TransactionsInv'
<1> USE DEF User, SetFilter, SelectRow, SelectAll, Choose, HandleSingleDelete, HandleBatchDelete,
            Cancel, ExecuteDeleteLoggedOut, apiVars, dialogVars, userVars
<1>1. FilteredExpenses \subseteq Ids
  BY DEF FilteredExpenses, TypeOK
<1>2. UNCHANGED <<rows, used, call, expenses, waiting, agreed>>
  OBVIOUS
<1>3. /\ selectedIds' \subseteq Ids /\ meant' \subseteq Ids /\ late' \subseteq Ids
      /\ selectedIds' \subseteq meant' \cup late'
      /\ \A run \in waiting : run.kept \subseteq meant' \cup late'
  <2>1. CASE \E x \in Ids : SelectRow(x)
    BY <1>1, <2>1 DEF TypeOK, SelectionInv
  <2>2. CASE SelectAll
    BY <1>1, <2>2 DEF TypeOK, SelectionInv
  <2>3. CASE UNCHANGED <<selectedIds, meant, late>>
    BY <2>3 DEF TypeOK, SelectionInv
  <2> QED
    BY <2>1, <2>2, <2>3
<1>4. TypeOK'
  BY <1>1, <1>2, <1>3 DEF TypeOK, ApiTypeOK
<1>5. SelectionInv'
  <2>1. pendingDeleteId' = subject'
    BY DEF SelectionInv
  <2>2. deleteModalOpen' => Targets' # {}
    BY DEF SelectionInv, Targets
  <2> QED
    BY <1>2, <1>3, <2>1, <2>2 DEF SelectionInv
<1>6. RunInv' /\ AgreedInv' /\ OnlyMeantIsDeleted' /\ GoneInv'
  BY <1>2 DEF RunInv, AgreedInv, OnlyMeantIsDeleted, GoneInv, Came, Back
<1>7. KnownInv'
  <2>1. FilteredExpenses \subseteq used
    BY DEF FilteredExpenses, KnownInv
  <2>2. selectedIds' \subseteq used /\ meant' \subseteq used /\ late' \subseteq used /\ subject' \in used \cup {NoId}
    BY <2>1 DEF KnownInv
  <2> QED
    BY <1>2, <2>2 DEF KnownInv
<1> QED
  BY <1>4, <1>5, <1>6, <1>7

\* What is deleted stood in the dialog.
LEMMA TargetsAreMeant ==
    ASSUME TransactionsInv, deleteModalOpen
    PROVE  /\ Targets \subseteq IF subject # NoId THEN {subject} ELSE meant \cup late
           /\ Targets \subseteq Ids /\ Targets # {} /\ Kept \subseteq meant \cup late
BY DEF Targets, Kept, SelectionInv, TypeOK

\* "Delete": the calls of the new run are for what is agreed, and its own.
LEMMA ExecuteInv ==
    ASSUME TransactionsInv, ExecuteDelete
    PROVE  TransactionsInv'
<1> USE DEF ExecuteDelete, dialogVars
<1>1. /\ Targets \subseteq agreed' /\ Targets \subseteq Ids /\ Targets # {}
      /\ Kept \subseteq meant \cup late /\ agreed \subseteq agreed' /\ agreed' \subseteq Ids
  BY TargetsAreMeant DEF TypeOK
<1>2. PICK cs \in SUBSET {c \in Calls : FreeCall(c)} : \E target \in [cs -> Targets] :
        /\ \A x \in Targets : \E c \in cs : target[c] = x
        /\ \A c, d \in cs : target[c] = target[d] => c = d
        /\ call' = [c \in Calls |-> IF c \in cs THEN Sent("delete", target[c]) ELSE call[c]]
        /\ waiting' = waiting \cup {[calls |-> cs, ids |-> Targets, kept |-> Kept]}
  BY DEF SendDeletes
<1>3. PICK target \in [cs -> Targets] :
        /\ \A x \in Targets : \E c \in cs : target[c] = x
        /\ call' = [c \in Calls |-> IF c \in cs THEN Sent("delete", target[c]) ELSE call[c]]
        /\ waiting' = waiting \cup {[calls |-> cs, ids |-> Targets, kept |-> Kept]}
  BY <1>2
<1> DEFINE new == [calls |-> cs, ids |-> Targets, kept |-> Kept]
<1>4. \A c \in cs : /\ call'[c] \in Call
                    /\ call'[c].kind = "delete" /\ call'[c].id = target[c]
                    /\ call'[c].id \in Targets
  BY <1>1, <1>3 DEF Sent, Call, Kinds, Statuses
<1>5. \A c \in Calls \ cs : call'[c] = call[c]
  BY <1>3
<1>6. \A c \in cs : call[c].kind # "delete"
  BY DEF FreeCall, NoCall
<1>7. new \in Run /\ cs # {}
  BY <1>1, <1>3 DEF Run, Kept, TypeOK
<1>8. call' \in [Calls -> Call \cup {NoCall}]
  BY <1>3, <1>4, <1>5 DEF TypeOK, ApiTypeOK
<1>9. TypeOK'
  <2>1. waiting' \subseteq Run
    BY <1>3, <1>7 DEF TypeOK
  <2>2. \A c \in Calls : call'[c].kind = "delete" => call'[c].id \in Ids
    BY <1>1, <1>4, <1>5 DEF TypeOK, ApiTypeOK
  <2> QED
    BY <1>1, <1>8, <2>1, <2>2 DEF TypeOK, ApiTypeOK
<1>10. SelectionInv'
  <2>1. Targets' = Targets
    BY DEF Targets
  <2> QED
    BY <1>1, <1>3, <2>1 DEF SelectionInv
<1>11. RunInv'
  <2>1. \A run \in waiting : run.calls \cap cs = {} /\ run.calls \subseteq Calls
    BY <1>6 DEF RunInv, TypeOK, Run
  <2>2. \A run \in waiting : /\ \A c \in run.calls : call'[c] = call[c]
                             /\ {call'[c].id : c \in run.calls} = {call[c].id : c \in run.calls}
    BY <1>5, <2>1
  <2>3. {call'[c].id : c \in cs} = Targets
    BY <1>3, <1>4
  <2>4. ASSUME NEW run \in waiting'
        PROVE  /\ \A c \in run.calls : call'[c].kind = "delete"
               /\ run.calls # {}
               /\ {call'[c].id : c \in run.calls} = run.ids
    <3>1. CASE run \in waiting
      BY <3>1, <2>2 DEF RunInv
    <3>2. CASE run = new
      BY <3>2, <2>3, <1>4, <1>7
    <3> QED
      BY <3>1, <3>2, <1>3
  <2>5. ASSUME NEW run \in waiting', NEW other \in waiting', run.calls \cap other.calls # {}
        PROVE  run = other
    BY <2>5, <2>1, <1>3 DEF RunInv
  <2> QED
    BY <2>4, <2>5 DEF RunInv
<1>12. AgreedInv' /\ OnlyMeantIsDeleted'
  BY <1>1, <1>4, <1>5 DEF AgreedInv, OnlyMeantIsDeleted
<1>13. \A c \in cs : call'[c].status = "sent" /\ call'[c].list = {}
  BY <1>3 DEF Sent
<1>14. KnownInv'
  BY <1>5, <1>13 DEF KnownInv
<1>15. GoneInv'
  BY <1>5, <1>13 DEF GoneInv, Came, Back
<1> QED
  BY <1>9, <1>10, <1>11, <1>12, <1>14, <1>15

\* A step of the server: rows go only by a deletion, which is for a row agreed.
LEMMA TransactionsServeInv ==
    ASSUME TransactionsInv, NEW c \in Calls, ServeCall(c)
    PROVE  TransactionsInv'
<1> USE DEF ServeCall, Serve
<1>1. PICK s \in Statuses, l \in SUBSET used : Return(c, s, l)
  BY DEF ServeList, ServeSavings, ServePost, ServeDelete, Statuses, TypeOK, ApiTypeOK
<1>2. call[c] \in Call
  BY DEF TypeOK, ApiTypeOK, NoCall
<1>3. /\ \A d \in Calls : call'[d].kind = call[d].kind /\ call'[d].id = call[d].id
      /\ call' \in [Calls -> Call \cup {NoCall}]
      /\ call'[c].status = s /\ call'[c].list = l
      /\ \A d \in Calls \ {c} : call'[d] = call[d]
  BY <1>1, <1>2 DEF Return, Call, TypeOK, ApiTypeOK
<1>4. /\ rows' \subseteq used' /\ used' \subseteq Ids
      /\ used' \ rows' \subseteq (used \ rows) \cup {x \in Ids : call[c].kind = "delete" /\ x = call[c].id}
  BY DEF ServeList, ServeSavings, ServePost, ServeDelete, TypeOK, ApiTypeOK
<1>5. TypeOK'
  BY <1>3, <1>4 DEF TypeOK, ApiTypeOK, dialogVars, userVars
<1>6. SelectionInv'
  BY DEF SelectionInv, Targets, dialogVars, userVars
<1>7. RunInv'
  <2>1. \A run \in waiting : /\ \A d \in run.calls : d \in Calls
                             /\ {call'[d].id : d \in run.calls} = {call[d].id : d \in run.calls}
    BY <1>3 DEF TypeOK, Run
  <2> QED
    BY <1>3, <2>1 DEF RunInv
<1>8. AgreedInv' /\ OnlyMeantIsDeleted'
  BY <1>3, <1>4 DEF AgreedInv, OnlyMeantIsDeleted, userVars
<1>9. KnownInv'
  <2>1. used \subseteq used' /\ \A d \in Calls : call'[d].list \subseteq used'
    BY <1>3 DEF ServeList, ServeSavings, ServePost, ServeDelete, KnownInv
  <2> QED
    BY <2>1 DEF KnownInv, dialogVars, userVars
<1>10. GoneInv'
  <2> SUFFICES ASSUME NEW d \in Calls, call'[d].kind = "delete", call'[d].status = "ok"
               PROVE  call'[d].id \notin rows'
    BY DEF GoneInv, Came, Back
  <2>1. CASE d = c
    <3>1. ServeDelete(c) /\ call'[c].id = call[c].id
      BY <2>1, <1>3 DEF ServeDelete, ServeList, ServeSavings, ServePost
    <3>2. CASE rows' = rows \ {call[c].id}
      BY <2>1, <3>1, <3>2
    <3>3. CASE \E t \in Statuses \ {"ok"} : Return(c, t, {})
      <4>1. call'[c].status # "ok"
        BY <3>3, <1>2 DEF Return, Call, TypeOK, ApiTypeOK
      <4> QED
        BY <2>1, <4>1
    <3> QED
      BY <3>1, <3>2, <3>3 DEF ServeDelete
  <2>2. CASE d # c
    <3>1. call'[d] = call[d] /\ call[d].id \in used
      BY <2>2, <1>3 DEF TypeOK, ApiTypeOK, AgreedInv, KnownInv
    <3>2. call[d].id \notin rows
      BY <3>1 DEF GoneInv, Came, Back
    <3> QED
      BY <3>1, <3>2 DEF ServeList, ServeSavings, ServePost, ServeDelete
  <2> QED
    BY <2>1, <2>2
<1> QED
  BY <1>5, <1>6, <1>7, <1>8, <1>9, <1>10

\* Calls that end, or make way for a call of another kind, leave the runs that do
\* not wait for them as they are.
LEMMA EndedCalls ==
    ASSUME TransactionsInv, NEW ended \in SUBSET Calls,
           call' \in [Calls -> Call \cup {NoCall}],
           \A d \in Calls \ ended : call'[d] = call[d],
           \A d \in ended : call'[d].kind # "delete",
           waiting' \subseteq waiting, \A run \in waiting' : run.calls \cap ended = {},
           UNCHANGED <<rows, used, agreed>>
    PROVE  ApiTypeOK' /\ RunInv' /\ AgreedInv' /\ OnlyMeantIsDeleted' /\ GoneInv'
<1>1. ApiTypeOK'
  BY DEF TypeOK, ApiTypeOK
<1>2. \A run \in waiting' : /\ \A d \in run.calls : call'[d] = call[d]
                            /\ {call'[d].id : d \in run.calls} = {call[d].id : d \in run.calls}
  BY DEF TypeOK, Run
<1>3. RunInv'
  BY <1>2 DEF RunInv
<1>4. AgreedInv' /\ OnlyMeantIsDeleted'
  BY DEF AgreedInv, OnlyMeantIsDeleted
<1>5. GoneInv'
  BY DEF GoneInv, Came, Back
<1> QED
  BY <1>1, <1>3, <1>4, <1>5

\* The end of a run sets what it kept; the runs that share no call with it go on.
LEMMA EndsInv ==
    ASSUME TransactionsInv, NEW run \in waiting, DeletionEnds(run)
    PROVE  TransactionsInv'
<1> USE DEF DeletionEnds
<1> DEFINE freed == [d \in Calls |-> IF d \in run.calls THEN NoCall ELSE call[d]]
<1>1. PICK c \in run.calls : FetchExpenses(freed, c)
  OBVIOUS
<1>2. run.calls \subseteq Calls /\ run.kept \subseteq Ids /\ freed \in [Calls -> Call \cup {NoCall}]
  BY DEF TypeOK, ApiTypeOK, Run
<1>3. Sent("list", NoId) \in Call /\ Sent("list", NoId).kind = "list" /\ NoCall.kind = "none"
  BY DEF Sent, Call, Kinds, Statuses, NoCall
<1>4. /\ call' \in [Calls -> Call \cup {NoCall}]
      /\ \A d \in Calls \ run.calls : call'[d] = call[d]
      /\ \A d \in run.calls : call'[d].kind # "delete"
      /\ page' \in {"transactions", "login"}
  BY <1>1, <1>2, <1>3 DEF FetchExpenses, TypeOK
<1>5. \A other \in waiting' : other.calls \cap run.calls = {}
  BY DEF RunInv
<1>6. ApiTypeOK' /\ RunInv' /\ AgreedInv' /\ OnlyMeantIsDeleted' /\ GoneInv'
  BY <1>2, <1>4, <1>5, EndedCalls DEF userVars
<1>7. run.kept \subseteq meant \cup late /\ UNCHANGED userVars
  BY DEF SelectionInv
<1>8. TypeOK'
  BY <1>2, <1>4, <1>6, <1>7 DEF TypeOK, userVars
<1>9. SelectionInv'
  BY <1>7 DEF SelectionInv, userVars
<1>10. KnownInv'
  <2>1. \A d \in run.calls : call'[d].list = {} \/ call'[d] = call[d]
    <3>1. call' = [freed EXCEPT ![c] = Sent("list", NoId)] \/ call' = freed
      BY <1>1 DEF FetchExpenses
    <3>2. Sent("list", NoId).list = {} /\ NoCall.list = {}
      BY DEF Sent, NoCall
    <3> QED
      BY <1>2, <3>1, <3>2
  <2>2. \A d \in Calls : call'[d].list \subseteq used
    BY <2>1, <1>4 DEF KnownInv
  <2>3. selectedIds' \subseteq used
    BY <1>7 DEF KnownInv
  <2> QED
    BY <1>7, <2>2, <2>3 DEF KnownInv, userVars
<1> QED
  BY <1>6, <1>8, <1>9, <1>10

\* What follows an answer.
LEMMA TransactionsAnsweredInv ==
    ASSUME TransactionsInv, NEW c \in Calls, Answered(c)
    PROVE  TransactionsInv'
<1> USE DEF dialogVars, userVars
<1>1. CASE \E run \in waiting : c \in run.calls /\ DeletionEnds(run)
  BY <1>1, EndsInv
<1>2. CASE ListBack(c)
  <2> USE <1>2 DEF ListBack, Back
  <2>1. call[c].kind = "list" /\ call[c] \in Call /\ NoCall.kind = "none"
    BY DEF TypeOK, ApiTypeOK, NoCall
  <2>2. call' \in [Calls -> Call \cup {NoCall}]
    BY DEF TypeOK, ApiTypeOK
  <2>3. /\ \A d \in Calls \ {c} : call'[d] = call[d]
        /\ call'[c].kind = "none"
    BY <2>1 DEF TypeOK, ApiTypeOK
  <2>4. \A run \in waiting : run.calls \cap {c} = {}
    BY <2>1 DEF RunInv
  <2>5. ApiTypeOK' /\ RunInv' /\ AgreedInv' /\ OnlyMeantIsDeleted' /\ GoneInv'
    BY <2>2, <2>3, <2>4, EndedCalls
  <2>6. TypeOK'
    BY <2>1, <2>5 DEF TypeOK, Call
  <2>7. KnownInv'
    <3>1. call'[c].list = {}
      BY DEF TypeOK, ApiTypeOK, NoCall
    <3> QED
      BY <2>3, <3>1 DEF KnownInv
  <2> QED
    BY <2>5, <2>6, <2>7 DEF SelectionInv, Targets
<1>3. ASSUME \/ Forgotten(c)
             \/ \E run \in waiting : c \in run.calls /\ DeletionFails(run)
      PROVE  TransactionsInv'
  <2>1. /\ \E d \in Calls : /\ call' = [call EXCEPT ![d] = NoCall]
                            /\ \A run \in waiting' : d \notin run.calls
        /\ waiting' \subseteq waiting
        /\ UNCHANGED <<rows, used, page, expenses, filter, selectedIds, dialogVars, userVars>>
    <3>1. CASE Forgotten(c)
      BY <3>1 DEF Forgotten
    <3>2. CASE \E run \in waiting : c \in run.calls /\ DeletionFails(run)
      <4>1. PICK run \in waiting : DeletionFails(run)
        BY <3>2
      <4>2. PICK d \in run.calls : call' = [call EXCEPT ![d] = NoCall]
        BY <4>1 DEF DeletionFails
      <4>3. d \in Calls /\ \A other \in waiting' : d \notin other.calls
        BY <4>1, <4>2 DEF DeletionFails, RunInv, TypeOK, Run
      <4> QED
        BY <4>1, <4>2, <4>3 DEF DeletionFails
    <3> QED
      BY <3>1, <3>2, <1>3
  <2>2. PICK d \in Calls : /\ call' = [call EXCEPT ![d] = NoCall]
                           /\ \A run \in waiting' : d \notin run.calls
    BY <2>1
  <2>3. /\ call' \in [Calls -> Call \cup {NoCall}]
        /\ \A e \in Calls \ {d} : call'[e] = call[e]
        /\ call'[d].kind = "none" /\ call'[d].list = {}
    BY <2>2 DEF TypeOK, ApiTypeOK, NoCall
  <2>4. ApiTypeOK' /\ RunInv' /\ AgreedInv' /\ OnlyMeantIsDeleted' /\ GoneInv'
    <3>1. /\ {d} \in SUBSET Calls /\ \A run \in waiting' : run.calls \cap {d} = {}
          /\ \A e \in Calls \ {d} : call'[e] = call[e]
          /\ \A e \in {d} : call'[e].kind # "delete"
      BY <2>2, <2>3
    <3> QED
      BY <2>1, <2>3, <3>1, EndedCalls
  <2>5. TypeOK' /\ SelectionInv'
    BY <2>1, <2>4 DEF TypeOK, SelectionInv, Targets
  <2>6. KnownInv'
    BY <2>1, <2>3 DEF KnownInv
  <2> QED
    BY <2>4, <2>5, <2>6
<1> QED
  BY <1>1, <1>2, <1>3 DEF Answered

-----------------------------------------------------------------------------

\* The inductive invariant of Transactions.jsx, for any rows and any number of
\* deletions under way at once.
THEOREM TransactionsSafety == Spec => []TransactionsInv
<1>1. Init => TransactionsInv
  BY TransactionsInitInv
<1>2. TransactionsInv /\ [Next]_vars => TransactionsInv'
  <2> SUFFICES ASSUME TransactionsInv, [Next]_vars PROVE TransactionsInv'
    OBVIOUS
  <2>1. CASE UNCHANGED vars
    BY <2>1 DEF vars, apiVars, dialogVars, userVars, TypeOK, ApiTypeOK, SelectionInv, Targets, RunInv,
                AgreedInv, OnlyMeantIsDeleted, KnownInv, GoneInv, Came, Back
  <2>2. CASE User
    BY <2>2, ClickInv, ExecuteInv
  <2>3. CASE \E c \in Calls : ServeCall(c) \/ Answered(c)
    BY <2>3, TransactionsServeInv, TransactionsAnsweredInv
  <2> QED
    BY <2>1, <2>2, <2>3 DEF Next
<1> QED
  BY <1>1, <1>2, PTL DEF Spec

\* No row is deleted that did not stand in the dialog the user confirmed.
THEOREM OnlyMeant == Spec => []OnlyMeantIsDeleted
<1>1. TransactionsInv => OnlyMeantIsDeleted
  OBVIOUS
<1> QED
  BY <1>1, TransactionsSafety, PTL

\* "Transaction(s) deleted" is true after a run whose answers were all 200: each call
\* of the run is for a row of it that is gone, and each row of it has a call.
THEOREM AllOkAreGone == Spec => []AllOkMeansGone
<1>1. TransactionsInv => AllOkMeansGone
  <2> SUFFICES ASSUME TransactionsInv, NEW run \in waiting,
                      \A c \in run.calls : Came(c) /\ call[c].status = "ok",
                      NEW x \in run.ids
               PROVE  x \notin rows
    BY DEF AllOkMeansGone
  <2>1. PICK c \in run.calls : x = call[c].id
    BY DEF RunInv
  <2>2. c \in Calls
    BY DEF TypeOK, Run
  <2> QED
    BY <2>1, <2>2 DEF GoneInv
<1> QED
  BY <1>1, TransactionsSafety, PTL
=============================================================================
