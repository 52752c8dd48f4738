--------------------------- MODULE BackendProofs ----------------------------
(***************************************************************************)
(* What is proved of Backend, for any sets of requests, accounts, inputs   *)
(* and workers.  Every proof is by cases over the same kinds of step, see  *)
(* NextCases.                                                              *)
(***************************************************************************)
EXTENDS Backend, SequenceTheorems, TLAPS

\* The first step of a handler either rejects its request, or queries.
Ask(w, r, i) == Receive(w, r, i, i.op)

RejectStep(w, r, i) ==
    /\ Ask(w, r, i)
    /\ \E code \in {400, 401, 500} : Reject(r, code) /\ (code = 401 => i.op # "login")

QueryStep(w, r, i) ==
    /\ Ask(w, r, i) /\ Admitted(i)
    /\ Query(w, r, i.op)

\* Whatever its endpoint, a handler starts in one of two ways.
LEMMA HandleCases ==
    ASSUME NEW w \in Workers, NEW r \in Requests, NEW i \in Inputs, Handle(w, r, i)
    PROVE  RejectStep(w, r, i) \/ QueryStep(w, r, i)
<1> USE DEF RejectStep, QueryStep, Ask, Receive, Admitted, HoldsText
<1>1. CASE AddExpense(w, r, i)
  BY <1>1 DEF AddExpense, Add, Unauthorized, BadBody
<1>2. CASE AddBudget(w, r, i)
  BY <1>2 DEF AddBudget, Add, Unauthorized, BadBody
<1>3. CASE AddSaving(w, r, i)
  BY <1>3 DEF AddSaving, Add, Unauthorized, BadBody
<1>4. CASE AddGoal(w, r, i)
  BY <1>4 DEF AddGoal, Add, Unauthorized, BadBody
<1>5. CASE GetExpenses(w, r, i)
  BY <1>5 DEF GetExpenses, Get, Unauthorized
<1>6. CASE GetBudgets(w, r, i)
  BY <1>6 DEF GetBudgets, Get, Unauthorized
<1>7. CASE GetSavings(w, r, i)
  BY <1>7 DEF GetSavings, Get, Unauthorized
<1>8. CASE GetGoals(w, r, i)
  BY <1>8 DEF GetGoals, Get, Unauthorized
<1>9. CASE DeleteExpense(w, r, i)
  BY <1>9 DEF DeleteExpense, Unauthorized
<1>10. CASE RegisterUser(w, r, i)
  BY <1>10 DEF RegisterUser, BadBody
<1>11. CASE Login(w, r, i)
  BY <1>11 DEF Login, BadBody
<1> QED
  BY <1>1, <1>2, <1>3, <1>4, <1>5, <1>6, <1>7, <1>8, <1>9, <1>10, <1>11 DEF Handle

\* The steps of the system, as the proofs tell them apart.
LEMMA NextCases ==
    ASSUME [Next]_vars
    PROVE  \/ \E w \in Workers, r \in Requests, i \in Inputs :
                  RejectStep(w, r, i) \/ QueryStep(w, r, i)
           \/ ServerExecute \/ ExecuteLate
           \/ \E w \in Workers : ReadReply(w) \/ StoreResult(w) \/ Give(w)
           \/ DropLink
           \/ Restart
           \/ UNCHANGED vars
BY HandleCases DEF Next

-----------------------------------------------------------------------------
(* Types *)

\* The codes the handlers answer with.
LEMMA CodeTypes ==
    ASSUME NEW op
    PROVE  /\ FailureCode(op) \in {200, 400, 401, 500} /\ FailureCode(op) \in Codes
           /\ SuccessCode(op) \in {200, 201} /\ SuccessCode(op) \in Codes
BY DEF FailureCode, SuccessCode, Codes

\* The replies of the server are packets.
LEMMA ReplyType ==
    ASSUME NEW r \in Requests, NEW accepted, NEW selects
    PROVE  ReplyTo(r, accepted, selects) \in Seq(Packet)
<1> DEFINE P(k) == [kind |-> k, req |-> r]
<1>1. P("err") \in Packet /\ P("ok") \in Packet /\ P("header") \in Packet /\ P("rows") \in Packet
  BY DEF Packet
<1>2. <<P("err")>> \in Seq(Packet) /\ <<P("ok")>> \in Seq(Packet)
      /\ <<P("header"), P("rows")>> \in Seq(Packet)
  BY <1>1
<1> QED
  BY <1>2 DEF ReplyTo

\* What StatementOf makes of an input is a statement.
LEMMA StatementType ==
    ASSUME NEW r \in Requests, NEW i \in Inputs, Admitted(i)
    PROVE  StatementOf(r, i) \in Statement
BY InputsAssumption DEF StatementOf, Statement, HttpRequest, VerifyJWT, Admitted, Readable, Texts

\* Executing a statement keeps the database well typed.
LEMMA ExecuteType ==
    ASSUME NEW s \in Statement, DbTypeOK, Execute(s)
    PROVE  DbTypeOK'
<1> USE DEF DbTypeOK, Statement, Outcome, Row, Record
<1>1. CASE RefuseStatement(s)
  BY <1>1 DEF RefuseStatement
<1>2. CASE InsertRow(s)
  BY <1>2 DEF InsertRow
<1>3. CASE InsertRowsToo(s)
  <2>1. PICK owners \in SUBSET DOMAIN users :
            tables' = [tables EXCEPT ![s.table] = @ \cup {[id |-> s.req, user |-> u] : u \in owners \cup {s.user}}]
    BY <1>3 DEF InsertRowsToo
  <2>2. DOMAIN users \subseteq Int
    BY LenProperties
  <2>3. {[id |-> s.req, user |-> u] : u \in owners \cup {s.user}} \subseteq Row
    BY <2>2
  <2>4. tables' \in [Tables -> SUBSET Row]
    BY <2>1, <2>3
  <2> QED
    BY <1>3, <2>4 DEF InsertRowsToo
<1>4. CASE DeleteRows(s)
  <2>1. {x.id : x \in {y \in tables["Expenses"] : y.id = s.target}} \subseteq Requests
    BY DEF Tables
  <2> QED
    BY <1>4, <2>1 DEF DeleteRows, Tables
<1>5. CASE SelectRows(s)
  <2>1. RowsOf(s.table, s.user) \subseteq Requests
    BY DEF RowsOf
  <2> QED
    BY <1>5, <2>1 DEF SelectRows
<1>6. CASE InsertUser(s)
  BY <1>6 DEF InsertUser
<1>7. CASE RewriteUser(s)
  <2>1. ASSUME NEW a \in Accounts, NEW u \in DOMAIN users, users' = [users EXCEPT ![u] = a]
        PROVE  users' \in Seq(Accounts)
    BY <2>1
  <2>2. ASSUME NEW a \in Accounts, users' = Append(users, a)
        PROVE  users' \in Seq(Accounts)
    BY <2>2
  <2>3. users' \in Seq(Accounts)
    BY <1>7, <2>1, <2>2 DEF RewriteUser
  <2> QED
    BY <1>7, <2>3 DEF RewriteUser
<1>8. CASE SelectUser(s)
  <2>1. UserOf(s.account.email) \subseteq [id : Nat, pw : Passwords]
    BY LenProperties DEF UserOf, Passwords
  <2> QED
    BY <1>8, <2>1 DEF SelectUser
<1>9. CASE SelectAnyUser(s)
  <2>1. 1..Len(users) + 1 \subseteq Nat
    OBVIOUS
  <2>2. \A u \in 1..Len(users) + 1, pw \in Passwords : {[id |-> u, pw |-> pw]} \subseteq [id : Nat, pw : Passwords]
    BY <2>1
  <2> QED
    BY <1>9, <2>2 DEF SelectAnyUser
<1> QED
  BY <1>1, <1>2, <1>3, <1>4, <1>5, <1>6, <1>7, <1>8, <1>9 DEF Execute

\* The client side of a handler's end is well typed.
LEMMA FinishType ==
    ASSUME TypeOK, NEW w \in Workers, NEW code \in Codes, NEW rows \in SUBSET Requests,
           NEW token \in Nat, Finish(w, code, rows, token), raced' = raced
    PROVE  /\ answer' \in [Requests -> Answer]
           /\ tokens' \subseteq Nat
           /\ pc' \in [Workers -> {"idle", "reply", "store", "answer"}]
           /\ job' \in [Workers -> Requests \cup {NoRequest}]
<1>1. [code |-> code, rows |-> rows, token |-> token, raced |-> raced', up |-> link = "up"] \in Answer
  BY DEF TypeOK, Answer
<1> QED
  BY <1>1 DEF TypeOK, Finish, Respond

\* Reading a packet, or failing to, keeps the connection well typed.
LEMMA TakeType ==
    ASSUME ConnTypeOK,
           \/ stream # <<>> /\ (TakeOk \/ TakeError \/ TakeHeader)
           \/ TakeRows
           \/ UNCHANGED connVars
    PROVE  ConnTypeOK'
<1>1. stream # <<>> => Tail(stream) \in Seq(Packet)
  BY HeadTailProperties DEF ConnTypeOK
<1> QED
  BY <1>1 DEF ConnTypeOK, TakeOk, TakeError, TakeHeader, TakeRows, connVars

\* Request r, which was made, is executed now and never was before.
Executes(r) ==
    /\ UnderWay(r) /\ outcome[r] = NotDone
    /\ input[r] \in Inputs
    /\ StatementOf(r, input[r]) \in Statement /\ Execute(StatementOf(r, input[r]))
    /\ UNCHANGED <<link, status, fields, input, answer, tokens, pc, job, raced, known>>

\* What is left open by the answer of r, if there is one: a race or a lost link preceded it.
Open(r) == answer[r].code = Pending \/ answer[r].raced \/ ~answer[r].up \/ answer[r].code = Lost

\* Only a request under way on the connection, or on a lost one, is executed.
LEMMA HeadExecutes ==
    ASSUME TypeOK, UnaskedInv, SentInv, ServerExecute
    PROVE  /\ Head(sent) \in Requests /\ Executes(Head(sent)) /\ Open(Head(sent))
           /\ Head(sent) \notin late /\ late' = late /\ link = "up"
<1> DEFINE r == Head(sent)
<1>1. r \in Requests /\ r = sent[1] /\ 1 \in DOMAIN sent
  BY HeadTailProperties, LenProperties DEF ServerExecute, TypeOK, ConnTypeOK
<1>2. UnderWay(r) /\ Open(r) /\ r \notin late
  BY <1>1 DEF SentInv, Open
<1>3. input[r] \in Inputs /\ outcome[r] = NotDone
  BY <1>1, <1>2 DEF UnderWay, UnaskedInv, TypeOK
<1>4. StatementOf(r, input[r]) \in Statement
  BY <1>1, <1>2, <1>3, StatementType DEF UnderWay
<1>5. link = "up"
  BY DEF SentInv, ServerExecute, TypeOK, ConnTypeOK
<1> QED
  BY <1>1, <1>2, <1>3, <1>4, <1>5 DEF ServerExecute, Executes

LEMMA LateExecutes ==
    ASSUME TypeOK, UnaskedInv, LateInv, ExecuteLate
    PROVE  \E r \in late : /\ r \in Requests /\ Executes(r) /\ Open(r)
                           /\ late' = late \ {r} /\ UNCHANGED <<sent, stream>>
<1>1. PICK r \in late : Execute(StatementOf(r, input[r])) /\ late' = late \ {r}
  BY DEF ExecuteLate
<1>2. r \in Requests /\ UnderWay(r) /\ Open(r)
  BY <1>1 DEF LateInv, Open, TypeOK, ConnTypeOK
<1>3. input[r] \in Inputs /\ outcome[r] = NotDone
  BY <1>2 DEF UnderWay, UnaskedInv, TypeOK
<1>4. StatementOf(r, input[r]) \in Statement
  BY <1>2, <1>3, StatementType DEF UnderWay
<1> QED
  BY <1>1, <1>2, <1>3, <1>4 DEF ExecuteLate, Executes

\* Only statements that were on the connection are left behind with it.
LEMMA LeftBehind ==
    ASSUME ConnTypeOK, LeaveBehind
    PROVE  late' \subseteq Requests /\ \A r \in late' \ late : \E m \in DOMAIN sent : sent[m] = r
<1>1. \A m \in DOMAIN sent : sent[m] \in Requests
  BY ElementOfSeq, LenProperties DEF ConnTypeOK
<1> QED
  BY <1>1 DEF LeaveBehind, ConnTypeOK

\* TypeOK is kept by every step; that statements on their way come from
\* requests that were made is needed for the statement executed.
LEMMA TypeStep ==
    ASSUME TypeOK, UnaskedInv, WorkerInv, SentInv, LateInv, [Next]_vars
    PROVE  TypeOK'
<1>1. ASSUME NEW w \in Workers, NEW r \in Requests, NEW i \in Inputs, RejectStep(w, r, i)
      PROVE  TypeOK'
  <2>1. PICK code \in {400, 401, 500} : Reject(r, code)
    BY <1>1 DEF RejectStep
  <2>2. [code |-> code, rows |-> {}, token |-> NoToken, raced |-> raced, up |-> link = "up"] \in Answer
    BY DEF TypeOK, Answer, Codes, NoToken
  <2>3. answer' \in [Requests -> Answer]
    BY <2>1, <2>2 DEF Reject, Respond, TypeOK
  <2>4. input' \in [Requests -> Inputs \cup {NoInput}]
    BY <1>1 DEF RejectStep, Ask, Receive, TypeOK
  <2>5. known' \in [Requests -> SUBSET Requests]
    BY <1>1 DEF RejectStep, Ask, Receive, TypeOK
  <2> QED
    BY <2>1, <2>3, <2>4, <2>5 DEF Reject, TypeOK, DbTypeOK, ConnTypeOK, dbVars, connVars
<1>2. ASSUME NEW w \in Workers, NEW r \in Requests, NEW i \in Inputs, QueryStep(w, r, i)
      PROVE  TypeOK'
  <2>1. /\ raced' \in BOOLEAN /\ input' \in [Requests -> Inputs \cup {NoInput}]
        /\ known' \in [Requests -> SUBSET Requests] /\ DbTypeOK' /\ tokens' \subseteq Nat
    BY <1>2 DEF QueryStep, Ask, Receive, Query, TypeOK, DbTypeOK, dbVars
  <2>2. CASE Send(r) /\ pc' = [pc EXCEPT ![w] = "reply"] /\ job' = [job EXCEPT ![w] = r] /\ UNCHANGED answer
    <3>1. sent' \in Seq(Requests)
      BY <2>2, AppendProperties DEF Send, TypeOK, ConnTypeOK
    <3>2. ConnTypeOK'
      BY <2>2, <3>1 DEF Send, TypeOK, ConnTypeOK
    <3> QED
      BY <2>1, <2>2, <3>2 DEF TypeOK
  <2>3. CASE SendFails /\ Respond(r, FailureCode(i.op), {}, NoToken) /\ UNCHANGED <<pc, job>>
    <3>1. [code |-> FailureCode(i.op), rows |-> {}, token |-> NoToken, raced |-> raced', up |-> link = "up"] \in Answer
      BY <2>1, CodeTypes DEF Answer, NoToken
    <3> QED
      BY <2>1, <2>3, <3>1 DEF SendFails, Respond, TypeOK, ConnTypeOK
  <2> QED
    BY <1>2, <2>2, <2>3 DEF QueryStep, Query
<1>3. CASE ServerExecute
  <2> DEFINE r == Head(sent)
  <2>1. r \in Requests /\ Executes(r) /\ late' = late
    BY <1>3, HeadExecutes
  <2>2. DbTypeOK'
    BY <2>1, ExecuteType DEF Executes, TypeOK
  <2>3. Tail(sent) \in Seq(Requests)
    BY <1>3, HeadTailProperties DEF ServerExecute, TypeOK, ConnTypeOK
  <2>4. stream' \in Seq(Packet)
    <3>1. ReplyTo(r, outcome'[r].done = "done", Selects(input[r].op)) \in Seq(Packet)
      BY <2>1, ReplyType
    <3> QED
      BY <1>3, <3>1, ConcatProperties DEF ServerExecute, TypeOK, ConnTypeOK
  <2> QED
    BY <1>3, <2>1, <2>2, <2>3, <2>4 DEF ServerExecute, TypeOK, ConnTypeOK
<1>9. CASE ExecuteLate
  <2>1. PICK r \in late : r \in Requests /\ Executes(r) /\ late' = late \ {r} /\ UNCHANGED <<sent, stream>>
    BY <1>9, LateExecutes
  <2>2. DbTypeOK'
    BY <2>1, ExecuteType DEF Executes, TypeOK
  <2> QED
    BY <2>1, <2>2 DEF Executes, TypeOK, ConnTypeOK
<1>10. ASSUME NEW w \in Workers, Give(w)
       PROVE  TypeOK'
  <2>1. answer[job[w]].token \in Nat
    BY <1>10 DEF Give, WorkerInv, TypeOK, Answer
  <2> QED
    BY <1>10, <2>1 DEF Give, TypeOK, DbTypeOK, ConnTypeOK, dbVars, connVars
<1>4. ASSUME NEW w \in Workers, ReadReply(w)
      PROVE  TypeOK'
  <2>1. QuerySucceeded(w) \/ QueryFailed(w)
    BY <1>4 DEF ReadReply, ReadOk, ReadError, ReadHeader, ReadNothing, ReadGarbled
  <2>2. ConnTypeOK'
    BY <1>4, TakeType DEF ReadReply, ReadOk, ReadError, ReadHeader, ReadNothing, ReadGarbled,
                          TypeOK, HeadIs
  <2>3. raced' = raced /\ UNCHANGED <<dbVars, input, known>>
    BY <1>4 DEF ReadReply
  <2>4. CASE QuerySucceeded(w) /\ Selects(Op(w))
    BY <2>2, <2>3, <2>4 DEF QuerySucceeded, TypeOK, DbTypeOK, dbVars
  <2>5. ASSUME NEW code \in Codes, Finish(w, code, {}, NoToken)
        PROVE  TypeOK'
    BY <2>2, <2>3, <2>5, FinishType DEF TypeOK, DbTypeOK, dbVars, NoToken
  <2> QED
    BY <2>1, <2>4, <2>5, CodeTypes DEF QuerySucceeded, QueryFailed
<1>5. ASSUME NEW w \in Workers, StoreResult(w)
      PROVE  TypeOK'
  <2>1. ConnTypeOK'
    BY <1>5, TakeType DEF StoreResult, StoreNull, StoreNothing, StoreForeign, StoreRows, TypeOK
  <2>2. raced' = raced /\ UNCHANGED <<dbVars, input, known>>
    BY <1>5 DEF StoreResult
  <2>3. ASSUME NEW code \in Codes, NEW rows \in SUBSET Requests, NEW token \in Nat,
               Finish(w, code, rows, token)
        PROVE  TypeOK'
    BY <2>1, <2>2, <2>3, FinishType DEF TypeOK, DbTypeOK, dbVars
  <2>4. CASE NoResult(w)
    BY <2>3, <2>4, CodeTypes DEF NoResult, NoToken
  <2>5. CASE StoreRows(w)
    <3> DEFINE q == Head(stream).req
    <3>1. q \in Requests
      <4>1. Head(stream) \in Packet
        BY <2>5, HeadTailProperties DEF StoreRows, HeadIs, TypeOK, ConnTypeOK
      <4> QED
        BY <4>1 DEF Packet
    <3>2. outcome[q].rows \in SUBSET Requests /\ \A f \in outcome[q].found : f.id \in Nat
      BY <3>1 DEF TypeOK, DbTypeOK, Outcome
    <3>3. 200 \in Codes /\ 500 \in Codes
      BY DEF Codes
    <3> QED
      BY <2>3, <2>4, <2>5, <3>2, <3>3 DEF StoreRows, UseLoginRow, UseListRows, NoToken
  <2> QED
    BY <1>5, <2>4, <2>5 DEF StoreResult, StoreNull, StoreNothing, StoreForeign
<1>6. CASE DropLink
  <2>1. ASSUME NEW n \in 0..Len(stream)
        PROVE  SubSeq(stream, 1, n) \in Seq(Packet)
    BY SubSeqProperties, ElementOfSeq DEF TypeOK, ConnTypeOK
  <2>2. late' \subseteq Requests
    BY <1>6, LeftBehind DEF DropLink, LoseLink, TypeOK
  <2> QED
    BY <1>6, <2>1, <2>2, EmptySeq DEF DropLink, LoseLink, LeaveBehind, TypeOK, ConnTypeOK, DbTypeOK, dbVars
<1>7. CASE Restart
  <2>1. [NoAnswer EXCEPT !.code = Lost] \in Answer
    BY DEF NoAnswer, NoToken, Answer, Codes, Lost
  <2>2. answer' \in [Requests -> Answer]
    BY <1>7, <2>1 DEF Restart, TypeOK
  <2>3. ConnTypeOK'
    BY <1>7, EmptySeq, LeftBehind DEF Restart, Reconnected, LeaveBehind, ConnTypeOK, TypeOK
  <2> QED
    BY <1>7, <2>2, <2>3 DEF Restart, TypeOK, DbTypeOK, dbVars
<1>8. CASE UNCHANGED vars
  BY <1>8 DEF vars, dbVars, connVars, TypeOK, DbTypeOK, ConnTypeOK
<1> QED
  BY <1>1, <1>2, <1>3, <1>4, <1>5, <1>6, <1>7, <1>8, <1>9, <1>10, NextCases

-----------------------------------------------------------------------------
(* What a step leaves alone *)

\* Executing a statement changes the outcome of its own request only.
LEMMA ExecuteRecords ==
    ASSUME NEW s, Execute(s)
    PROVE  \E done \in {"refused", "done"} :
               \E rows, found :
                   outcome' = [outcome EXCEPT ![s.req] = [done |-> done, rows |-> rows, found |-> found]]
BY DEF Execute, RefuseStatement, InsertRow, InsertRowsToo, DeleteRows, SelectRows, InsertUser, RewriteUser,
       SelectUser, SelectAnyUser, Record

LEMMA ExecutesFrame ==
    ASSUME TypeOK, NEW r \in Requests, Executes(r)
    PROVE  /\ outcome'[r].done \in {"refused", "done"}
           /\ \A q \in Requests \ {r} : outcome'[q] = outcome[q]
           /\ outcome[r].done = "no" /\ input[r] # NoInput
<1>1. PICK done \in {"refused", "done"} :
          \E rows, found :
              outcome' = [outcome EXCEPT ![r] = [done |-> done, rows |-> rows, found |-> found]]
  <2>1. Execute(StatementOf(r, input[r])) /\ StatementOf(r, input[r]).req = r
    BY DEF Executes, StatementOf
  <2> QED
    BY <2>1, ExecuteRecords
<1> QED
  BY <1>1 DEF TypeOK, DbTypeOK, Executes, UnderWay

\* A list is never refused, and a statement that is finds nothing.
LEMMA RefusalFinds ==
    ASSUME TypeOK, NEW r \in Requests, Executes(r), outcome'[r].done = "refused"
    PROVE  outcome'[r].rows = {} /\ outcome'[r].found = {} /\ input[r].op # "select"
<1> DEFINE s == StatementOf(r, input[r])
<1>1. Execute(s) /\ s.req = r /\ s.op = input[r].op /\ (s.op = "select" => s.text = "good")
  BY DEF Executes, StatementOf, HoldsText
<1> HIDE DEF s
<1>2. RefuseStatement(s)
  BY <1>1 DEF Execute, InsertRow, InsertRowsToo, DeleteRows, SelectRows, InsertUser, RewriteUser,
              SelectUser, SelectAnyUser, Record, TypeOK, DbTypeOK
<1> QED
  BY <1>1, <1>2 DEF RefuseStatement, Accepts, Spliced, Record, TypeOK, DbTypeOK

\* The handler of w makes an answer that records whether there was a race.
Ends(w) ==
    /\ \E a \in Answer : /\ a.code \in {200, 201, 400, 401, 500}
                         /\ a.raced = raced /\ (link = "down" => ~a.up)
                         /\ answer' = [answer EXCEPT ![job[w]] = a]
    /\ pc' = [pc EXCEPT ![w] = "answer"]
    /\ UNCHANGED <<job, tokens>>

Continues(w) == pc' = [pc EXCEPT ![w] = "store"] /\ UNCHANGED <<job, answer, tokens>>

\* A handler that goes on either waits for rows or ends with an answer.
LEMMA ProgressCases ==
    ASSUME TypeOK, NEW w \in Workers, ReadReply(w) \/ StoreResult(w)
    PROVE  /\ InLibrary(w)
           /\ UNCHANGED <<dbVars, input, raced, known, link, sent, late>>
           /\ Gone => Gone'
           /\ Continues(w) \/ Ends(w)
<1>1. ASSUME NEW code \in {200, 201, 400, 401, 500}, NEW rows \in SUBSET Requests, NEW token \in Nat,
             Finish(w, code, rows, token), raced' = raced
      PROVE  Ends(w)
  <2> DEFINE a == [code |-> code, rows |-> rows, token |-> token, raced |-> raced', up |-> link = "up"]
  <2>1. a \in Answer /\ a.code = code /\ a.raced = raced
    BY <1>1 DEF TypeOK, Answer, Codes
  <2>2. link = "down" => ~a.up
    <3>1. "down" # "up"
      OBVIOUS
    <3>2. a.up = (link = "up")
      OBVIOUS
    <3> QED
      BY <3>1, <3>2, Zenon
  <2>3. answer' = [answer EXCEPT ![job[w]] = a]
    BY <1>1 DEF Finish, Respond
  <2> HIDE DEF a
  <2> QED
    BY <1>1, <2>1, <2>2, <2>3 DEF Finish, Ends
<1>2. ASSUME ReadReply(w)
      PROVE  /\ InLibrary(w)
             /\ UNCHANGED <<dbVars, input, raced, known, link, sent, late>>
             /\ Gone => Gone'
             /\ QuerySucceeded(w) \/ QueryFailed(w)
  BY <1>2 DEF ReadReply, ReadOk, ReadError, ReadHeader, ReadNothing, ReadGarbled, TakeOk, TakeError,
              TakeHeader, connVars, InLibrary, Gone, HeadIs
<1>3. ASSUME StoreResult(w)
      PROVE  /\ InLibrary(w)
             /\ UNCHANGED <<dbVars, input, raced, known, link, sent, late>>
             /\ Gone => Gone'
             /\ NoResult(w) \/ StoreRows(w)
  BY <1>3 DEF StoreResult, StoreNull, StoreNothing, StoreForeign, StoreRows, TakeRows, connVars, InLibrary, Gone
<1>4. ASSUME StoreRows(w), raced' = raced
      PROVE  Ends(w)
  <2> DEFINE q == Head(stream).req
  <2>1. Head(stream) \in Packet
    BY <1>4, HeadTailProperties DEF StoreRows, HeadIs, TypeOK, ConnTypeOK
  <2>2. outcome[q].rows \in SUBSET Requests /\ \A f \in outcome[q].found : f.id \in Nat
    BY <2>1 DEF TypeOK, DbTypeOK, Outcome, Packet
  <2>3. NoResult(w) \/ \E code \in {200, 500}, rows \in SUBSET Requests, token \in Nat : Finish(w, code, rows, token)
    BY <1>4, <2>2 DEF StoreRows, UseLoginRow, UseListRows, NoToken
  <2> QED
    BY <1>1, <1>4, <2>3, CodeTypes DEF NoResult, NoToken
<1>5. ASSUME NoResult(w), raced' = raced
      PROVE  Ends(w)
  BY <1>1, <1>5, CodeTypes DEF NoResult, NoToken
<1>6. ASSUME QuerySucceeded(w), raced' = raced
      PROVE  Continues(w) \/ Ends(w)
  BY <1>1, <1>6, CodeTypes DEF QuerySucceeded, NoToken, Continues
<1>7. ASSUME QueryFailed(w), raced' = raced
      PROVE  Ends(w)
  BY <1>1, <1>7, CodeTypes DEF QueryFailed, NoToken
<1> QED
  BY <1>2, <1>3, <1>4, <1>5, <1>6, <1>7

\* A handler that is alone and goes on has nothing under way to the server.
LEMMA AloneReads ==
    ASSUME TypeOK, AloneInv, ~raced, NEW w \in Workers, ReadReply(w) \/ StoreResult(w)
    PROVE  sent = <<>>
<1>1. CASE ReadReply(w)
  <2>1. stream # <<>> \/ Gone
    BY <1>1 DEF ReadReply, ReadOk, ReadError, ReadHeader, ReadNothing, ReadGarbled, HeadIs
  <2>2. Awaiting(job[w]) \/ Abandoned \/ Replied(job[w]) \/ Truncated(job[w])
    BY <1>1 DEF ReadReply, AloneInv, InDialogue, InLibrary
  <2> QED
    BY <2>1, <2>2 DEF Awaiting, Abandoned, Replied, Truncated, Gone
<1>2. CASE StoreResult(w)
  BY <1>2 DEF StoreResult, AloneInv, InDialogue, InLibrary, Described, CutShort, Abandoned
<1> QED
  BY <1>1, <1>2

-----------------------------------------------------------------------------
(* The parts of the invariant that hold with or without races *)

\* A request leaves traces only once it is made, in the database only once it
\* is executed, and an answer is made all at once.
LEMMA UnaskedStep ==
    ASSUME TypeOK, UnaskedInv, WorkerInv, SentInv, LateInv, [Next]_vars
    PROVE  UnaskedInv'
<1>1. ASSUME NEW w \in Workers, NEW r \in Requests, NEW i \in Inputs,
             RejectStep(w, r, i) \/ QueryStep(w, r, i)
      PROVE  UnaskedInv'
  <2>1. i # NoInput /\ input' = [input EXCEPT ![r] = i] /\ outcome' = outcome
    BY <1>1, InputsAssumption DEF RejectStep, QueryStep, Ask, Receive, Reject, Query, dbVars
  <2>2. \A q \in Requests \ {r} : answer'[q] = answer[q]
    BY <1>1 DEF RejectStep, QueryStep, Reject, Query, Respond, TypeOK
  <2>3. answer' = answer \/ answer'[r].code # Pending
    BY <1>1, CodeTypes DEF RejectStep, QueryStep, Reject, Query, Respond, TypeOK, Pending
  <2>4. outcome[r].done = "no"
    BY <1>1 DEF RejectStep, QueryStep, Ask, Receive, UnaskedInv
  <2> QED
    BY <2>1, <2>2, <2>3, <2>4 DEF UnaskedInv, TypeOK
<1>2. ASSUME NEW r \in Requests, Executes(r)
      PROVE  UnaskedInv'
  <2>1. ASSUME outcome'[r].done = "refused"
        PROVE  outcome'[r].rows = {} /\ outcome'[r].found = {} /\ input[r].op # "select"
    BY <1>2, <2>1, RefusalFinds
  <2> QED
    BY <1>2, <2>1, ExecutesFrame DEF Executes, UnaskedInv
<1>3. ASSUME NEW w \in Workers, ReadReply(w) \/ StoreResult(w)
      PROVE  UnaskedInv'
  BY <1>3, ProgressCases DEF UnaskedInv, WorkerInv, TypeOK, dbVars, Continues, Ends, InLibrary, Pending
<1>4. ASSUME NEW w \in Workers, Give(w)
      PROVE  UnaskedInv'
  BY <1>4 DEF Give, UnaskedInv, dbVars
<1>5. CASE DropLink
  BY <1>5 DEF DropLink, UnaskedInv, dbVars
<1>6. CASE Restart
  <2>1. ASSUME NEW r \in Requests, input[r] = NoInput
        PROVE  answer'[r] = answer[r]
    BY <1>6, <2>1, NoRequestAssumption DEF Restart, WorkerInv
  <2>2. ASSUME NEW r \in Requests, answer'[r].code = Pending
        PROVE  answer'[r] = answer[r]
    BY <1>6, <2>2 DEF Restart, NoAnswer, Pending, Lost
  <2> QED
    BY <1>6, <2>1, <2>2 DEF Restart, UnaskedInv, dbVars
<1>7. CASE UNCHANGED vars
  BY <1>7 DEF vars, dbVars, UnaskedInv
<1> QED
  BY <1>1, <1>2, <1>3, <1>4, <1>5, <1>6, <1>7, NextCases, HeadExecutes, LateExecutes

\* A new request touches no worker, no statement and no answer of another.
LEMMA AskFrame ==
    ASSUME TypeOK, NEW w \in Workers, NEW r \in Requests, NEW i \in Inputs,
           RejectStep(w, r, i) \/ QueryStep(w, r, i)
    PROVE  /\ pc[w] = "idle" /\ input[r] = NoInput /\ i # NoInput
           /\ input' = [input EXCEPT ![r] = i]
           /\ UNCHANGED <<dbVars, link, status, stream, late, tokens>>
           /\ \A q \in Requests \ {r} : known'[q] = known[q]
           /\ \A q \in Requests \ {r} : answer'[q] = answer[q]
           /\ \/ UNCHANGED <<pc, job, sent>>
              \/ /\ Send(r) /\ UNCHANGED answer
                 /\ pc' = [pc EXCEPT ![w] = "reply"]
                 /\ job' = [job EXCEPT ![w] = r]
<1>1. /\ pc[w] = "idle" /\ input[r] = NoInput /\ i # NoInput /\ input' = [input EXCEPT ![r] = i]
      /\ \A q \in Requests \ {r} : known'[q] = known[q]
  BY InputsAssumption DEF RejectStep, QueryStep, Ask, Receive, TypeOK
<1>2. CASE RejectStep(w, r, i)
  BY <1>1, <1>2 DEF RejectStep, Reject, Respond, TypeOK, connVars
<1>3. CASE Send(r) /\ QueryStep(w, r, i)
  BY <1>1, <1>3 DEF QueryStep, Query, Send, SendFails, TypeOK
<1>4. CASE SendFails /\ QueryStep(w, r, i)
  BY <1>1, <1>4 DEF QueryStep, Query, Send, SendFails, Respond, TypeOK
<1> QED
  BY <1>2, <1>3, <1>4 DEF QueryStep, Query

\* A worker runs one handler, nobody else runs it, and its client still waits.
LEMMA WorkerStep ==
    ASSUME TypeOK, UnaskedInv, WorkerInv, SentInv, LateInv, [Next]_vars
    PROVE  WorkerInv'
<1>0. \A w \in Workers : pc[w] \in {"idle", "reply", "store", "answer"}
  BY DEF TypeOK
<1>1. ASSUME NEW w \in Workers, NEW r \in Requests, NEW i \in Inputs,
             RejectStep(w, r, i) \/ QueryStep(w, r, i)
      PROVE  WorkerInv'
  <2>1. \A v \in Workers : pc[v] # "idle" => job[v] # r
    BY <1>1, AskFrame DEF WorkerInv
  <2>2. CASE UNCHANGED <<pc, job, sent>>
    BY <1>1, <2>1, <2>2, AskFrame DEF WorkerInv, InLibrary, TypeOK
  <2>3. CASE /\ Send(r) /\ UNCHANGED answer
             /\ pc' = [pc EXCEPT ![w] = "reply"]
             /\ job' = [job EXCEPT ![w] = r]
    <3>1. answer[r].code = Pending
      BY <1>1, AskFrame DEF UnaskedInv, NoAnswer
    <3>2. /\ pc'[w] = "reply" /\ job'[w] = r /\ input'[r] # NoInput /\ answer'[r].code = Pending
          /\ \A v \in Workers \ {w} : pc'[v] = pc[v] /\ job'[v] = job[v]
          /\ \A q \in Requests : input[q] # NoInput => input'[q] # NoInput
      BY <1>1, <2>3, <3>1, AskFrame DEF TypeOK
    <3>3. \A v \in Workers : job[v] # r
      BY <2>1, NoRequestAssumption DEF WorkerInv
    <3>4. Pending # Lost
      BY DEF Pending, Lost
    <3> QED
      BY <2>3, <3>2, <3>3, <3>4 DEF WorkerInv, InLibrary
  <2> QED
    BY <1>1, <2>2, <2>3, AskFrame
<1>2. ASSUME NEW r \in Requests, Executes(r)
      PROVE  WorkerInv'
  BY <1>2 DEF Executes, WorkerInv, InLibrary
<1>3. ASSUME NEW w \in Workers, ReadReply(w) \/ StoreResult(w)
      PROVE  WorkerInv'
  <2>0. InLibrary(w) /\ input' = input
    BY <1>3, ProgressCases
  <2>1. CASE Continues(w)
    BY <2>0, <2>1 DEF WorkerInv, TypeOK, Continues, InLibrary
  <2>2. CASE Ends(w)
    <3>1. /\ pc'[w] = "answer" /\ job' = job /\ \A v \in Workers \ {w} : pc'[v] = pc[v]
      BY <2>2 DEF TypeOK, Ends
    <3>2. /\ job[w] \in Requests /\ input[job[w]] # NoInput
          /\ \A v \in Workers \ {w} : pc[v] # "idle" => job[v] # job[w] /\ job[v] \in Requests
      BY <2>0 DEF WorkerInv, InLibrary
    <3>3. answer'[job[w]].code \in {200, 201, 400, 401, 500}
      BY <2>2, <3>2 DEF Ends, TypeOK
    <3>4. answer'[job[w]].code # Pending /\ answer'[job[w]].code # Lost
      BY <3>3 DEF Pending, Lost
    <3>5. \A v \in Workers \ {w} : pc[v] # "idle" => answer'[job[v]] = answer[job[v]]
      BY <2>2, <3>2 DEF Ends, TypeOK
    <3>6. \A v \in Workers \ {w} : IF pc'[v] = "idle" THEN job'[v] = NoRequest
                          ELSE /\ job'[v] \in Requests /\ input'[job'[v]] # NoInput
                               /\ answer'[job'[v]].code = Pending <=> InLibrary(v)'
                               /\ answer'[job'[v]].code # Lost
      BY <2>0, <3>1, <3>5 DEF WorkerInv, InLibrary
    <3>7. \A v, u \in Workers : pc'[v] # "idle" /\ job'[v] = job'[u] => v = u
      <4>1. \A v \in Workers : pc'[v] # "idle" => pc[v] # "idle"
        BY <2>0, <3>1 DEF InLibrary
      <4> QED
        BY <3>1, <4>1 DEF WorkerInv
    <3> QED
      BY <2>0, <3>1, <3>2, <3>4, <3>6, <3>7 DEF WorkerInv, InLibrary
  <2> QED
    BY <1>3, <2>1, <2>2, ProgressCases
<1>4. ASSUME NEW w \in Workers, Give(w)
      PROVE  WorkerInv'
  <2>1. /\ pc'[w] = "idle" /\ job'[w] = NoRequest /\ UNCHANGED <<input, answer>>
        /\ \A v \in Workers \ {w} : pc'[v] = pc[v] /\ job'[v] = job[v]
    BY <1>4 DEF Give, TypeOK
  <2> QED
    BY <2>1, NoRequestAssumption DEF WorkerInv, InLibrary
<1>5. CASE DropLink
  BY <1>5 DEF DropLink, WorkerInv, InLibrary
<1>6. CASE Restart
  BY <1>6 DEF Restart, WorkerInv
<1>7. CASE UNCHANGED vars
  BY <1>7 DEF vars, WorkerInv, InLibrary
<1> QED
  BY <1>1, <1>2, <1>3, <1>4, <1>5, <1>6, <1>7, NextCases, HeadExecutes, LateExecutes

\* Whoever ends a handler answers its request, and no other handler runs that.
LEMMA WaitingStep ==
    ASSUME TypeOK, UnaskedInv, WorkerInv, WaitingInv, SentInv, LateInv, [Next]_vars
    PROVE  WaitingInv'
<1>1. ASSUME UNCHANGED <<input, answer, pc, job>>
      PROVE  WaitingInv'
  BY <1>1 DEF WaitingInv, InLibrary
<1>2. ASSUME NEW r \in Requests, UNCHANGED <<pc, job>>, NEW code \in {200, 400, 401, 500},
             Respond(r, code, {}, NoToken), \A q \in Requests \ {r} : input'[q] = input[q]
      PROVE  WaitingInv'
  <2>1. answer'[r].code = code /\ \A q \in Requests \ {r} : answer'[q] = answer[q]
    BY <1>2 DEF Respond, TypeOK
  <2>2. code # Pending
    BY DEF Pending
  <2> QED
    BY <1>2, <2>1, <2>2 DEF WaitingInv, InLibrary
<1>3. ASSUME NEW w \in Workers, NEW r \in Requests, NEW i \in Inputs, RejectStep(w, r, i)
      PROVE  WaitingInv'
  <2>1. \A q \in Requests \ {r} : input'[q] = input[q]
    BY <1>3 DEF RejectStep, Ask, Receive, TypeOK
  <2> QED
    BY <1>2, <1>3, <2>1 DEF RejectStep, Reject
<1>4. ASSUME NEW w \in Workers, NEW r \in Requests, NEW i \in Inputs, QueryStep(w, r, i)
      PROVE  WaitingInv'
  <2>1. (\A q \in Requests \ {r} : input'[q] = input[q]) /\ pc[w] = "idle"
    BY <1>4 DEF QueryStep, Ask, Receive, TypeOK
  <2>2. CASE /\ pc' = [pc EXCEPT ![w] = "reply"] /\ job' = [job EXCEPT ![w] = r]
             /\ UNCHANGED answer
    <3>1. pc'[w] = "reply" /\ job'[w] = r
      BY <2>2 DEF TypeOK
    <3>2. \A v \in Workers \ {w} : pc'[v] = pc[v] /\ job'[v] = job[v]
      BY <2>2 DEF TypeOK
    <3> QED
      BY <2>1, <2>2, <3>1, <3>2 DEF WaitingInv, InLibrary
  <2>3. CASE Respond(r, FailureCode(i.op), {}, NoToken) /\ UNCHANGED <<pc, job>>
    BY <1>2, <2>1, <2>3, CodeTypes
  <2> QED
    BY <1>4, <2>2, <2>3 DEF QueryStep, Query
<1>5. ASSUME NEW w \in Workers, ReadReply(w) \/ StoreResult(w)
      PROVE  WaitingInv'
  <2>1. InLibrary(w) /\ input' = input /\ (Continues(w) \/ Ends(w))
    BY <1>5, ProgressCases
  <2>2. CASE Continues(w)
    <3>1. \A v \in Workers : InLibrary(v) => InLibrary(v)'
      BY <2>2 DEF Continues, InLibrary, TypeOK
    <3> QED
      BY <2>1, <2>2, <3>1 DEF Continues, WaitingInv
  <2>3. CASE Ends(w)
    <3>1. job[w] \in Requests
      BY <2>1 DEF WorkerInv, InLibrary
    <3>2. answer'[job[w]].code # Pending
      BY <2>3, <3>1 DEF Ends, TypeOK, Pending
    <3>3. \A q \in Requests \ {job[w]} : answer'[q] = answer[q]
      BY <2>3 DEF Ends, TypeOK
    <3>4. \A v \in Workers \ {w} : pc'[v] = pc[v] /\ job'[v] = job[v]
      BY <2>3 DEF Ends, TypeOK
    <3> QED
      BY <2>1, <3>2, <3>3, <3>4 DEF WaitingInv, InLibrary
  <2> QED
    BY <2>1, <2>2, <2>3
<1>6. ASSUME NEW w \in Workers, Give(w)
      PROVE  WaitingInv'
  <2>1. \A v \in Workers : InLibrary(v) => v # w /\ pc'[v] = pc[v] /\ job'[v] = job[v]
    BY <1>6 DEF Give, InLibrary, TypeOK
  <2> QED
    BY <1>6, <2>1 DEF Give, WaitingInv, InLibrary
<1>7. CASE Restart
  <2>1. ASSUME NEW r \in Requests, input[r] # NoInput
        PROVE  answer'[r].code # Pending
    <3>1. CASE \E w \in Workers : job[w] = r
      BY <1>7, <3>1 DEF Restart, NoAnswer, Lost, Pending
    <3>2. CASE ~\E w \in Workers : job[w] = r
      BY <1>7, <2>1, <3>2 DEF Restart, WaitingInv
    <3> QED
      BY <3>1, <3>2
  <2> QED
    BY <1>7, <2>1 DEF Restart, WaitingInv
<1>8. ASSUME NEW r \in Requests, Executes(r)
      PROVE  WaitingInv'
  BY <1>1, <1>8 DEF Executes
<1> QED
  BY <1>1, <1>3, <1>4, <1>5, <1>6, <1>7, <1>8, NextCases, HeadExecutes, LateExecutes DEF DropLink, vars

\* A request that is executed while it is sent or left behind stops being either.
LEMMA UnderWayFrame ==
    ASSUME TypeOK, NEW r \in Requests, Executes(r), NEW q \in Requests \ {r}, UnderWay(q)
    PROVE  UnderWay(q)'
BY ExecutesFrame DEF UnderWay, Executes

\* Every statement on the connection is of a request.
LEMMA SentIsRequest ==
    ASSUME TypeOK
    PROVE  /\ DOMAIN sent = 1..Len(sent) /\ Len(sent) \in Nat
           /\ \A m \in DOMAIN sent : sent[m] \in Requests
BY ElementOfSeq, LenProperties DEF TypeOK, ConnTypeOK

\* A statement is sent once and executed once, for a client that still waits
\* unless a race cut the wait short.
LEMMA SentStep ==
    ASSUME TypeOK, UnaskedInv, WorkerInv, SentInv, LateInv, AloneInv, [Next]_vars
    PROVE  SentInv'
<1> DEFINE Waits(q) == answer[q].code = Pending \/ answer[q].raced
<1>1. ASSUME NEW w \in Workers, NEW r \in Requests, NEW i \in Inputs,
             RejectStep(w, r, i) \/ QueryStep(w, r, i)
      PROVE  SentInv'
  <2>1. \A m \in DOMAIN sent : sent[m] \in Requests \ {r}
    BY <1>1, AskFrame, SentIsRequest DEF SentInv, UnderWay
  <2>2. CASE UNCHANGED <<pc, job, sent>>
    <3>1. UNCHANGED <<outcome, late, link>>
      BY <1>1, AskFrame DEF dbVars
    <3> QED
      BY <1>1, <2>1, <2>2, <3>1, AskFrame DEF SentInv, UnderWay, TypeOK
  <2>3. CASE Send(r) /\ UNCHANGED answer
    <3>1. /\ DOMAIN sent' = 1..Len(sent)+1
          /\ \A m \in 1..Len(sent) : sent'[m] = sent[m]
          /\ sent'[Len(sent)+1] = r
      <4>1. sent \in Seq(Requests) /\ sent' = Append(sent, r)
        BY <2>3 DEF Send, TypeOK, ConnTypeOK
      <4> QED
        BY <4>1, AppendProperties, LenProperties
    <3>2. input'[r] = i /\ i # NoInput /\ outcome[r].done = "no" /\ answer[r].code = Pending /\ r \notin late
      BY <1>1, AskFrame DEF UnaskedInv, NoAnswer, TypeOK, LateInv, UnderWay, ConnTypeOK
    <3>3. Admitted(i)
      <4>1. ASSUME RejectStep(w, r, i) PROVE FALSE
        <5>1. Len(sent)+1 \in DOMAIN sent' /\ Len(sent)+1 \notin DOMAIN sent
          BY <3>1, SentIsRequest
        <5>2. sent' = sent
          BY <4>1 DEF RejectStep, Reject, connVars
        <5> QED
          BY <5>1, <5>2
      <4> QED
        BY <1>1, <4>1 DEF QueryStep
    <3>4. link' = "down" => sent' = <<>>
      BY <2>3 DEF Send, CanSend
    <3>5. UNCHANGED <<outcome, answer, late>>
      BY <1>1, <2>3, AskFrame DEF dbVars
    <3>6. UnderWay(r)' /\ \A q \in Requests \ {r} : UnderWay(q) => UnderWay(q)'
      BY <1>1, <3>2, <3>3, <3>5, AskFrame DEF UnderWay, TypeOK
    <3>7. \A m, n \in DOMAIN sent' : sent'[m] = sent'[n] => m = n
      BY <2>1, <3>1, SentIsRequest DEF SentInv
    <3>8. ASSUME NEW m \in DOMAIN sent'
          PROVE  UnderWay(sent[m])' /\ sent'[m] \notin late' /\ Waits(sent[m])'
      <4>1. CASE m \in 1..Len(sent)
        BY <2>1, <3>1, <3>5, <3>6, <4>1, SentIsRequest DEF SentInv
      <4>2. CASE m = Len(sent) + 1
        BY <3>1, <3>2, <3>5, <3>6, <4>2
      <4> QED
        BY <3>1, <4>1, <4>2, SentIsRequest
    <3> QED
      BY <3>4, <3>7, <3>8 DEF SentInv
  <2> QED
    BY <1>1, <2>2, <2>3, AskFrame
<1>2. CASE ServerExecute
  <2> DEFINE r == Head(sent)
  <2>0. r \in Requests /\ Executes(r) /\ late' = late /\ link = "up"
    BY <1>2, HeadExecutes
  <2>1. /\ r = sent[1] /\ Len(sent) \in Nat \ {0}
        /\ DOMAIN sent' = 1..Len(sent)-1
        /\ \A m \in 1..Len(sent)-1 : sent'[m] = sent[m+1] /\ m+1 \in DOMAIN sent
    <3>1. sent \in Seq(Requests) /\ sent # <<>> /\ sent' = Tail(sent)
      BY <1>2 DEF ServerExecute, TypeOK, ConnTypeOK
    <3> QED
      BY <3>1, HeadTailProperties, LenProperties, EmptySeq
  <2>2. UNCHANGED <<link, input, answer>>
    BY <2>0 DEF Executes
  <2>3. ASSUME NEW m \in DOMAIN sent'
        PROVE  UnderWay(sent[m])' /\ sent'[m] \notin late' /\ Waits(sent[m])'
    <3>1. sent'[m] = sent[m+1] /\ m+1 \in DOMAIN sent /\ 1 \in DOMAIN sent /\ m+1 # 1
      BY <2>1, SentIsRequest
    <3>2. PICK q \in Requests : q = sent[m+1]
      BY <3>1, SentIsRequest
    <3>3. q # r /\ UnderWay(q) /\ q \notin late /\ Waits(q)
      BY <2>1, <3>1, <3>2 DEF SentInv
    <3>4. UnderWay(q)'
      BY <2>0, <3>3, UnderWayFrame
    <3> QED
      BY <2>0, <2>2, <3>1, <3>2, <3>3, <3>4
  <2>4. \A m, n \in DOMAIN sent' : sent'[m] = sent'[n] => m = n
    BY <2>1 DEF SentInv
  <2> QED
    BY <2>0, <2>2, <2>3, <2>4 DEF SentInv
<1>3. CASE ExecuteLate
  <2>1. PICK r \in late : r \in Requests /\ Executes(r) /\ late' = late \ {r} /\ UNCHANGED <<sent, stream>>
    BY <1>3, LateExecutes
  <2>2. ASSUME NEW m \in DOMAIN sent
        PROVE  UnderWay(sent[m])' /\ sent[m] \notin late' /\ Waits(sent[m])'
    <3>1. PICK q \in Requests : q = sent[m] /\ q # r /\ UnderWay(q) /\ Waits(q) /\ q \notin late
      BY <2>1, SentIsRequest DEF SentInv
    <3>2. UnderWay(q)'
      BY <2>1, <3>1, UnderWayFrame
    <3> QED
      BY <2>1, <3>1, <3>2 DEF Executes
  <2> QED
    BY <2>1, <2>2 DEF SentInv, Executes
<1>4. ASSUME NEW w \in Workers, ReadReply(w) \/ StoreResult(w)
      PROVE  SentInv'
  <2>1. sent = <<>> \/ raced
    BY <1>4, AloneReads
  <2>2. UNCHANGED <<input, outcome, link, sent, late>>
    BY <1>4, ProgressCases DEF dbVars
  <2>3. CASE Continues(w)
    BY <2>2, <2>3 DEF Continues, SentInv, UnderWay
  <2>4. CASE Ends(w)
    <3>1. \A q \in Requests : answer'[q] = answer[q] \/ answer'[q].raced = raced
      BY <2>4 DEF Ends, TypeOK
    <3>2. sent = <<>> => DOMAIN sent = {}
      OBVIOUS
    <3> QED
      BY <2>1, <2>2, <3>1, <3>2, SentIsRequest DEF SentInv, UnderWay
  <2> QED
    BY <1>4, <2>3, <2>4, ProgressCases
<1>5. ASSUME NEW w \in Workers, Give(w)
      PROVE  SentInv'
  BY <1>5 DEF Give, SentInv, UnderWay, dbVars, connVars
<1>6. CASE DropLink \/ Restart
  <2>1. sent' = <<>>
    BY <1>6 DEF DropLink, LoseLink, Restart, Reconnected, LeaveBehind
  <2> QED
    BY <2>1 DEF SentInv
<1>7. CASE UNCHANGED vars
  BY <1>7 DEF vars, dbVars, connVars, SentInv, UnderWay
<1> QED
  BY <1>1, <1>2, <1>3, <1>4, <1>5, <1>6, <1>7, NextCases

\* The client of q waits in a handler that will find the link lost, or that raced, or has
\* an answer that leaves open what became of the statement.
Left(q) == \/ answer[q].code = Pending /\ (raced \/ Gone)
           \/ answer[q].raced \/ ~answer[q].up \/ answer[q].code = Lost

\* What a lost connection leaves behind was not executed, and is open.
LEMMA LateStep ==
    ASSUME TypeOK, UnaskedInv, WorkerInv, WaitingInv, SentInv, LateInv, AloneInv, [Next]_vars
    PROVE  LateInv'
<1>0. late \subseteq Requests /\ \A q \in late : UnderWay(q) /\ Left(q) /\ input[q] # NoInput
  BY DEF LateInv, UnderWay, TypeOK, ConnTypeOK, Left
<1>a. ASSUME \A q \in late' : UnderWay(q)' /\ Left(q)', late' \subseteq Requests
      PROVE  LateInv'
  BY <1>a DEF LateInv, Left
<1>b. ASSUME ConnTypeOK, LeaveBehind, UNCHANGED <<input, outcome>>,
             \A q \in Requests : UnderWay(q) /\ (Left(q) \/ \E m \in DOMAIN sent : sent[m] = q) => Left(q)'
      PROVE  LateInv'
  <2>1. late' \subseteq Requests /\ \A q \in late' \ late : \E m \in DOMAIN sent : sent[m] = q
    BY <1>b, LeftBehind
  <2>2. ASSUME NEW q \in late'
        PROVE  UnderWay(q)' /\ Left(q)'
    <3>1. q \in Requests /\ UnderWay(q) /\ (Left(q) \/ \E m \in DOMAIN sent : sent[m] = q)
      BY <1>0, <2>1, <2>2 DEF SentInv
    <3> QED
      BY <1>b, <3>1 DEF UnderWay
  <2> QED
    BY <1>a, <2>1, <2>2
<1>c. \A q \in Requests : (\E m \in DOMAIN sent : sent[m] = q) => answer[q].code = Pending \/ answer[q].raced
  BY DEF SentInv
<1>1. ASSUME NEW w \in Workers, NEW r \in Requests, NEW i \in Inputs,
             RejectStep(w, r, i) \/ QueryStep(w, r, i)
      PROVE  LateInv'
  <2>1. late' = late /\ UNCHANGED <<link, stream, outcome>>
    BY <1>1, AskFrame DEF dbVars
  <2>2. raced => raced'
    <3>1. CASE RejectStep(w, r, i)
      BY <3>1 DEF RejectStep, Reject
    <3>2. CASE QueryStep(w, r, i)
      <4>1. raced' = (raced \/ \E v \in Workers \ {w} : InLibrary(v))
        BY <3>2 DEF QueryStep, Query
      <4> QED
        BY <4>1, Zenon
    <3> QED
      BY <1>1, <3>1, <3>2
  <2>3. ASSUME NEW q \in late
        PROVE  UnderWay(q)' /\ Left(q)'
    <3>1. q \in Requests \ {r}
      BY <1>0, <1>1, AskFrame
    <3>2. input'[q] = input[q] /\ answer'[q] = answer[q]
      BY <1>1, <3>1, AskFrame DEF TypeOK
    <3> QED
      BY <1>0, <2>1, <2>2, <3>2 DEF UnderWay, Left, Gone
  <2> QED
    BY <1>0, <1>a, <2>1, <2>3
<1>2. CASE ServerExecute
  <2> DEFINE r == Head(sent)
  <2>1. r \in Requests /\ Executes(r) /\ r \notin late /\ late' = late /\ link = "up"
    BY <1>2, HeadExecutes
  <2>2. UNCHANGED <<answer, raced, link>>
    BY <2>1 DEF Executes
  <2>3. ASSUME NEW q \in late
        PROVE  UnderWay(q)' /\ Left(q)'
    BY <1>0, <2>1, <2>2, UnderWayFrame DEF Left, Gone
  <2> QED
    BY <1>0, <1>a, <2>1, <2>3
<1>3. CASE ExecuteLate
  <2>1. PICK r \in late : r \in Requests /\ Executes(r) /\ late' = late \ {r} /\ UNCHANGED <<sent, stream>>
    BY <1>3, LateExecutes
  <2>2. UNCHANGED <<answer, raced, link, stream>>
    BY <2>1 DEF Executes
  <2>3. ASSUME NEW q \in late'
        PROVE  UnderWay(q)' /\ Left(q)'
    BY <1>0, <2>1, <2>2, UnderWayFrame DEF Left, Gone
  <2> QED
    BY <1>0, <1>a, <2>1, <2>3
<1>4. ASSUME NEW w \in Workers, ReadReply(w) \/ StoreResult(w)
      PROVE  LateInv'
  <2>1. UNCHANGED <<input, outcome, late, raced, link>> /\ (Gone => Gone') /\ InLibrary(w)
    BY <1>4, ProgressCases DEF dbVars
  <2>2. CASE Continues(w)
    BY <1>0, <1>a, <2>1, <2>2 DEF Continues, UnderWay, Left
  <2>3. CASE Ends(w)
    <3>1. job[w] \in Requests /\ answer[job[w]] = NoAnswer
      BY <2>1 DEF WorkerInv, InLibrary, UnaskedInv
    <3>2. /\ \A q \in Requests \ {job[w]} : answer'[q] = answer[q]
          /\ answer'[job[w]].raced = raced /\ (link = "down" => ~answer'[job[w]].up)
      BY <2>3, <3>1 DEF Ends, TypeOK
    <3>3. ~NoAnswer.raced /\ NoAnswer.up /\ NoAnswer.code # Lost
      BY DEF NoAnswer, Pending, Lost
    <3>4. ASSUME NEW q \in late
          PROVE  UnderWay(q)' /\ Left(q)'
      <4>1. UnderWay(q)'
        BY <1>0, <2>1 DEF UnderWay
      <4>2. CASE q = job[w]
        BY <1>0, <3>1, <3>2, <3>3, <4>1, <4>2 DEF Left, Gone
      <4>3. CASE q # job[w]
        BY <1>0, <2>1, <3>2, <4>1, <4>3 DEF Left
      <4> QED
        BY <4>2, <4>3
    <3> QED
      BY <1>0, <1>a, <2>1, <3>4
  <2> QED
    BY <1>4, <2>2, <2>3, ProgressCases
<1>5. ASSUME NEW w \in Workers, Give(w)
      PROVE  LateInv'
  BY <1>0, <1>a, <1>5 DEF Give, UnderWay, Left, Gone, dbVars, connVars
<1>6. CASE DropLink
  <2>1. /\ UNCHANGED <<input, outcome, answer, raced>> /\ link = "up" /\ link' = "down" /\ LeaveBehind
        /\ \E n \in 0..Len(stream) : stream' = SubSeq(stream, 1, n)
    BY <1>6 DEF DropLink, LoseLink, dbVars
  <2>2. stream = <<>> => stream' = <<>>
    BY <2>1
  <2>3. ASSUME NEW q \in Requests, UnderWay(q), Left(q)
        PROVE  Left(q)'
    BY <2>1, <2>3 DEF Left, Gone
  <2>4. ASSUME NEW q \in Requests, UnderWay(q), NEW m \in DOMAIN sent, sent[m] = q
        PROVE  Left(q)'
    <3>1. CASE raced \/ answer[q].raced
      BY <1>c, <2>1, <2>4, <3>1 DEF Left
    <3>2. CASE ~raced /\ answer[q].code = Pending
      <4>1. PICK w \in Workers : InLibrary(w) /\ job[w] = q
        BY <2>4, <3>2 DEF WaitingInv, UnderWay
      <4>2. InDialogue(w) /\ sent # <<>>
        BY <2>4, <3>2 DEF AloneInv
      <4>3. stream = <<>>
        BY <4>1, <4>2 DEF InDialogue, InLibrary, Awaiting, Abandoned, Replied, Truncated, Described, CutShort
      <4>4. Gone'
        BY <2>1, <2>2, <4>3 DEF Gone
      <4> QED
        BY <2>1, <3>2, <4>4 DEF Left
    <3> QED
      BY <1>c, <2>4, <3>1, <3>2
  <2> QED
    BY <1>b, <2>1, <2>3, <2>4 DEF TypeOK
<1>7. CASE Restart
  <2>1. UNCHANGED <<input, outcome>> /\ LeaveBehind
    BY <1>7 DEF Restart, Reconnected, dbVars
  <2>2. ASSUME NEW q \in Requests
        PROVE  \/ answer'[q] = [NoAnswer EXCEPT !.code = Lost]
               \/ answer'[q] = answer[q] /\ \A w \in Workers : job[w] # q
    BY <1>7 DEF Restart
  <2>3. ASSUME NEW q \in Requests, UnderWay(q), Left(q) \/ answer[q].code = Pending \/ answer[q].raced
        PROVE  Left(q)'
    <3>1. CASE answer'[q] = [NoAnswer EXCEPT !.code = Lost]
      BY <3>1 DEF Left, NoAnswer
    <3>2. CASE answer'[q] = answer[q] /\ \A w \in Workers : job[w] # q
      <4>1. answer[q].code # Pending
        BY <2>3, <3>2 DEF WaitingInv, UnderWay
      <4> QED
        BY <2>3, <3>2, <4>1 DEF Left
    <3> QED
      BY <2>2, <3>1, <3>2
  <2> QED
    BY <1>b, <1>c, <2>1, <2>3 DEF TypeOK
<1>8. CASE UNCHANGED vars
  BY <1>0, <1>a, <1>8 DEF vars, dbVars, connVars, UnderWay, Left, Gone
<1> QED
  BY <1>1, <1>2, <1>3, <1>4, <1>5, <1>6, <1>7, <1>8, NextCases

-----------------------------------------------------------------------------
(* The database *)

\* No statement is executed, and no request that was made is another.
Quiet ==
    /\ UNCHANGED dbVars
    /\ \A q \in Requests : input[q] # NoInput => input'[q] = input[q] /\ known'[q] = known[q]

\* To the database a step is the execution of one statement, or nothing.
LEMMA StepCases ==
    ASSUME TypeOK, UnaskedInv, SentInv, LateInv, [Next]_vars
    PROVE  Quiet \/ \E r \in Requests : Executes(r)
<1>1. ASSUME NEW w \in Workers, NEW r \in Requests, NEW i \in Inputs,
             RejectStep(w, r, i) \/ QueryStep(w, r, i)
      PROVE  Quiet
  <2>1. \A q \in Requests : input[q] # NoInput => input'[q] = input[q] /\ known'[q] = known[q]
    BY <1>1, AskFrame DEF TypeOK
  <2> QED
    BY <1>1, <2>1, AskFrame DEF Quiet
<1>2. ASSUME NEW w \in Workers, ReadReply(w) \/ StoreResult(w)
      PROVE  Quiet
  BY <1>2, ProgressCases DEF Quiet
<1>3. ASSUME NEW w \in Workers, Give(w)
      PROVE  Quiet
  BY <1>3 DEF Give, Quiet
<1>4. CASE DropLink \/ Restart
  BY <1>4 DEF DropLink, Restart, Quiet
<1>5. CASE UNCHANGED vars
  BY <1>5 DEF vars, Quiet
<1> QED
  BY <1>1, <1>2, <1>3, <1>4, <1>5, NextCases, HeadExecutes, LateExecutes

\* What was executed is not executed again.
LEMMA DoneStays ==
    ASSUME TypeOK, UnaskedInv, Quiet \/ \E r \in Requests : Executes(r),
           NEW q \in Requests, outcome[q].done # "no"
    PROVE  outcome'[q] = outcome[q] /\ input[q] # NoInput /\ input'[q] = input[q] /\ known'[q] = known[q]
<1>1. input[q] # NoInput
  BY DEF UnaskedInv
<1>2. CASE Quiet
  BY <1>1, <1>2 DEF Quiet, dbVars
<1>3. ASSUME NEW r \in Requests, Executes(r)
      PROVE  outcome'[q] = outcome[q] /\ input'[q] = input[q] /\ known'[q] = known[q]
  BY <1>3, ExecutesFrame DEF Executes
<1> QED
  BY <1>1, <1>2, <1>3

\* A deletion that was done stays done, and so does a rewriting.
LEMMA TracesStay ==
    ASSUME TypeOK, UnaskedInv, Quiet \/ \E r \in Requests : Executes(r)
    PROVE  /\ Rewritten => Rewritten'
           /\ \A q \in Requests : Deleted(q) => Deleted(q)'
<1>1. ASSUME Rewritten
      PROVE  Rewritten'
  <2>1. PICK d \in Requests : /\ input[d] # NoInput /\ input[d].op = "register"
                              /\ input[d].body = "spliced" /\ outcome[d].done = "done"
    BY <1>1 DEF Rewritten
  <2>2. outcome'[d] = outcome[d] /\ input'[d] = input[d]
    BY <2>1, DoneStays
  <2> QED
    BY <2>1, <2>2 DEF Rewritten
<1>2. ASSUME NEW q \in Requests, Deleted(q)
      PROVE  Deleted(q)'
  <2>1. PICK d \in Requests : input[d] # NoInput /\ input[d].op = "delete" /\ q \in outcome[d].rows
    BY <1>2 DEF Deleted
  <2>2. outcome[d].done # "no"
    BY <2>1 DEF UnaskedInv, NotDone
  <2>3. outcome'[d] = outcome[d] /\ input'[d] = input[d]
    BY <2>1, <2>2, DoneStays
  <2> QED
    BY <2>1, <2>3 DEF Deleted
<1> QED
  BY <1>1, <1>2

\* What the execution of r does to the users: nothing, a new one, or, when the text
\* of a registration says so, one written over.
LEMMA UsersChange ==
    ASSUME TypeOK, NEW r \in Requests, Executes(r)
    PROVE  \/ users' = users
           \/ \E a \in Accounts : ~Taken(a) /\ users' = Append(users, a)
           \/ /\ input[r].op = "register" /\ input[r].body = "spliced" /\ outcome'[r].done = "done"
              /\ \E a \in Accounts, u \in DOMAIN users :
                     /\ \A v \in DOMAIN users \ {u} : users[v].email # a.email
                     /\ users' = [users EXCEPT ![u] = a]
<1> DEFINE s == StatementOf(r, input[r])
<1>1. s \in Statement /\ Execute(s)
  BY DEF Executes
<1>2. CASE InsertUser(s)
  <2>1. s.account \in Accounts
    BY <1>1 DEF Statement
  <2> QED
    BY <1>2, <2>1 DEF InsertUser, Accepts
<1>3. CASE RewriteUser(s)
  <2>1. input[r].op = "register" /\ input[r].body = "spliced"
    BY <1>3 DEF RewriteUser, Spliced, StatementOf, HoldsText
  <2>2. outcome'[r].done = "done"
    BY <1>3 DEF RewriteUser, Record, StatementOf, TypeOK, DbTypeOK
  <2> QED
    BY <1>3, <2>1, <2>2 DEF RewriteUser
<1> QED
  BY <1>1, <1>2, <1>3 DEF Execute, RefuseStatement, InsertRow, InsertRowsToo, DeleteRows, SelectRows,
                          SelectUser, SelectAnyUser

\* Users stay as they are until one is written over.
LEMMA UsersStay ==
    ASSUME TypeOK, UnaskedInv, Quiet \/ \E r \in Requests : Executes(r)
    PROVE  Rewritten' \/ \A u \in DOMAIN users : u \in DOMAIN users' /\ users'[u] = users[u]
<1>1. CASE users' = users
  BY <1>1
<1>2. ASSUME NEW a \in Accounts, users' = Append(users, a)
      PROVE  \A u \in DOMAIN users : u \in DOMAIN users' /\ users'[u] = users[u]
  BY <1>2, AppendProperties, LenProperties DEF TypeOK, DbTypeOK
<1>3. ASSUME NEW r \in Requests, Executes(r), input[r].op = "register", input[r].body = "spliced",
             outcome'[r].done = "done"
      PROVE  Rewritten'
  BY <1>3, ExecutesFrame DEF Rewritten, Executes
<1> QED
  BY <1>1, <1>2, <1>3, UsersChange DEF Quiet, dbVars

\* The UNIQUE index on email holds of the users as they are appended and written over.
LEMMA EmailsStep ==
    ASSUME TypeOK, UnaskedInv, SentInv, LateInv, EmailsDiffer, [Next]_vars
    PROVE  EmailsDiffer'
<1>1. CASE users' = users
  BY <1>1 DEF EmailsDiffer
<1>2. ASSUME NEW a \in Accounts, ~Taken(a), users' = Append(users, a)
      PROVE  EmailsDiffer'
  <2>1. /\ DOMAIN users = 1..Len(users) /\ Len(users) \in Nat
        /\ DOMAIN users' = 1..Len(users)+1
        /\ \A u \in 1..Len(users) : users'[u] = users[u]
        /\ users'[Len(users)+1] = a
    BY <1>2, AppendProperties, LenProperties DEF TypeOK, DbTypeOK
  <2>2. \A u \in DOMAIN users : users[u].email # a.email
    BY <1>2 DEF Taken
  <2> QED
    BY <2>1, <2>2 DEF EmailsDiffer
<1>3. ASSUME NEW a \in Accounts, NEW u \in DOMAIN users, users' = [users EXCEPT ![u] = a],
             \A v \in DOMAIN users \ {u} : users[v].email # a.email
      PROVE  EmailsDiffer'
  <2>1. DOMAIN users' = DOMAIN users /\ users'[u] = a /\ \A v \in DOMAIN users \ {u} : users'[v] = users[v]
    BY <1>3
  <2> QED
    BY <1>3, <2>1 DEF EmailsDiffer
<1>4. ASSUME NEW r \in Requests, Executes(r)
      PROVE  EmailsDiffer'
  BY <1>1, <1>2, <1>3, <1>4, UsersChange
<1> QED
  BY <1>1, <1>4, StepCases DEF Quiet, dbVars

\* The users of before stay until one is written over.
LEMMA InitialStep ==
    ASSUME TypeOK, UnaskedInv, SentInv, LateInv, InitialInv, [Next]_vars
    PROVE  InitialInv'
<1>1. Quiet \/ \E r \in Requests : Executes(r)
  BY StepCases
<1> QED
  BY <1>1, TracesStay, UsersStay DEF InitialInv

\* A row that is there after the execution of r was there before, or r inserted it: into
\* the table of r, and for the owner of r unless the text of r adds others.
LEMMA TablesChange ==
    ASSUME TypeOK, NEW r \in Requests, Executes(r), NEW t \in Tables, NEW row \in tables'[t]
    PROVE  \/ row \in tables[t]
           \/ /\ row.id = r /\ t = input[r].table /\ input[r].op = "insert"
              /\ outcome'[r].done = "done"
              /\ input[r].body = "good" => row.user = Owner(r)
<1> DEFINE s == StatementOf(r, input[r])
<1>1. /\ s \in Statement /\ Execute(s)
      /\ s.req = r /\ s.op = input[r].op /\ s.table = input[r].table /\ s.user = Owner(r)
  BY DEF Executes, StatementOf, Owner
<1>2. Spliced(s) => input[r].body = "spliced"
  BY DEF Spliced, StatementOf
<1> HIDE DEF s
<1>3. CASE InsertRow(s)
  <2>1. row \in tables[t] \/ (t = s.table /\ row = [id |-> s.req, user |-> s.user])
    BY <1>3 DEF InsertRow, TypeOK, DbTypeOK
  <2>2. s.op = "insert" /\ outcome'[r].done = "done"
    BY <1>1, <1>3 DEF InsertRow, Record, TypeOK, DbTypeOK
  <2> QED
    BY <1>1, <2>1, <2>2
<1>4. CASE InsertRowsToo(s)
  <2>1. PICK owners \in SUBSET DOMAIN users :
            tables' = [tables EXCEPT ![s.table] = @ \cup {[id |-> s.req, user |-> u] : u \in owners \cup {s.user}}]
    BY <1>4 DEF InsertRowsToo
  <2>2. row \in tables[t] \/ (t = s.table /\ row.id = s.req)
    BY <2>1 DEF TypeOK, DbTypeOK
  <2>3. s.op = "insert" /\ outcome'[r].done = "done" /\ input[r].body = "spliced"
    BY <1>1, <1>2, <1>4 DEF InsertRowsToo, Record, TypeOK, DbTypeOK
  <2> QED
    BY <1>1, <2>2, <2>3
<1>5. CASE DeleteRows(s)
  BY <1>5 DEF DeleteRows, TypeOK, DbTypeOK, Tables
<1> QED
  BY <1>1, <1>3, <1>4, <1>5 DEF Execute, RefuseStatement, SelectRows, InsertUser, RewriteUser,
                                SelectUser, SelectAnyUser

\* A row stays until it is deleted.
LEMMA RowsStay ==
    ASSUME TypeOK, UnaskedInv, Quiet \/ \E r \in Requests : Executes(r),
           NEW q \in Requests, input[q] \in Inputs, input'[q] = input[q], Stored(q)
    PROVE  Stored(q)' \/ Deleted(q)'
<1>1. CASE tables' = tables
  BY <1>1 DEF Stored, Owner
<1>2. ASSUME NEW r \in Requests, Executes(r)
      PROVE  Stored(q)' \/ Deleted(q)'
  <2> DEFINE s == StatementOf(r, input[r])
             row == [id |-> q, user |-> Owner(q)]
  <2>1. s \in Statement /\ Execute(s) /\ s.req = r /\ s.op = input[r].op /\ input' = input /\ input[r] # NoInput
    BY <1>2, ExecutesFrame DEF Executes, StatementOf
  <2>2. input[q].table \in Tables /\ row \in tables[input[q].table] /\ row.id = q
    BY InputsAssumption DEF HttpRequest, Stored
  <2> HIDE DEF s
  <2>3. CASE InsertRow(s)
    <3>1. row \in tables'[input[q].table]
      BY <2>2, <2>3 DEF InsertRow, TypeOK, DbTypeOK
    <3> QED
      BY <2>1, <3>1 DEF Stored, Owner
  <2>4. CASE InsertRowsToo(s)
    <3>1. row \in tables'[input[q].table]
      BY <2>2, <2>4 DEF InsertRowsToo, TypeOK, DbTypeOK
    <3> QED
      BY <2>1, <3>1 DEF Stored, Owner
  <2>5. CASE DeleteRows(s)
    <3>1. CASE row \in tables'[input[q].table]
      BY <2>1, <3>1 DEF Stored, Owner
    <3>2. CASE row \notin tables'[input[q].table]
      <4> HIDE DEF row
      <4>1. row \in {x \in tables["Expenses"] : x.id = s.target}
        BY <2>2, <2>5, <3>2 DEF DeleteRows, TypeOK, DbTypeOK, Tables
      <4>2. q \in outcome'[r].rows
        BY <2>1, <2>2, <2>5, <4>1 DEF DeleteRows, Record, TypeOK, DbTypeOK
      <4>3. input[r].op = "delete"
        BY <2>1, <2>5 DEF DeleteRows
      <4> QED
        BY <2>1, <4>2, <4>3 DEF Deleted
    <3> QED
      BY <3>1, <3>2
  <2> QED
    BY <1>1, <2>1, <2>3, <2>4, <2>5 DEF Execute, RefuseStatement, SelectRows, InsertUser, RewriteUser,
                                        SelectUser, SelectAnyUser
<1> QED
  BY <1>1, <1>2 DEF Quiet, dbVars

\* What was stored is kept: no step but a DELETE takes a row away, nor an account but
\* a registration that writes over it.
LEMMA RowStep ==
    ASSUME TypeOK, UnaskedInv, SentInv, LateInv, RowInv, [Next]_vars
    PROVE  RowInv'
<1>1. Quiet \/ \E r \in Requests : Executes(r)
  BY StepCases
<1>2. ASSUME NEW q \in Requests, outcome[q].done = "done"
      PROVE  Kept(q)'
  <2>1. Kept(q) /\ input[q] \in Inputs /\ input'[q] = input[q]
    BY <1>1, <1>2, DoneStays DEF RowInv, TypeOK
  <2>2. input[q].op = "insert" => Stored(q)' \/ Deleted(q)'
    BY <1>1, <2>1, RowsStay, TracesStay DEF Kept
  <2>3. CASE input[q].op = "register" /\ input[q].body = "good"
    BY <1>1, <2>1, <2>3, UsersStay, TracesStay DEF Kept
  <2> QED
    BY <2>1, <2>2, <2>3 DEF Kept
<1>3. ASSUME NEW r \in Requests, Executes(r), outcome'[r].done = "done"
      PROVE  Kept(r)'
  <2> DEFINE s == StatementOf(r, input[r])
  <2>1. /\ s \in Statement /\ Execute(s) /\ s.req = r /\ s.op = input[r].op /\ s.table = input[r].table
        /\ s.user = Owner(r) /\ s.account = input[r].account /\ input' = input
        /\ (Spliced(s) => input[r].body = "spliced")
    BY <1>3 DEF Executes, StatementOf, Owner, Spliced
  <2> HIDE DEF s
  <2>2. ~RefuseStatement(s)
    BY <1>3, <2>1 DEF RefuseStatement, Record, TypeOK, DbTypeOK
  <2>3. CASE input[r].op = "insert"
    <3>1. InsertRow(s) \/ InsertRowsToo(s)
      BY <2>1, <2>2, <2>3 DEF Execute, DeleteRows, SelectRows, InsertUser, RewriteUser, SelectUser, SelectAnyUser
    <3>2. [id |-> r, user |-> s.user] \in tables'[s.table]
      BY <2>1, <3>1 DEF InsertRow, InsertRowsToo, TypeOK, DbTypeOK, Statement
    <3>3. Stored(r)'
      BY <2>1, <3>2 DEF Stored, Owner
    <3> QED
      BY <2>1, <2>3, <3>3 DEF Kept
  <2>4. CASE input[r].op = "register" /\ input[r].body = "good"
    <3>1. InsertUser(s)
      BY <2>1, <2>2, <2>4 DEF Execute, InsertRow, InsertRowsToo, DeleteRows, SelectRows, RewriteUser,
                              SelectUser, SelectAnyUser
    <3>2. users' = Append(users, s.account) /\ users \in Seq(Accounts) /\ s.account \in Accounts
      BY <2>1, <3>1 DEF InsertUser, TypeOK, DbTypeOK, Statement
    <3>3. Len(users)+1 \in DOMAIN users' /\ users'[Len(users)+1] = s.account
      BY <3>2, AppendProperties, LenProperties
    <3> QED
      BY <2>1, <2>4, <3>3 DEF Kept
  <2> QED
    BY <2>1, <2>3, <2>4 DEF Kept
<1>4. ASSUME NEW q \in Requests, outcome'[q].done = "done"
      PROVE  Kept(q)'
  <2>1. CASE outcome'[q] = outcome[q]
    BY <1>2, <1>4, <2>1
  <2>2. CASE Executes(q)
    BY <1>3, <1>4, <2>2
  <2> QED
    BY <1>1, <2>1, <2>2, ExecutesFrame DEF Quiet, dbVars
<1> QED
  BY <1>4 DEF RowInv

\* Rows come from INSERTs, and what a DELETE took away does not come back.
LEMMA TableStep ==
    ASSUME TypeOK, UnaskedInv, SentInv, LateInv, TableInv, [Next]_vars
    PROVE  TableInv'
<1> DEFINE From(t, row) == /\ outcome[row.id].done = "done"
                           /\ input[row.id] # NoInput /\ input[row.id].op = "insert" /\ input[row.id].table = t
                           /\ input[row.id].body = "good" => row.user = 1
           Away(q) == /\ outcome[q].done = "done"
                      /\ \A t \in Tables : \A row \in tables[t] : row.id # q
<1>0. Quiet \/ \E r \in Requests : Executes(r)
  BY StepCases
<1>1. \A t \in Tables : \A row \in tables[t] : row.id \in Requests /\ From(t, row)
  BY DEF TableInv, TypeOK, DbTypeOK, Row
<1>2. ASSUME NEW t \in Tables, NEW row \in tables[t]
      PROVE  From(t, row)'
  BY <1>0, <1>1, DoneStays
<1>3. ASSUME NEW r \in Requests, Executes(r), NEW t \in Tables, NEW row \in tables'[t], row \notin tables[t]
      PROVE  From(t, row)' /\ row.id = r
  <2>1. /\ row.id = r /\ t = input[r].table /\ input[r].op = "insert" /\ outcome'[r].done = "done"
        /\ input[r].body = "good" => row.user = Owner(r)
    BY <1>3, TablesChange
  <2>2. input' = input /\ input[r] # NoInput /\ Owner(r) = 1
    BY <1>3, <2>1 DEF Executes, UnderWay, Admitted, Authorized, VerifyJWT, Owner
  <2> QED
    BY <2>1, <2>2
<1>4. ASSUME NEW t \in Tables, NEW row \in tables'[t]
      PROVE  From(t, row)'
  BY <1>0, <1>2, <1>3, <1>4 DEF Quiet, dbVars
<1>5. ASSUME NEW q \in Requests, Away(q)
      PROVE  Away(q)'
  <2>1. outcome'[q].done = "done"
    BY <1>0, <1>5, DoneStays
  <2>2. ASSUME NEW t \in Tables, NEW row \in tables'[t]
        PROVE  row.id # q
    <3>1. CASE row \in tables[t]
      BY <1>5, <3>1
    <3>2. ASSUME NEW r \in Requests, Executes(r), row \notin tables[t]
          PROVE  row.id # q
      BY <1>3, <1>5, <3>2, ExecutesFrame
    <3> QED
      BY <1>0, <3>1, <3>2 DEF Quiet, dbVars
  <2> QED
    BY <2>1, <2>2
<1>6. ASSUME NEW d \in Requests, input'[d] # NoInput, input'[d].op = "delete", NEW q \in outcome'[d].rows
      PROVE  q \in Requests /\ Away(q)'
  <2>1. ASSUME outcome'[d] = outcome[d]
        PROVE  q \in Requests /\ Away(q)'
    <3>1. outcome[d].done # "no"
      BY <1>6, <2>1 DEF UnaskedInv, NotDone
    <3>2. input'[d] = input[d] /\ q \in Requests
      BY <1>0, <1>6, <2>1, <3>1, DoneStays DEF TypeOK, DbTypeOK, Outcome
    <3>3. Away(q)
      BY <1>6, <2>1, <3>2 DEF TableInv
    <3> HIDE DEF Away
    <3> QED
      BY <1>5, <3>2, <3>3
  <2>2. ASSUME Executes(d)
        PROVE  q \in Requests /\ Away(q)'
    <3> DEFINE s == StatementOf(d, input[d])
               hit == {x \in tables["Expenses"] : x.id = s.target}
    <3>1. s \in Statement /\ Execute(s) /\ s.req = d /\ s.op = "delete" /\ s.text = "good"
      BY <1>6, <2>2 DEF Executes, StatementOf, HoldsText
    <3> HIDE DEF s
    <3>2. DeleteRows(s)
      <4>1. ~RefuseStatement(s)
        BY <3>1 DEF RefuseStatement, Accepts, Spliced
      <4> QED
        BY <3>1, <4>1 DEF Execute, InsertRow, InsertRowsToo, SelectRows, InsertUser, RewriteUser,
                          SelectUser, SelectAnyUser
    <3>3. tables' = [tables EXCEPT !["Expenses"] = @ \ hit] /\ q \in {x.id : x \in hit}
      BY <1>6, <3>1, <3>2 DEF DeleteRows, Record, TypeOK, DbTypeOK
    <3>4. PICK x \in tables["Expenses"] : x.id = s.target /\ x.id = q
      BY <3>3
    <3>5. q \in Requests /\ outcome[q].done = "done" /\ input[q].table = "Expenses"
      BY <1>1, <3>4 DEF Tables
    <3>6. ASSUME NEW t \in Tables, NEW row \in tables'[t]
          PROVE  row.id # q
      <4>1. row \in tables[t] /\ (t = "Expenses" => row \notin hit)
        BY <3>3, <3>6 DEF TypeOK, DbTypeOK, Tables
      <4>2. input[row.id].table = t
        BY <1>1, <4>1
      <4> QED
        BY <3>4, <3>5, <4>1, <4>2
    <3>7. outcome'[q].done = "done"
      BY <1>0, <3>5, DoneStays
    <3> QED
      BY <3>5, <3>6, <3>7
  <2> QED
    BY <1>0, <2>1, <2>2, ExecutesFrame DEF Quiet, dbVars
<1> QED
  BY <1>4, <1>6 DEF TableInv

\* An answer that was given is not changed, nor taken back.
LEMMA GivenStays ==
    ASSUME TypeOK, UnaskedInv, WorkerInv, SentInv, LateInv, [Next]_vars,
           NEW q \in Requests, Given(q)
    PROVE  Given(q)' /\ answer'[q] = answer[q] /\ input[q] # NoInput /\ input'[q] = input[q]
<1>0. input[q] # NoInput /\ answer[q].code # Pending /\ \A v \in Workers : job[v] # q
  BY DEF Given, UnaskedInv, NoAnswer
<1>a. ASSUME answer'[q] = answer[q], input'[q] = input[q], \A v \in Workers : job'[v] # q
      PROVE  Given(q)' /\ answer'[q] = answer[q] /\ input[q] # NoInput /\ input'[q] = input[q]
  BY <1>0, <1>a DEF Given
<1>1. ASSUME NEW w \in Workers, NEW r \in Requests, NEW i \in Inputs,
             RejectStep(w, r, i) \/ QueryStep(w, r, i)
      PROVE  answer'[q] = answer[q] /\ input'[q] = input[q] /\ \A v \in Workers : job'[v] # q
  <2>1. q # r
    BY <1>0, <1>1, AskFrame
  <2> QED
    BY <1>0, <1>1, <2>1, AskFrame DEF TypeOK
<1>2. ASSUME NEW r \in Requests, Executes(r)
      PROVE  answer'[q] = answer[q] /\ input'[q] = input[q] /\ \A v \in Workers : job'[v] # q
  BY <1>0, <1>2 DEF Executes
<1>3. ASSUME NEW w \in Workers, ReadReply(w) \/ StoreResult(w)
      PROVE  answer'[q] = answer[q] /\ input'[q] = input[q] /\ \A v \in Workers : job'[v] # q
  BY <1>0, <1>3, ProgressCases DEF Continues, Ends, TypeOK
<1>4. ASSUME NEW w \in Workers, Give(w)
      PROVE  answer'[q] = answer[q] /\ input'[q] = input[q] /\ \A v \in Workers : job'[v] # q
  BY <1>0, <1>4, NoRequestAssumption DEF Give, TypeOK
<1>5. CASE Restart
  BY <1>0, <1>5, <1>a, NoRequestAssumption DEF Restart
<1>6. CASE DropLink \/ UNCHANGED vars
  BY <1>0, <1>6, <1>a DEF DropLink, vars
<1> QED
  BY <1>a, <1>1, <1>2, <1>3, <1>4, <1>5, <1>6, NextCases, HeadExecutes, LateExecutes

\* What was acknowledged stays so.
LEMMA KnownStep ==
    ASSUME TypeOK, UnaskedInv, WorkerInv, SentInv, LateInv, KnownInv, [Next]_vars
    PROVE  KnownInv'
<1>1. ASSUME NEW q \in Requests, Acked(q)
      PROVE  (input[q] # NoInput /\ Acked(q))'
  BY <1>1, GivenStays DEF Acked
<1>2. ASSUME NEW r \in Requests
      PROVE  known'[r] \subseteq Requests /\ \A q \in known'[r] : Acked(q)
  <2>1. CASE known'[r] = known[r]
    BY <2>1 DEF KnownInv, TypeOK
  <2>2. ASSUME NEW w \in Workers, NEW i \in Inputs, Ask(w, r, i)
        PROVE  known'[r] \subseteq Requests /\ \A q \in known'[r] : Acked(q)
    BY <2>2 DEF Ask, Receive, TypeOK
  <2>3. ASSUME NEW w \in Workers, NEW i \in Inputs, NEW p \in Requests \ {r}, Ask(w, p, i)
        PROVE  known'[r] = known[r]
    BY <2>3 DEF Ask, Receive, TypeOK
  <2>4. ASSUME NEW w \in Workers, NEW i \in Inputs, NEW p \in Requests,
               RejectStep(w, p, i) \/ QueryStep(w, p, i)
        PROVE  Ask(w, p, i)
    BY <2>4 DEF RejectStep, QueryStep
  <2>5. ASSUME NEW w \in Workers, ReadReply(w) \/ StoreResult(w)
        PROVE  known'[r] = known[r]
    BY <2>5, ProgressCases
  <2>6. ASSUME NEW p \in Requests, Executes(p)
        PROVE  known'[r] = known[r]
    BY <2>6 DEF Executes
  <2> QED
    BY <2>1, <2>2, <2>3, <2>4, <2>5, <2>6, NextCases, HeadExecutes, LateExecutes DEF Give, DropLink, Restart, vars
<1>3. ASSUME NEW r \in Requests, NEW q \in known'[r]
      PROVE  (input[q] # NoInput /\ Acked(q))'
  <2>1. q \in Requests /\ Acked(q)
    BY <1>2, <1>3
  <2> QED
    BY <1>1, <2>1
<1> QED
  BY <1>3 DEF KnownInv

\* What is known was done.
LEMMA KnownDone ==
    ASSUME TypeOK, KnownInv, AnswerInv, NEW r \in Requests, NEW q \in known[r]
    PROVE  q \in Requests /\ input[q] # NoInput /\ input[q] \in Inputs /\ outcome[q].done = "done"
<1>1. q \in Requests /\ input[q] # NoInput /\ Acked(q)
  BY DEF KnownInv, TypeOK
<1>2. Acknowledges(q)
  BY <1>1 DEF AnswerInv, Acked, Answered
<1> QED
  BY <1>1, <1>2 DEF Acknowledges, TypeOK

\* A list finds what is there, and what was known to be done when it was asked for is.
LEMMA SelectStep ==
    ASSUME TypeOK, UnaskedInv, SentInv, LateInv, RowInv, TableInv, KnownInv, AnswerInv, SelectInv, [Next]_vars
    PROVE  SelectInv'
<1>0. Quiet \/ \E r \in Requests : Executes(r)
  BY StepCases
<1>1. ASSUME NEW r \in Requests, NEW rows, input[r] # NoInput, input'[r] = input[r], known'[r] = known[r], Keeps(r, rows),
             rows \subseteq Requests
      PROVE  Keeps(r, rows)'
  <2>1. ASSUME NEW q \in known[r]
        PROVE  /\ input'[q] = input[q] /\ outcome'[q] = outcome[q]
               /\ Deleted(q) => Deleted(q)'
    BY <1>0, <2>1, KnownDone, DoneStays, TracesStay
  <2>2. ASSUME NEW q \in rows
        PROVE  input'[q] = input[q]
    <3>1. q \in Requests /\ input[q] # NoInput
      BY <1>1 DEF Keeps
    <3> QED
      BY <1>0, <3>1 DEF Quiet, Executes
  <2> QED
    BY <1>1, <2>1, <2>2 DEF Keeps, Owner
<1>2. ASSUME NEW r \in Requests, Executes(r), input[r].op = "select", outcome'[r].done = "done"
      PROVE  Keeps(r, outcome[r].rows)'
  <2> DEFINE s == StatementOf(r, input[r])
             found == RowsOf(input[r].table, Owner(r))
  <2>1. /\ s \in Statement /\ Execute(s) /\ s.req = r /\ s.op = "select" /\ s.table = input[r].table
        /\ s.user = Owner(r) /\ input' = input /\ known' = known
    BY <1>2 DEF Executes, StatementOf, Owner
  <2> HIDE DEF s
  <2>2. SelectRows(s)
    <3>1. ~RefuseStatement(s)
      BY <1>2, <2>1 DEF RefuseStatement, Record, TypeOK, DbTypeOK
    <3> QED
      BY <2>1, <3>1 DEF Execute, InsertRow, InsertRowsToo, DeleteRows, InsertUser, RewriteUser, SelectUser, SelectAnyUser
  <2>3. outcome'[r].rows = found /\ tables' = tables
    BY <2>1, <2>2 DEF SelectRows, Record, TypeOK, DbTypeOK
  <2>4. input[r].table \in Tables
    BY <2>1 DEF Statement
  <2>5. ASSUME NEW q \in found
        PROVE  /\ q \in Requests /\ input[q] # NoInput /\ input[q].op = "insert" /\ input[q].table = input[r].table
               /\ \E row \in tables[input[r].table] : row.id = q
    <3>1. PICK row \in tables[input[r].table] : row.id = q
      BY DEF RowsOf
    <3>2. q \in Requests
      BY <2>4, <3>1 DEF TypeOK, DbTypeOK, Row
    <3> QED
      BY <2>4, <3>1, <3>2 DEF TableInv
  <2>6. ASSUME NEW q \in known[r], input[q].op = "insert", input[q].table = input[r].table, Owner(q) = Owner(r)
        PROVE  q \in found \/ Deleted(q)'
    <3>1. Stored(q) \/ Deleted(q)
      BY <2>6, KnownDone DEF RowInv, Kept
    <3>2. CASE Stored(q)
      <4>1. [id |-> q, user |-> Owner(r)] \in tables[input[r].table]
        BY <2>6, <3>2 DEF Stored
      <4> QED
        BY <4>1 DEF RowsOf
    <3>3. CASE Deleted(q)
      BY <1>0, <3>3, KnownDone, TracesStay
    <3> QED
      BY <3>1, <3>2, <3>3
  <2>7. ASSUME NEW q \in known[r], input[q].op = "delete"
        PROVE  outcome'[q].rows \cap found = {}
    <3>1. q \in Requests /\ input[q] # NoInput /\ outcome'[q] = outcome[q]
      BY <1>0, KnownDone, DoneStays
    <3>2. \A d \in outcome[q].rows : \A row \in tables[input[r].table] : row.id # d
      BY <2>4, <2>7, <3>1 DEF TableInv
    <3> QED
      BY <2>5, <3>1, <3>2
  <2> HIDE DEF found
  <2> QED
    BY <2>1, <2>3, <2>5, <2>6, <2>7 DEF Keeps, Owner
<1>3. ASSUME NEW r \in Requests, outcome'[r].done = "done", input'[r].op = "select"
      PROVE  Keeps(r, outcome[r].rows)'
  <2>1. CASE outcome'[r] = outcome[r]
    <3>1. input[r] # NoInput /\ input'[r] = input[r] /\ known'[r] = known[r]
      BY <1>0, <1>3, <2>1, DoneStays
    <3>2. Keeps(r, outcome[r].rows) /\ outcome[r].rows \subseteq Requests
      BY <1>3, <2>1, <3>1 DEF SelectInv, TypeOK, DbTypeOK, Outcome
    <3>3. PICK rows : rows = outcome[r].rows
      OBVIOUS
    <3>4. Keeps(r, rows)'
      BY <1>1, <3>1, <3>2, <3>3
    <3> QED
      BY <2>1, <3>3, <3>4 DEF Keeps
  <2>2. CASE Executes(r)
    BY <1>2, <1>3, <2>2 DEF Executes
  <2> QED
    BY <1>0, <2>1, <2>2, ExecutesFrame DEF Quiet, dbVars
<1> QED
  BY <1>3 DEF SelectInv

\* A login whose email stands in the SELECT as it is finds that user, and finds
\* whoever its client could know to be there.
LEMMA LoginStep ==
    ASSUME TypeOK, UnaskedInv, SentInv, LateInv, RowInv, InitialInv, KnownInv, AnswerInv, LoginInv, [Next]_vars
    PROVE  LoginInv'
<1> DEFINE Right(r) ==
        LET email == input[r].account.email
        IN  \/ Rewritten
            \/ /\ \A f \in outcome[r].found : /\ f.id \in DOMAIN users
                                              /\ HasAccount(users[f.id], email, f.pw)
               /\ \A pw \in Passwords : KnownAccount(r, email, pw) =>
                     \E f \in outcome[r].found : f.pw = pw
<1>0. Quiet \/ \E r \in Requests : Executes(r)
  BY StepCases
<1>1. ASSUME NEW r \in Requests, outcome[r].done # "no", Right(r)
      PROVE  Right(r)'
  <2>1. outcome'[r] = outcome[r] /\ input'[r] = input[r] /\ known'[r] = known[r]
    BY <1>0, <1>1, DoneStays
  <2>2. \A q \in known[r] : input'[q] = input[q]
    BY <1>0, KnownDone, DoneStays
  <2>3. \A email, pw : KnownAccount(r, email, pw)' => KnownAccount(r, email, pw)
    BY <2>1, <2>2 DEF KnownAccount
  <2>4. CASE Rewritten'
    BY <2>4
  <2>5. CASE ~Rewritten'
    <3>1. ~Rewritten /\ \A u \in DOMAIN users : u \in DOMAIN users' /\ users'[u] = users[u]
      BY <1>0, <2>5, TracesStay, UsersStay
    <3> QED
      BY <1>1, <2>1, <2>3, <3>1 DEF HasAccount
  <2> QED
    BY <2>4, <2>5
<1>2. ASSUME NEW r \in Requests, Executes(r), input[r].op = "login", input[r].body = "good"
      PROVE  Right(r)'
  <2> DEFINE s == StatementOf(r, input[r])
             email == input[r].account.email
  <2>1. /\ s \in Statement /\ Execute(s) /\ s.req = r /\ s.op = "login" /\ s.account.email = email
        /\ s.text = "good" /\ input' = input /\ known' = known
    BY <1>2 DEF Executes, StatementOf
  <2>2. SelectUser(s)
    <3> HIDE DEF s
    <3>1. ~RefuseStatement(s)
      BY <2>1 DEF RefuseStatement, Accepts, Spliced
    <3> QED
      BY <2>1, <3>1 DEF Execute, InsertRow, InsertRowsToo, DeleteRows, SelectRows, InsertUser, RewriteUser,
                        SelectAnyUser, Spliced
  <2> HIDE DEF s
  <2>3. outcome'[r].found = UserOf(email) /\ users' = users
    BY <2>1, <2>2 DEF SelectUser, Record, TypeOK, DbTypeOK
  <2>4. ASSUME NEW f \in UserOf(email)
        PROVE  f.id \in DOMAIN users /\ HasAccount(users[f.id], email, f.pw)
    BY DEF UserOf, HasAccount
  <2>5. ASSUME NEW pw \in Passwords, KnownAccount(r, email, pw)
        PROVE  Rewritten \/ \E f \in UserOf(email) : f.pw = pw
    <3>1. ASSUME NEW u \in DOMAIN users, HasAccount(users[u], email, pw)
          PROVE  \E f \in UserOf(email) : f.pw = pw
      <4>1. [id |-> u, pw |-> users[u].pw] \in UserOf(email)
        BY <3>1 DEF UserOf, HasAccount
      <4> QED
        BY <3>1, <4>1 DEF HasAccount
    <3>2. ASSUME NEW u \in DOMAIN InitialUsers, HasAccount(InitialUsers[u], email, pw)
          PROVE  Rewritten \/ \E f \in UserOf(email) : f.pw = pw
      BY <3>1, <3>2 DEF InitialInv
    <3>3. ASSUME NEW q \in known[r], input[q].op = "register", input[q].body = "good",
                 HasAccount(input[q].account, email, pw)
          PROVE  Rewritten \/ \E f \in UserOf(email) : f.pw = pw
      <4>1. Rewritten \/ \E u \in DOMAIN users : users[u] = input[q].account
        BY <3>3, KnownDone DEF RowInv, Kept
      <4> QED
        BY <3>1, <3>3, <4>1
    <3> QED
      BY <2>5, <3>2, <3>3 DEF KnownAccount
  <2>6. \A pw : KnownAccount(r, email, pw)' => KnownAccount(r, email, pw)
    BY <2>1 DEF KnownAccount
  <2>7. Rewritten => Rewritten'
    BY <1>0, TracesStay
  <2> QED
    BY <2>1, <2>3, <2>4, <2>5, <2>6, <2>7 DEF HasAccount
<1>3. ASSUME NEW r \in Requests, outcome'[r].done # "no", input'[r].op = "login", input'[r].body = "good"
      PROVE  Right(r)'
  <2>1. CASE outcome'[r] = outcome[r]
    <3>1. input'[r] = input[r]
      BY <1>0, <1>3, <2>1, DoneStays
    <3>2. Right(r)
      BY <1>3, <2>1, <3>1 DEF LoginInv
    <3> HIDE DEF Right
    <3> QED
      BY <1>1, <1>3, <2>1, <3>2
  <2>2. CASE Executes(r)
    <3>1. input' = input
      BY <2>2 DEF Executes
    <3> HIDE DEF Right
    <3> QED
      BY <1>2, <1>3, <2>2, <3>1
  <2> QED
    BY <1>0, <2>1, <2>2, ExecutesFrame DEF Quiet, dbVars
<1> QED
  BY <1>3 DEF LoginInv

-----------------------------------------------------------------------------
(* One handler at a time *)

\* The kinds of packets in a reply.
LEMMA ReplyShape ==
    ASSUME NEW r, NEW accepted, NEW selects
    PROVE  LET reply == ReplyTo(r, accepted, selects)
           IN  /\ reply # <<>>
               /\ ~accepted => Head(reply).kind = "err" /\ Tail(reply) = <<>> /\ Len(reply) = 1
               /\ accepted /\ ~selects => Head(reply).kind = "ok" /\ Tail(reply) = <<>> /\ Len(reply) = 1
               /\ accepted /\ selects => /\ Head(reply) = [kind |-> "header", req |-> r]
                                        /\ Head(reply).kind = "header"
                                        /\ Tail(reply) = <<[kind |-> "rows", req |-> r]>>
                                        /\ Len(reply) = 2
BY DEF ReplyTo

\* The handler that reads a reply alone reads the reply to its statement.
LEMMA ReadsOwnReply ==
    ASSUME TypeOK, WorkerInv, AloneInv, ~raced, NEW w \in Workers, ReadReply(w)
    PROVE  LET r == job[w]
           IN  /\ r \in Requests /\ input[r] \in Inputs /\ sent = <<>> /\ status = "ready"
               /\ \/ /\ ReadOk(w) /\ ~Selects(Op(w)) /\ outcome[r].done = "done"
                     /\ Tail(stream) = <<>>
                  \/ /\ ReadError(w) /\ outcome[r].done = "refused" /\ Tail(stream) = <<>>
                  \/ /\ ReadHeader(w) /\ Selects(Op(w)) /\ outcome[r].done = "done"
                     /\ Tail(stream) = <<[kind |-> "rows", req |-> r]>>
                  \/ ReadHeader(w) /\ Selects(Op(w)) /\ link = "down" /\ Tail(stream) = <<>>
                  \/ ReadNothing(w)
<1> DEFINE r == job[w]
<1>1. r \in Requests /\ input[r] \in Inputs
  BY DEF ReadReply, WorkerInv, TypeOK
<1>2. sent = <<>>
  BY AloneReads
<1>3. /\ ReadOk(w) \/ ReadError(w) \/ ReadHeader(w) \/ ReadNothing(w)
      /\ status = "ready"
      /\ Awaiting(r) \/ Abandoned \/ Replied(r) \/ Truncated(r)
  BY DEF ReadReply, ReadGarbled, AloneInv, InDialogue, InLibrary
<1>4. Awaiting(r) \/ Abandoned => ReadNothing(w)
  BY <1>2, <1>3 DEF Awaiting, Abandoned, Gone, ReadOk, ReadError, ReadHeader, HeadIs
<1>5. ASSUME Truncated(r), ~ReadNothing(w)
      PROVE  ReadHeader(w) /\ Selects(Op(w)) /\ link = "down" /\ Tail(stream) = <<>>
  BY <1>3, <1>5 DEF Truncated, ReadOk, ReadError, HeadIs, Op
<1>6. ASSUME Replied(r), ~ReadNothing(w)
      PROVE  \/ /\ ReadOk(w) /\ ~Selects(Op(w)) /\ outcome[r].done = "done"
                /\ Tail(stream) = <<>>
             \/ /\ ReadError(w) /\ outcome[r].done = "refused" /\ Tail(stream) = <<>>
             \/ /\ ReadHeader(w) /\ Selects(Op(w)) /\ outcome[r].done = "done"
                /\ Tail(stream) = <<[kind |-> "rows", req |-> r]>>
  <2> DEFINE done == outcome[r].done = "done"
             selects == Selects(Op(w))
  <2>1. stream = ReplyTo(r, done, selects) /\ outcome[r].done # "no"
    BY <1>6 DEF Replied, Op
  <2>2. CASE ~done
    <3>1. stream = <<[kind |-> "err", req |-> r]>>
      BY <2>1, <2>2 DEF ReplyTo
    <3>2. Head(stream).kind = "err" /\ Tail(stream) = <<>>
      BY <3>1
    <3>3. outcome[r].done = "refused"
      BY <1>1, <2>1, <2>2 DEF TypeOK, DbTypeOK, Outcome
    <3> QED
      BY <1>3, <1>6, <3>2, <3>3 DEF ReadOk, ReadHeader, HeadIs
  <2>3. CASE done /\ ~selects
    <3>1. Head(stream).kind = "ok" /\ Tail(stream) = <<>>
      BY <2>1, <2>3, ReplyShape
    <3> QED
      BY <1>3, <1>6, <2>3, <3>1 DEF ReadError, ReadHeader, HeadIs
  <2>4. CASE done /\ selects
    <3>1. Head(stream).kind = "header" /\ Tail(stream) = <<[kind |-> "rows", req |-> r]>>
      BY <2>1, <2>4, ReplyShape
    <3> QED
      BY <1>3, <1>6, <2>1, <2>4, <3>1 DEF ReadOk, ReadError, HeadIs
  <2> QED
    BY <2>2, <2>3, <2>4
<1> QED
  BY <1>1, <1>2, <1>3, <1>4, <1>5, <1>6

\* The handler that reads rows alone reads those of its SELECT.
LEMMA ReadsOwnRows ==
    ASSUME TypeOK, WorkerInv, AloneInv, ~raced, NEW w \in Workers, StoreResult(w)
    PROVE  LET r == job[w]
           IN  /\ r \in Requests /\ input[r] \in Inputs /\ sent = <<>> /\ Selects(Op(w))
               /\ \/ /\ StoreRows(w) /\ Head(stream).req = r /\ Tail(stream) = <<>>
                     /\ outcome[r].done = "done"
                  \/ StoreNothing(w) /\ link = "down"
<1> DEFINE r == job[w]
<1>1. r \in Requests /\ input[r] \in Inputs
  BY DEF StoreResult, WorkerInv, TypeOK
<1>2. Described(r) \/ CutShort(r)
  BY DEF StoreResult, AloneInv, InDialogue, InLibrary
<1>3. CASE Described(r)
  <2>1. StoreRows(w)
    BY <1>3 DEF Described, StoreResult, StoreNull, StoreNothing, StoreForeign, ResultPending, Gone, HeadIs
  <2> QED
    BY <1>1, <1>3, <2>1 DEF Described, Op
<1>4. CASE CutShort(r)
  <2>1. StoreNothing(w)
    BY <1>4 DEF CutShort, Abandoned, Gone, StoreResult, StoreNull, StoreForeign, StoreRows, ResultPending, HeadIs
  <2> QED
    BY <1>1, <1>4, <2>1 DEF CutShort, Abandoned, Gone, Op
<1> QED
  BY <1>2, <1>3, <1>4

\* What AnswerInv says of r.
Truthful(r) ==
    /\ Answered(r, {200, 201}) => (answer[r].up \/ ~Selects(input[r].op) => Acknowledges(r))
    /\ Undisturbed(r, {401}) /\ input[r].op = "login" => outcome[r].done # "no" /\ ~Finds(r)
    /\ Undisturbed(r, {400, 401, 500}) =>
          \/ outcome[r].done # "done" /\ r \notin late
          \/ Selects(input[r].op)

\* The answer of a handler that ran alone is the truth about its statement.
LEMMA AloneAnswer ==
    ASSUME TypeOK, UnaskedInv, WorkerInv, LateInv, AloneInv, ~raced, NEW w \in Workers,
           ReadReply(w) \/ StoreResult(w), Ends(w), NEW r \in Requests, r = job[w]
    PROVE  Truthful(r)'
<1>0. UNCHANGED <<outcome, input, late>> /\ (r \in late => outcome[r].done = "no") /\ Op(w) = input[r].op
  BY ProgressCases DEF LateInv, UnderWay, dbVars, Op
<1>1. ASSUME NEW code, NEW rows, NEW token, Finish(w, code, rows, token)
      PROVE  /\ answer'[r].code = code /\ answer'[r].rows = rows /\ answer'[r].token = token
             /\ answer'[r].up = (link = "up")
  BY <1>1 DEF Finish, Respond, TypeOK
<1>2. ASSUME NEW code, NEW rows, NEW token, Finish(w, code, rows, token), link = "down"
      PROVE  ~answer'[r].up
  <2>1. link # "up" /\ answer'[r].up = (link = "up")
    BY <1>1, <1>2
  <2> QED
    BY <2>1, Zenon
<1>3. input[r].op \in Ops
  BY ReadsOwnReply, ReadsOwnRows, InputsAssumption DEF HttpRequest
<1>4. CASE ReadOk(w) /\ ~Selects(Op(w)) /\ outcome[r].done = "done"
  <2>1. answer'[r].code = SuccessCode(input[r].op) /\ answer'[r].rows = {} /\ answer'[r].token = NoToken
    BY <1>0, <1>1, <1>4 DEF ReadOk, QuerySucceeded
  <2>2. input[r].op # "login" /\ input[r].op # "select"
    BY <1>0, <1>4 DEF Selects
  <2>3. answer'[r].code \in {200, 201}
    BY <2>1, CodeTypes
  <2> QED
    BY <1>0, <1>4, <2>1, <2>2, <2>3 DEF Truthful, Answered, Undisturbed, Acknowledges
<1>5. CASE ReadError(w) /\ outcome[r].done = "refused"
  <2>1. answer'[r].code = FailureCode(input[r].op)
    BY <1>0, <1>1, <1>5 DEF ReadError, QueryFailed
  <2>2. input[r].op # "select" /\ outcome[r].found = {}
    BY <1>5 DEF UnaskedInv
  <2>3. answer'[r].code \in {400, 401, 500}
    BY <2>1, <2>2 DEF FailureCode
  <2> QED
    BY <1>0, <1>5, <2>2, <2>3 DEF Truthful, Answered, Undisturbed, Finds
<1>6. CASE ReadNothing(w)
  <2>1. answer'[r].code = FailureCode(input[r].op) /\ ~answer'[r].up
    BY <1>0, <1>1, <1>2, <1>6 DEF ReadNothing, QueryFailed, Gone
  <2>2. answer'[r].code \in {200, 201} => Selects(input[r].op)
    BY <2>1 DEF FailureCode, Selects
  <2> QED
    BY <1>0, <2>1, <2>2 DEF Truthful, Answered, Undisturbed
<1>7. CASE StoreNothing(w) /\ link = "down" /\ Selects(Op(w))
  <2>1. ~answer'[r].up
    BY <1>2, <1>7 DEF StoreNothing, NoResult
  <2> QED
    BY <1>0, <1>7, <2>1 DEF Truthful, Answered, Undisturbed
<1>8. CASE StoreRows(w) /\ Head(stream).req = r /\ outcome[r].done = "done" /\ Op(w) = "login"
  <2>1. UseLoginRow(w, r)
    BY <1>8 DEF StoreRows
  <2>2. \A f : PasswordVerified(w, r, f) <=> f \in outcome[r].found /\ f.pw = input[r].account.pw
    BY <1>0, <1>8 DEF PasswordVerified
  <2>3. ASSUME NEW f \in outcome[r].found, PasswordVerified(w, r, f), Finish(w, 200, {}, f.id)
        PROVE  Truthful(r)'
    <3>1. answer'[r].code = 200 /\ answer'[r].rows = {} /\ answer'[r].token = f.id
      BY <1>1, <2>3
    <3> QED
      BY <1>0, <1>8, <2>2, <2>3, <3>1 DEF Truthful, Answered, Undisturbed, Acknowledges, Selects
  <2>4. ASSUME ~ \E f \in outcome[r].found : PasswordVerified(w, r, f), NoResult(w)
        PROVE  Truthful(r)'
    <3>1. answer'[r].code = 401
      BY <1>0, <1>1, <1>8, <2>4 DEF NoResult, FailureCode
    <3> QED
      BY <1>0, <1>8, <2>2, <2>4, <3>1 DEF Truthful, Answered, Undisturbed, Finds, Selects
  <2> QED
    BY <2>1, <2>3, <2>4 DEF UseLoginRow
<1>9. CASE StoreRows(w) /\ Head(stream).req = r /\ outcome[r].done = "done" /\ Op(w) = "select"
  <2>1. Finish(w, 200, outcome[r].rows, NoToken) \/ Finish(w, 500, {}, NoToken)
    BY <1>9 DEF StoreRows, UseListRows
  <2>2. \/ answer'[r].code = 200 /\ answer'[r].rows = outcome[r].rows /\ answer'[r].token = NoToken
        \/ answer'[r].code = 500
    BY <1>1, <2>1
  <2> QED
    BY <1>0, <1>9, <2>2 DEF Truthful, Answered, Undisturbed, Acknowledges, Selects
<1>10. CASE ReadHeader(w) /\ Selects(Op(w))
  <2>1. pc'[w] = "store"
    BY <1>10 DEF ReadHeader, QuerySucceeded, TypeOK
  <2> QED
    BY <2>1 DEF Ends, TypeOK
<1>11. CASE ReadReply(w)
  BY <1>4, <1>5, <1>6, <1>10, <1>11, ReadsOwnReply
<1>12. CASE StoreResult(w)
  BY <1>7, <1>8, <1>9, <1>12, ReadsOwnRows DEF Selects
<1> QED
  BY <1>11, <1>12

\* An answer goes on saying the truth of the statement it was given for.
LEMMA AnswerStep ==
    ASSUME TypeOK, UnaskedInv, WorkerInv, SentInv, LateInv, AloneInv, AnswerInv, [Next]_vars
    PROVE  AnswerInv'
<1>a. \A r \in Requests : Truthful(r)
  BY DEF AnswerInv, RefusedLeavesNoTrace, Truthful
<1>b. ASSUME \A r \in Requests : Truthful(r)'
      PROVE  AnswerInv'
  BY <1>b DEF AnswerInv, RefusedLeavesNoTrace, Truthful
<1>c. ASSUME NEW q \in Requests, answer'[q] = answer[q], input'[q] = input[q], outcome'[q] = outcome[q],
             q \in late' => q \in late \/ answer[q].code = Pending \/ answer[q].raced
      PROVE  Truthful(q)'
  <2>1. Pending \notin {200, 201, 400, 401, 500}
    BY DEF Pending
  <2> QED
    BY <1>a, <1>c, <2>1 DEF Truthful, Answered, Undisturbed, Acknowledges, Finds
<1>1. ASSUME NEW w \in Workers, NEW r \in Requests, NEW i \in Inputs,
             RejectStep(w, r, i) \/ QueryStep(w, r, i)
      PROVE  AnswerInv'
  <2>1. /\ UNCHANGED <<outcome, late>> /\ input' = [input EXCEPT ![r] = i] /\ input[r] = NoInput
        /\ \A q \in Requests \ {r} : answer'[q] = answer[q]
    BY <1>1, AskFrame DEF dbVars
  <2>2. outcome'[r].done = "no" /\ r \notin late' /\ input'[r] = i /\ answer[r].code = Pending
    BY <2>1 DEF UnaskedInv, LateInv, UnderWay, TypeOK, NoAnswer
  <2>3. ASSUME RejectStep(w, r, i)
        PROVE  Truthful(r)'
    <3>1. PICK code \in {400, 401, 500} : Reject(r, code) /\ (code = 401 => i.op # "login")
      BY <2>3 DEF RejectStep
    <3>2. answer'[r].code = code
      BY <3>1 DEF Reject, Respond, TypeOK
    <3> QED
      BY <2>2, <3>1, <3>2 DEF Truthful, Answered, Undisturbed
  <2>4. ASSUME UNCHANGED answer
        PROVE  Truthful(r)'
    BY <2>2, <2>4 DEF Truthful, Answered, Undisturbed, Pending
  <2>5. ASSUME QueryStep(w, r, i), SendFails, Respond(r, FailureCode(i.op), {}, NoToken)
        PROVE  Truthful(r)'
    <3>1. answer'[r].code = FailureCode(i.op) /\ answer'[r].raced = raced' /\ answer'[r].up = (link = "up")
      BY <2>5 DEF Respond, TypeOK
    <3>2. ASSUME ~raced'
          PROVE  ~answer'[r].up
      <4>1. ~raced /\ Idle
        BY <2>5, <3>2 DEF QueryStep, Query, Ask, Receive, Idle, InLibrary
      <4>2. link # "up"
        BY <2>5, <4>1 DEF SendFails, CanSend, AloneInv, ConnectionIsReleased
      <4> QED
        BY <3>1, <4>2, Zenon
    <3>3. FailureCode(i.op) \in {200, 201} => Selects(i.op)
      BY DEF FailureCode, Selects
    <3>4. ~Answered(r, {200, 201, 400, 401, 500})' \/ ~answer'[r].up
      BY <3>1, <3>2 DEF Answered
    <3> QED
      BY <2>2, <3>1, <3>3, <3>4 DEF Truthful, Answered, Undisturbed
  <2>6. Truthful(r)'
    BY <1>1, <2>3, <2>4, <2>5 DEF QueryStep, Query
  <2>7. ASSUME NEW q \in Requests \ {r}
        PROVE  Truthful(q)'
    BY <1>c, <2>1 DEF TypeOK
  <2> QED
    BY <1>b, <2>6, <2>7
<1>2. ASSUME NEW r \in Requests, Executes(r), Open(r), late' \subseteq late
      PROVE  AnswerInv'
  <2>1. Truthful(r)'
    <3>1. UNCHANGED <<input, answer>> /\ outcome[r].done = "no"
      BY <1>2, ExecutesFrame DEF Executes
    <3>2. Answered(r, {200, 201}) => ~answer[r].up /\ Selects(input[r].op)
      BY <1>2, <1>a, <3>1 DEF Open, Answered, Truthful, Acknowledges, Pending, Lost
    <3>3. ~Undisturbed(r, {400, 401, 500})
      BY <1>2 DEF Open, Answered, Undisturbed, Pending, Lost
    <3> QED
      BY <3>1, <3>2, <3>3 DEF Truthful, Answered, Undisturbed
  <2>2. ASSUME NEW q \in Requests \ {r}
        PROVE  Truthful(q)'
    BY <1>2, <1>c, ExecutesFrame DEF Executes
  <2> QED
    BY <1>b, <2>1, <2>2
<1>3. ASSUME NEW w \in Workers, ReadReply(w) \/ StoreResult(w)
      PROVE  AnswerInv'
  <2>1. UNCHANGED <<outcome, input, late>>
    BY <1>3, ProgressCases DEF dbVars
  <2>2. CASE Continues(w)
    BY <1>b, <1>c, <2>1, <2>2 DEF Continues
  <2>3. CASE Ends(w)
    <3>1. /\ \A q \in Requests \ {job[w]} : answer'[q] = answer[q]
          /\ job[w] \in Requests => answer'[job[w]].raced = raced
      BY <2>3 DEF Ends, TypeOK
    <3>2. ASSUME NEW q \in Requests
          PROVE  Truthful(q)'
      <4>1. CASE q # job[w]
        BY <1>c, <2>1, <3>1, <4>1
      <4>2. CASE q = job[w] /\ raced
        BY <3>1, <4>2 DEF Truthful, Answered, Undisturbed
      <4>3. CASE q = job[w] /\ ~raced
        BY <1>3, <2>3, <4>3, AloneAnswer
      <4> QED
        BY <4>1, <4>2, <4>3
    <3> QED
      BY <1>b, <3>2
  <2> QED
    BY <1>3, <2>2, <2>3, ProgressCases
<1>4. ASSUME NEW w \in Workers, Give(w)
      PROVE  AnswerInv'
  BY <1>4, <1>b, <1>c DEF Give, dbVars, connVars
<1>5. ASSUME LeaveBehind
      PROVE  \A q \in late' \ late : answer[q].code = Pending \/ answer[q].raced
  BY <1>5, LeftBehind DEF SentInv, TypeOK
<1>6. CASE DropLink
  BY <1>6, <1>b, <1>c, <1>5 DEF DropLink, LoseLink, dbVars
<1>7. CASE Restart
  <2>1. ASSUME NEW q \in Requests
        PROVE  Truthful(q)'
    <3>1. UNCHANGED <<outcome, input>> /\ LeaveBehind
      BY <1>7 DEF Restart, Reconnected, dbVars
    <3>2. CASE answer'[q] = answer[q]
      BY <1>c, <1>5, <3>1, <3>2
    <3>3. CASE answer'[q] = [NoAnswer EXCEPT !.code = Lost]
      <4>1. answer'[q].code = 1
        BY <3>3 DEF NoAnswer, Lost
      <4> QED
        BY <4>1 DEF Truthful, Answered, Undisturbed
    <3> QED
      BY <1>7, <3>2, <3>3 DEF Restart
  <2> QED
    BY <1>b, <2>1
<1>8. CASE UNCHANGED vars
  BY <1>8, <1>b, <1>c DEF vars, dbVars, connVars
<1> QED
  BY <1>1, <1>2, <1>3, <1>4, <1>6, <1>7, <1>8, NextCases, HeadExecutes, LateExecutes

\* A dialogue is where it was if nothing it depends on has changed.
LEMMA DialogueFrame ==
    ASSUME NEW w \in Workers, InDialogue(w), pc'[w] = pc[w], job'[w] = job[w],
           UNCHANGED <<link, status, fields, sent, stream>>,
           NEW r \in Requests, InLibrary(w) => job[w] = r,
           input'[r] = input[r], outcome[r].done # "no" => outcome'[r] = outcome[r]
    PROVE  InDialogue(w)'
<1>1. CASE ~InLibrary(w)
  BY <1>1 DEF InDialogue, InLibrary
<1>2. /\ Awaiting(r) => Awaiting(r)'
      /\ Abandoned => Abandoned'
      /\ Truncated(r) => Truncated(r)'
      /\ CutShort(r) => CutShort(r)'
  BY DEF Awaiting, Abandoned, Truncated, CutShort, Gone
<1>3. Replied(r) => Replied(r)'
  BY DEF Replied
<1>4. Described(r) => Described(r)'
  BY DEF Described
<1>5. CASE InLibrary(w) /\ pc[w] = "reply"
  <2>1. job[w] = r /\ job'[w] = r
    BY <1>5
  <2> QED
    BY <1>2, <1>3, <1>5, <2>1 DEF InDialogue, InLibrary
<1>6. CASE InLibrary(w) /\ pc[w] = "store"
  <2>1. job[w] = r /\ job'[w] = r
    BY <1>6
  <2> QED
    BY <1>2, <1>4, <1>6, <2>1 DEF InDialogue, InLibrary
<1> QED
  BY <1>1, <1>5, <1>6 DEF InLibrary

\* What is left of a reply that was cut short.
LEMMA Prefixes ==
    ASSUME NEW S, NEW s \in Seq(S), NEW n \in 0..Len(s), Len(s) <= 2
    PROVE  \/ SubSeq(s, 1, n) = <<>>
           \/ SubSeq(s, 1, n) = s
           \/ Len(s) = 2 /\ SubSeq(s, 1, n) = <<s[1]>>
<1>1. CASE n = 0
  BY <1>1, SubSeqEmpty
<1>2. CASE n = Len(s)
  BY <1>2, SubSeqFull
<1>3. CASE n = 1 /\ Len(s) = 2
  <2>1. s[1] \in S
    BY <1>3, ElementOfSeq
  <2>2. SubSeq(s, 1, 1) = SubSeq(s, 1, 0) \o <<s[1]>>
    BY <1>3, SubSeqRecursiveSecond
  <2>3. SubSeq(s, 1, 0) = <<>>
    BY SubSeqEmpty
  <2>4. <<>> \o <<s[1]>> = <<s[1]>>
    BY <2>1, ConcatEmptySeq
  <2> QED
    BY <1>3, <2>2, <2>3, <2>4
<1>4. n = 0 \/ n = Len(s) \/ (n = 1 /\ Len(s) = 2)
  <2>1. Len(s) \in Nat
    BY LenProperties
  <2>2. PICK k \in Nat : k = Len(s)
    BY <2>1
  <2> QED
    BY <2>2
<1> QED
  BY <1>1, <1>2, <1>3, <1>4

\* The dialogue of a handler that is alone goes through its phases.
LEMMA AloneStep ==
    ASSUME TypeOK, UnaskedInv, WorkerInv, SentInv, LateInv, AloneInv, [Next]_vars
    PROVE  AloneInv'
<1> SUFFICES ASSUME ~raced'
             PROVE  /\ \A v, w \in Workers : InLibrary(v)' /\ InLibrary(w)' => v = w
                    /\ \A w \in Workers : InDialogue(w)'
                    /\ ConnectionIsReleased'
  BY DEF AloneInv
\* It is enough to look at the one worker that is in the library afterwards.
<1>a. ASSUME NEW w \in Workers, \A v \in Workers \ {w} : ~InLibrary(v)', InLibrary(w)', InDialogue(w)'
      PROVE  AloneInv'
  <2>1. \A v \in Workers \ {w} : InDialogue(v)'
    BY <1>a DEF InDialogue, InLibrary
  <2> QED
    BY <1>a, <2>1 DEF AloneInv, ConnectionIsReleased, Idle
<1>b. ASSUME \A v \in Workers : ~InLibrary(v)', sent' = <<>>, stream' = <<>>, status' = "ready"
      PROVE  AloneInv'
  BY <1>b DEF AloneInv, InDialogue, InLibrary, ConnectionIsReleased
\* Or that nothing happens to the dialogue of any.
<1>c. ASSUME ~raced, UNCHANGED <<link, status, fields, sent, stream>>,
             \A v \in Workers : InLibrary(v)' <=> InLibrary(v),
             \A v \in Workers : InLibrary(v) => /\ pc'[v] = pc[v] /\ job'[v] = job[v]
                                                /\ input'[job[v]] = input[job[v]]
                                                /\ \/ outcome[job[v]].done = "no"
                                                   \/ outcome'[job[v]] = outcome[job[v]]
      PROVE  AloneInv'
  <2>1. ASSUME NEW v \in Workers
        PROVE  InDialogue(v)'
    <3>1. CASE ~InLibrary(v)
      BY <1>c, <3>1 DEF InDialogue, InLibrary
    <3>2. CASE InLibrary(v)
      <4>1. PICK r \in Requests : r = job[v]
        BY <3>2 DEF WorkerInv, InLibrary
      <4> QED
        BY <1>c, <3>2, <4>1, DialogueFrame DEF AloneInv
    <3> QED
      BY <3>1, <3>2
  <2> QED
    BY <1>c, <2>1 DEF AloneInv, ConnectionIsReleased, Idle
<1>1. ASSUME NEW w \in Workers, NEW r \in Requests, NEW i \in Inputs, RejectStep(w, r, i)
      PROVE  AloneInv'
  <2>1. /\ ~raced /\ UNCHANGED <<link, status, fields, sent, stream, outcome, pc, job>>
        /\ input' = [input EXCEPT ![r] = i] /\ input[r] = NoInput
    BY <1>1 DEF RejectStep, Ask, Receive, Reject, dbVars, connVars
  <2>2. ASSUME NEW v \in Workers, InLibrary(v)
        PROVE  input'[job[v]] = input[job[v]]
    BY <2>1, <2>2 DEF WorkerInv, InLibrary, TypeOK
  <2> QED
    BY <1>c, <2>1, <2>2 DEF InLibrary
<1>2. ASSUME NEW w \in Workers, NEW r \in Requests, NEW i \in Inputs, QueryStep(w, r, i)
      PROVE  AloneInv'
  <2>1. ~raced /\ Idle /\ sent = <<>> /\ stream = <<>> /\ status = "ready"
    BY <1>2 DEF QueryStep, Query, Ask, Receive, AloneInv, ConnectionIsReleased, Idle, InLibrary
  <2>2. CASE SendFails /\ UNCHANGED <<pc, job>>
    BY <1>b, <2>1, <2>2 DEF SendFails, Idle, InLibrary
  <2>3. CASE /\ Send(r) /\ pc' = [pc EXCEPT ![w] = "reply"] /\ job' = [job EXCEPT ![w] = r]
    <3>1. /\ link' = "up" /\ sent' = <<r>> /\ stream' = <<>> /\ status' = "ready"
      BY <2>1, <2>3 DEF Send, CanSend
    <3>2. job'[w] = r /\ pc'[w] = "reply" /\ \A v \in Workers \ {w} : pc'[v] = pc[v]
      BY <2>3 DEF TypeOK
    <3>3. InLibrary(w)' /\ \A v \in Workers \ {w} : ~InLibrary(v)'
      BY <2>1, <3>2 DEF Idle, InLibrary
    <3>4. InDialogue(w)'
      BY <3>1, <3>2, <3>3 DEF InDialogue, Awaiting
    <3> QED
      BY <1>a, <3>3, <3>4
  <2> QED
    BY <1>2, <2>2, <2>3 DEF QueryStep, Query
<1>3. CASE ServerExecute
  <2> DEFINE r == Head(sent)
  <2>1. /\ r \in Requests /\ Executes(r) /\ outcome'[r].done \in {"refused", "done"}
        /\ UNCHANGED <<link, status, fields, input, pc, job, raced>>
    BY <1>3, HeadExecutes, ExecutesFrame DEF Executes
  <2>2. PICK w \in Workers : InLibrary(w)
    BY <1>3, <2>1 DEF ServerExecute, AloneInv, ConnectionIsReleased, Idle
  <2>3. pc[w] = "reply" /\ status = "ready" /\ sent = <<job[w]>> /\ stream = <<>> /\ link = "up"
    <3>1. sent # <<>> /\ ~raced /\ InDialogue(w) /\ (pc[w] = "reply" \/ pc[w] = "store")
      BY <1>3, <2>1, <2>2 DEF ServerExecute, AloneInv, InLibrary
    <3>2. pc[w] = "reply" /\ status = "ready" /\ Awaiting(job[w])
      BY <2>2, <3>1 DEF InDialogue, Abandoned, Replied, Truncated, Described, CutShort
    <3> QED
      BY <3>2 DEF Awaiting
  <2>4. job[w] = r /\ sent' = <<>>
    BY <1>3, <2>1, <2>3 DEF ServerExecute
  <2>5. stream' = ReplyTo(r, outcome'[r].done = "done", Selects(input[r].op))
    <3>1. ReplyTo(r, outcome'[r].done = "done", Selects(input[r].op)) \in Seq(Packet)
      BY <2>1, ReplyType
    <3> QED
      BY <1>3, <2>1, <2>3, <3>1, ConcatEmptySeq DEF ServerExecute
  <2>6. PICK q \in Requests : q = r
    BY <2>1
  <2>7. Replied(q)'
    <3>1. outcome'[q].done # "no"
      BY <2>1, <2>6
    <3> QED
      BY <2>1, <2>4, <2>5, <2>6, <3>1 DEF Replied
  <2>8. InDialogue(w)'
    BY <2>1, <2>2, <2>3, <2>4, <2>6, <2>7 DEF InDialogue, InLibrary
  <2> QED
    BY <1>a, <2>1, <2>2, <2>8 DEF AloneInv, InLibrary
<1>4. ASSUME ExecuteLate
      PROVE  AloneInv'
  <2>1. PICK r \in Requests : Executes(r) /\ UNCHANGED <<sent, stream>>
    BY <1>4, LateExecutes
  <2>2. \A q \in Requests : outcome[q].done = "no" \/ outcome'[q] = outcome[q]
    BY <2>1, ExecutesFrame
  <2>3. ASSUME NEW v \in Workers
        PROVE  /\ InLibrary(v)' <=> InLibrary(v)
               /\ pc'[v] = pc[v] /\ job'[v] = job[v]
               /\ input'[job[v]] = input[job[v]]
               /\ InLibrary(v) => outcome[job[v]].done = "no" \/ outcome'[job[v]] = outcome[job[v]]
    BY <2>1, <2>2 DEF Executes, InLibrary, WorkerInv
  <2>4. ~raced /\ UNCHANGED <<link, status, fields, sent, stream>>
    BY <2>1 DEF Executes
  <2>5. \A v \in Workers : InLibrary(v)' <=> InLibrary(v)
    BY <2>3
  <2>6. \A v \in Workers : InLibrary(v) =>
            /\ pc'[v] = pc[v] /\ job'[v] = job[v]
            /\ input'[job[v]] = input[job[v]]
            /\ outcome[job[v]].done = "no" \/ outcome'[job[v]] = outcome[job[v]]
    BY <2>3
  <2> HIDE DEF InLibrary
  <2> QED
    BY <1>c, <2>4, <2>5, <2>6
<1>5. ASSUME NEW w \in Workers, ReadReply(w) \/ StoreResult(w)
      PROVE  AloneInv'
  <2>1. ~raced /\ UNCHANGED <<outcome, input, link, sent>> /\ InLibrary(w)
    BY <1>5, ProgressCases DEF dbVars
  <2>2. \A v \in Workers \ {w} : ~InLibrary(v)
    BY <2>1 DEF AloneInv
  <2>3. sent = <<>>
    BY <1>5, <2>1, AloneReads
  <2>4. ASSUME Ends(w), stream' = <<>>, status' = "ready"
        PROVE  AloneInv'
    BY <1>b, <2>1, <2>2, <2>3, <2>4 DEF Ends, InLibrary, TypeOK
  <2>5. ASSUME Continues(w), InDialogue(w)'
        PROVE  AloneInv'
    BY <1>a, <2>2, <2>5 DEF Continues, InLibrary, TypeOK
  <2>6. CASE ReadReply(w)
    <3> DEFINE r == job[w]
    <3>0. r \in Requests /\ input[r] \in Inputs /\ status = "ready"
      BY <2>1, <2>6, ReadsOwnReply
    <3>1. CASE ReadOk(w) /\ ~Selects(Op(w)) /\ Tail(stream) = <<>>
      <4>1. stream' = <<>> /\ status' = "ready" /\ pc'[w] # "store"
        BY <3>0, <3>1 DEF ReadOk, TakeOk, QuerySucceeded, Finish, TypeOK
      <4> QED
        BY <1>5, <2>4, <4>1, ProgressCases DEF Continues, TypeOK
    <3>2. CASE ReadError(w) /\ Tail(stream) = <<>>
      <4>1. stream' = <<>> /\ status' = "ready" /\ pc'[w] # "store"
        BY <3>0, <3>2 DEF ReadError, TakeError, TakeOk, QueryFailed, Finish, TypeOK
      <4> QED
        BY <1>5, <2>4, <4>1, ProgressCases DEF Continues, TypeOK
    <3>3. CASE ReadNothing(w)
      <4>1. stream' = <<>> /\ status' = "ready" /\ pc'[w] # "store"
        BY <3>0, <3>3 DEF ReadNothing, Gone, connVars, QueryFailed, Finish, TypeOK
      <4> QED
        BY <1>5, <2>4, <4>1, ProgressCases DEF Continues, TypeOK
    <3>4. CASE ReadHeader(w) /\ Selects(Op(w))
      <4>1. Continues(w) /\ status' = "get_result" /\ fields' /\ stream' = Tail(stream) /\ sent' = <<>>
            /\ pc'[w] = "store" /\ job' = job /\ link' = link
        BY <2>1, <2>3, <3>4 DEF ReadHeader, TakeHeader, QuerySucceeded, Continues, TypeOK
      <4>2. CASE /\ outcome[r].done = "done"
                 /\ Tail(stream) = <<[kind |-> "rows", req |-> r]>>
        <5>1. PICK q \in Requests : q = r
          BY <3>0
        <5>2. Described(q)'
          BY <2>1, <3>4, <4>1, <4>2, <5>1 DEF Described, Op
        <5>3. InDialogue(w)'
          BY <4>1, <5>1, <5>2 DEF InDialogue, InLibrary
        <5> QED
          BY <2>5, <4>1, <5>3
      <4>3. CASE link = "down" /\ Tail(stream) = <<>>
        <5>1. PICK q \in Requests : q = r
          BY <3>0
        <5>2. CutShort(q)'
          BY <2>1, <3>4, <4>1, <4>3, <5>1 DEF CutShort, Abandoned, Gone, Op
        <5>3. InDialogue(w)'
          BY <4>1, <5>1, <5>2 DEF InDialogue, InLibrary
        <5> QED
          BY <2>5, <4>1, <5>3
      <4> QED
        BY <2>1, <2>6, <3>4, <4>2, <4>3, ReadsOwnReply DEF ReadOk, ReadError, ReadHeader, ReadNothing, HeadIs, Gone
    <3> QED
      BY <2>1, <2>6, <3>1, <3>2, <3>3, <3>4, ReadsOwnReply
  <2>7. CASE StoreResult(w)
    <3>1. CASE StoreRows(w) /\ Tail(stream) = <<>>
      <4>1. stream' = <<>> /\ status' = "ready" /\ pc'[w] # "store"
        BY <3>1 DEF StoreRows, TakeRows, UseLoginRow, UseListRows, NoResult, Finish, TypeOK
      <4> QED
        BY <1>5, <2>4, <4>1, ProgressCases DEF Continues, TypeOK
    <3>2. CASE StoreNothing(w)
      <4>1. stream' = <<>> /\ status' = "ready" /\ pc'[w] # "store"
        BY <3>2 DEF StoreNothing, Gone, TakeRows, NoResult, Finish, TypeOK
      <4> QED
        BY <1>5, <2>4, <4>1, ProgressCases DEF Continues, TypeOK
    <3> QED
      BY <2>1, <2>7, <3>1, <3>2, ReadsOwnRows
  <2> QED
    BY <1>5, <2>6, <2>7
<1>6. ASSUME NEW w \in Workers, Give(w)
      PROVE  AloneInv'
  <2>1. /\ ~raced /\ UNCHANGED <<link, status, fields, sent, stream, outcome, input>> /\ ~InLibrary(w)
        /\ ~InLibrary(w)' /\ \A v \in Workers \ {w} : pc'[v] = pc[v] /\ job'[v] = job[v]
    BY <1>6 DEF Give, dbVars, connVars, InLibrary, TypeOK
  <2>2. \A v \in Workers : InLibrary(v)' <=> InLibrary(v)
    BY <2>1 DEF InLibrary
  <2> QED
    BY <1>c, <2>1, <2>2
<1>7. CASE DropLink
  <2>1. /\ ~raced /\ link = "up" /\ link' = "down" /\ sent' = <<>>
        /\ UNCHANGED <<dbVars, status, fields, input, pc, job>>
    BY <1>7 DEF DropLink, LoseLink, LeaveBehind
  <2>2. PICK n \in 0..Len(stream) : stream' = SubSeq(stream, 1, n)
    BY <1>7 DEF DropLink, LoseLink
  <2>3. stream = <<>> => stream' = <<>>
    BY <2>2
  <2>4. ASSUME NEW w \in Workers, InLibrary(w)
        PROVE  InDialogue(w)'
    <3>1. PICK r \in Requests : r = job[w]
      BY <2>4 DEF WorkerInv, InLibrary
    <3>3. InDialogue(w) /\ (pc[w] = "reply" \/ pc[w] = "store")
      BY <2>1, <2>4 DEF AloneInv, InLibrary
    <3>4. CASE pc[w] = "reply" /\ stream = <<>>
      <4>1. Abandoned'
        BY <2>1, <2>3, <3>4 DEF Abandoned, Gone
      <4> QED
        BY <2>1, <3>3, <3>4, <4>1 DEF InDialogue, InLibrary
    <3>5. CASE pc[w] = "reply" /\ stream # <<>>
      <4>1. status = "ready" /\ Replied(r)
        BY <2>1, <3>1, <3>3, <3>5 DEF InDialogue, InLibrary, Awaiting, Abandoned, Gone, Truncated
      <4>2. \/ stream' = <<>>
            \/ stream' = stream
            \/ /\ stream' = <<[kind |-> "header", req |-> r]>>
               /\ Selects(input[r].op) /\ outcome[r].done = "done"
        <5>1. stream = ReplyTo(r, outcome[r].done = "done", Selects(input[r].op))
          BY <4>1 DEF Replied
        <5>2. Len(stream) <= 2
          BY <5>1 DEF ReplyTo
        <5>3. stream' = <<>> \/ stream' = stream \/ (Len(stream) = 2 /\ stream' = <<stream[1]>>)
          BY <2>2, <5>2, Prefixes DEF TypeOK, ConnTypeOK
        <5> QED
          BY <5>1, <5>3 DEF ReplyTo
      <4>3. CASE stream' = <<>>
        BY <2>1, <3>3, <3>5, <4>1, <4>3 DEF InDialogue, InLibrary, Abandoned, Gone
      <4>4. CASE stream' = stream
        <5>1. Replied(r)'
          BY <2>1, <4>1, <4>4 DEF Replied, dbVars
        <5> QED
          BY <2>1, <3>1, <3>5, <4>1, <5>1 DEF InDialogue, InLibrary
      <4>5. CASE stream' = <<[kind |-> "header", req |-> r]>> /\ Selects(input[r].op)
        <5>1. Truncated(r)'
          BY <2>1, <4>5 DEF Truncated
        <5> QED
          BY <2>1, <3>1, <3>5, <4>1, <5>1 DEF InDialogue, InLibrary
      <4> QED
        BY <4>2, <4>3, <4>4, <4>5
    <3>6. CASE pc[w] = "store"
      <4>1. Described(r)
        BY <2>1, <3>1, <3>3, <3>6 DEF InDialogue, InLibrary, CutShort, Abandoned, Gone
      <4>2. stream' = <<>> \/ stream' = stream
        <5>1. Len(stream) = 1
          BY <4>1 DEF Described
        <5>2. stream \in Seq(Packet)
          BY DEF TypeOK, ConnTypeOK
        <5>3. stream' = <<>> \/ stream' = stream \/ Len(stream) = 2
          BY <2>2, <5>1, <5>2, Prefixes
        <5> QED
          BY <5>1, <5>3
      <4>3. CASE stream' = <<>>
        <5>1. CutShort(r)'
          BY <2>1, <4>1, <4>3 DEF Described, CutShort, Abandoned, Gone
        <5> QED
          BY <2>1, <3>1, <3>6, <5>1 DEF InDialogue, InLibrary
      <4>4. CASE stream' = stream
        <5>1. Described(r)'
          BY <2>1, <4>1, <4>4 DEF Described, dbVars
        <5> QED
          BY <2>1, <3>1, <3>6, <5>1 DEF InDialogue, InLibrary
      <4> QED
        BY <4>2, <4>3, <4>4
    <3> QED
      BY <3>3, <3>4, <3>5, <3>6
  <2>5. \A w \in Workers : InDialogue(w)'
    BY <2>1, <2>4 DEF InDialogue, InLibrary
  <2> QED
    BY <2>1, <2>3, <2>5 DEF AloneInv, ConnectionIsReleased, Idle, InLibrary
<1>8. CASE Restart
  <2>1. /\ \A v \in Workers : ~InLibrary(v)'
        /\ sent' = <<>> /\ stream' = <<>> /\ status' = "ready"
    BY <1>8 DEF Restart, Reconnected, LeaveBehind, InLibrary
  <2> QED
    BY <1>b, <2>1 DEF AloneInv
<1>9. ASSUME UNCHANGED vars
      PROVE  AloneInv'
  <2>1. UNCHANGED <<link, status, fields, sent, stream, outcome, input, pc, job, raced>>
    BY <1>9 DEF vars, dbVars, connVars
  <2>2. \A v \in Workers : InLibrary(v)' <=> InLibrary(v)
    BY <2>1 DEF InLibrary
  <2>3. \A v \in Workers : /\ pc'[v] = pc[v] /\ job'[v] = job[v]
                           /\ input'[job[v]] = input[job[v]]
                           /\ outcome'[job[v]] = outcome[job[v]]
    BY <2>1
  <2> QED
    BY <1>c, <2>1, <2>2, <2>3
<1> QED
  BY <1>1, <1>2, <1>3, <1>4, <1>5, <1>6, <1>7, <1>8, <1>9, NextCases DEF AloneInv

-----------------------------------------------------------------------------
(* The invariant holds *)

\* A server that has just started satisfies the invariant.
LEMMA InitInv == Init => IInv
<1> SUFFICES ASSUME Init PROVE IInv
  OBVIOUS
<1>1. /\ sent = <<>> /\ stream = <<>> /\ status = "ready" /\ link = "up" /\ fields = FALSE /\ late = {}
      /\ users = InitialUsers /\ outcome = [r \in Requests |-> NotDone]
      /\ tables = [t \in Tables |-> {}] /\ tokens = DOMAIN InitialUsers
      /\ input = [r \in Requests |-> NoInput] /\ answer = [r \in Requests |-> NoAnswer]
      /\ pc = [w \in Workers |-> "idle"] /\ job = [w \in Workers |-> NoRequest] /\ raced = FALSE
      /\ known = [r \in Requests |-> {}]
  BY DEF Init, DbInit, ConnInit
<1>2. DbTypeOK
  BY <1>1, InitialUsersAssumption DEF DbTypeOK, NotDone, Outcome
<1>3. ConnTypeOK
  BY <1>1, EmptySeq DEF ConnTypeOK
<1>4. TypeOK
  <2>1. tokens \subseteq Nat
    BY <1>1, InitialUsersAssumption, LenProperties
  <2>2. NoAnswer \in Answer
    BY DEF NoAnswer, Answer, Codes, Pending, NoToken
  <2> QED
    BY <1>1, <1>2, <1>3, <2>1, <2>2 DEF TypeOK
<1>5. UnaskedInv /\ WorkerInv /\ WaitingInv
  BY <1>1 DEF UnaskedInv, WorkerInv, WaitingInv, NotDone
<1>6. SentInv /\ LateInv
  BY <1>1 DEF SentInv, LateInv
<1>7. RowInv /\ SelectInv /\ LoginInv
  BY <1>1 DEF RowInv, SelectInv, LoginInv, NotDone
<1>8. EmailsDiffer
  BY <1>1, InitialUsersAssumption DEF EmailsDiffer
<1>9. TableInv /\ InitialInv /\ KnownInv
  BY <1>1 DEF TableInv, InitialInv, KnownInv
<1>10. AloneInv
  BY <1>1 DEF AloneInv, InDialogue, InLibrary, ConnectionIsReleased
<1>11. AnswerInv
  BY <1>1 DEF AnswerInv, RefusedLeavesNoTrace, Undisturbed, Answered, NoAnswer, Pending
<1> QED
  BY <1>4, <1>5, <1>6, <1>7, <1>8, <1>9, <1>10, <1>11 DEF IInv

\* Every step of the server keeps the invariant, part by part.
LEMMA NextInv == IInv /\ [Next]_vars => IInv'
<1> SUFFICES ASSUME IInv, [Next]_vars PROVE IInv'
  OBVIOUS
<1>1. TypeOK' /\ UnaskedInv' /\ WorkerInv' /\ WaitingInv'
  BY TypeStep, UnaskedStep, WorkerStep, WaitingStep DEF IInv
<1>2. SentInv' /\ LateInv' /\ AloneInv'
  BY SentStep, LateStep, AloneStep DEF IInv
<1>3. RowInv' /\ TableInv' /\ EmailsDiffer' /\ InitialInv'
  BY RowStep, TableStep, EmailsStep, InitialStep DEF IInv
<1>4. KnownInv' /\ SelectInv' /\ LoginInv' /\ AnswerInv'
  BY KnownStep, SelectStep, LoginStep, AnswerStep DEF IInv
<1> QED
  BY <1>1, <1>2, <1>3, <1>4 DEF IInv

\* The inductive invariant holds in every reachable state of the server.
THEOREM Invariance == Spec => []IInv
BY InitInv, NextInv, PTL DEF Spec

\* Every variable keeps its type, whatever the workers do to the connection.
THEOREM TypeCorrect == Spec => []TypeOK
<1>1. IInv => TypeOK
  BY DEF IInv
<1> QED
  BY <1>1, Invariance, PTL

\* What main.cpp acknowledged with 201 is stored until it is deleted, through
\* lost links and restarts, for any number of workers.
THEOREM Durability == Spec => []AckedIsStored
<1>1. ASSUME IInv, NEW r \in Requests, Answered(r, {201})
      PROVE  Kept(r)
  <2>1. answer[r].code = 201 /\ Answered(r, {200, 201})
    BY <1>1 DEF Answered
  <2>2. CASE ~Selects(input[r].op)
    <3>1. outcome[r].done = "done"
      BY <1>1, <2>1, <2>2 DEF IInv, AnswerInv, Acknowledges
    <3> QED
      BY <1>1, <3>1 DEF IInv, RowInv
  <2>3. CASE Selects(input[r].op)
    BY <2>3 DEF Selects, Kept
  <2> QED
    BY <2>2, <2>3
<1>2. IInv => AckedIsStored
  BY <1>1 DEF AckedIsStored
<1> QED
  BY <1>2, Invariance, PTL

\* A request refused over a live connection has changed nothing, and will not: the
\* client may repeat it.
THEOREM RefusalIsClean == Spec => []RefusedLeavesNoTrace
<1>1. IInv => RefusedLeavesNoTrace
  BY DEF IInv, AnswerInv
<1> QED
  BY <1>1, Invariance, PTL

\* Handlers that did not race leave the connection ready for the next one.
THEOREM Release == Spec => []ConnectionIsReleased
<1>1. IInv => ConnectionIsReleased
  BY DEF IInv, AloneInv, ConnectionIsReleased
<1> QED
  BY <1>1, Invariance, PTL

\* A list given without a race or a lost link holds what had been acknowledged before it
\* was asked for, however late it is given (main.cpp:110-127) and whoever is served
\* meanwhile, for any number of workers.
THEOREM ListsKeepUp == Spec => []ListKeepsUp
<1>1. ASSUME IInv, NEW r \in Requests, Undisturbed(r, {200}), input[r].op = "select"
      PROVE  Keeps(r, answer[r].rows)
  <2>1. Acknowledges(r)
    BY <1>1 DEF IInv, AnswerInv, Undisturbed, Answered
  <2>2. outcome[r].done = "done" /\ answer[r].rows = outcome[r].rows
    BY <1>1, <2>1 DEF Acknowledges
  <2> QED
    BY <1>1, <2>2 DEF IInv, SelectInv
<1>2. IInv => ListKeepsUp
  BY <1>1 DEF ListKeepsUp
<1> QED
  BY <1>2, Invariance, PTL

\* A login whose text is put into the SELECT as it is meant (db_manager.cpp:57) succeeds
\* for the email and password of the user the token is issued to, and fails for nobody
\* who was told of an account with them; unless the text of a registration has written
\* over accounts (db_manager.cpp:48).
THEOREM LoginsAreExact == Spec => []LoginIsExact
<1>1. ASSUME IInv, NEW r \in Requests, input[r] # NoInput,
             input[r].op = "login", input[r].body = "good", ~Rewritten
      PROVE  LET a == input[r].account
             IN  /\ Undisturbed(r, {200}) => /\ answer[r].token \in DOMAIN users
                                             /\ HasAccount(users[answer[r].token], a.email, a.pw)
                 /\ Undisturbed(r, {401}) => ~KnownAccount(r, a.email, a.pw)
  <2> DEFINE a == input[r].account
  <2>1. a \in Accounts /\ a.pw \in Passwords
    BY <1>1, InputsAssumption DEF IInv, TypeOK, HttpRequest, Passwords
  <2>2. outcome[r].done # "no" =>
            /\ \A f \in outcome[r].found : f.id \in DOMAIN users /\ HasAccount(users[f.id], a.email, f.pw)
            /\ KnownAccount(r, a.email, a.pw) => \E f \in outcome[r].found : f.pw = a.pw
    BY <1>1, <2>1 DEF IInv, LoginInv
  <2>3. ASSUME Undisturbed(r, {200})
        PROVE  answer[r].token \in DOMAIN users /\ HasAccount(users[answer[r].token], a.email, a.pw)
    <3>1. Acknowledges(r)
      BY <1>1, <2>3 DEF IInv, AnswerInv, Undisturbed, Answered
    <3> QED
      BY <1>1, <2>2, <3>1 DEF Acknowledges
  <2>4. ASSUME Undisturbed(r, {401})
        PROVE  ~KnownAccount(r, a.email, a.pw)
    <3>1. outcome[r].done # "no" /\ ~Finds(r)
      BY <1>1, <2>4 DEF IInv, AnswerInv
    <3> QED
      BY <1>1, <2>2, <3>1 DEF Finds
  <2> QED
    BY <2>3, <2>4
<1>2. IInv => LoginIsExact
  BY <1>1 DEF LoginIsExact
<1> QED
  BY <1>2, Invariance, PTL

\* Whoever sends an entry, its row is filed under user 1, since every token is taken for
\* that user's (auth_manager.cpp:134); unless the text itself adds rows for others.
THEOREM FiledUnderOne ==
    Spec => [](\A t \in Tables : \A row \in tables[t] :
                   input[row.id] # NoInput /\ input[row.id].body = "good" => row.user = 1)
<1>1. IInv => \A t \in Tables : \A row \in tables[t] :
                  input[row.id] # NoInput /\ input[row.id].body = "good" => row.user = 1
  BY DEF IInv, TableInv
<1> QED
  BY <1>1, Invariance, PTL

-----------------------------------------------------------------------------
(* What may happen in a step *)

\* A blocked connection serves nothing until a new process replaces it.
THEOREM BlockedStaysBlocked == Spec => BlockedUntilRestart
<1>1. ASSUME IInv, [Next]_vars, Blocked
      PROVE  \/ link' = "up" /\ status' = "ready" /\ Idle'
             \/ Blocked' /\ NothingServed
  <2>1. TypeOK /\ SentInv /\ (link = "down" => sent = <<>>)
    BY <1>1 DEF IInv, SentInv
  <2>2. ASSUME UNCHANGED <<link, status, pc>>, stream' = stream \/ ~Gone
        PROVE  Blocked'
    BY <1>1, <2>2 DEF Blocked, Idle, InLibrary, Gone
  <2>3. ASSUME NEW w \in Workers, NEW r \in Requests, NEW i \in Inputs, RejectStep(w, r, i)
        PROVE  Blocked' /\ NothingServed
    BY <2>1, <2>2, <2>3 DEF RejectStep, Reject, Respond, TypeOK, connVars, NothingServed
  <2>4. ASSUME NEW w \in Workers, NEW r \in Requests, NEW i \in Inputs, QueryStep(w, r, i)
        PROVE  Blocked' /\ NothingServed
    <3>1. SendFails /\ Respond(r, FailureCode(i.op), {}, NoToken) /\ UNCHANGED pc
      BY <1>1, <2>1, <2>4 DEF QueryStep, Query, Send, CanSend, Blocked, Gone, TypeOK, ConnTypeOK
    <3>2. input'[r] = i
      BY <2>1, <2>4, AskFrame DEF TypeOK
    <3>3. /\ answer'[r].code = FailureCode(i.op) /\ answer'[r].rows = {}
          /\ \A q \in Requests \ {r} : answer'[q] = answer[q]
      BY <2>1, <3>1 DEF Respond, TypeOK
    <3>4. FailureCode(i.op) \in {400, 401, 500} \/ (FailureCode(i.op) = 200 /\ i.op = "select")
      BY DEF FailureCode
    <3> QED
      BY <2>2, <3>1, <3>2, <3>3, <3>4 DEF SendFails, NothingServed
  <2>5. CASE ServerExecute \/ ExecuteLate \/ \E w \in Workers : Give(w)
    <3>1. /\ UNCHANGED <<link, status, answer>> /\ (Gone => UNCHANGED stream)
          /\ \A w \in Workers : ~InLibrary(w) => ~InLibrary(w)'
      BY <2>1, <2>5 DEF ServerExecute, ExecuteLate, Give, Gone, InLibrary, connVars, TypeOK
    <3> QED
      BY <1>1, <3>1 DEF Blocked, Gone, Idle, NothingServed
  <2>6. ASSUME NEW w \in Workers, ReadReply(w) \/ StoreResult(w)
        PROVE  Blocked' /\ NothingServed
    <3>1. Gone
      BY <1>1, <2>6 DEF Blocked, Idle, InLibrary, ReadReply, StoreResult
    <3>2. ReadNothing(w) \/ StoreNull(w) \/ StoreNothing(w)
      BY <2>6, <3>1 DEF Gone, ReadReply, ReadOk, ReadError, ReadHeader, ReadGarbled, HeadIs,
                        StoreResult, StoreForeign, StoreRows
    <3>3. Gone'
      BY <3>1, <3>2 DEF Gone, ReadNothing, StoreNull, StoreNothing, TakeRows, connVars
    <3>4. Finish(w, FailureCode(Op(w)), {}, NoToken) /\ input' = input
      BY <2>6, <3>2 DEF ReadNothing, StoreNull, StoreNothing, NoResult, QueryFailed, ReadReply, StoreResult
    <3>5. FailureCode(Op(w)) \in {400, 401, 500} \/ (FailureCode(Op(w)) = 200 /\ Op(w) = "select")
      BY DEF FailureCode
    <3>6. ASSUME NEW q \in Requests, answer'[q] # answer[q]
          PROVE  q = job[w] /\ answer'[q].code = FailureCode(Op(w)) /\ answer'[q].rows = {}
      BY <2>1, <3>4, <3>6 DEF Finish, Respond, TypeOK
    <3> QED
      BY <3>3, <3>4, <3>5, <3>6 DEF Blocked, NothingServed, Op
  <2>7. CASE DropLink
    BY <1>1, <2>7 DEF DropLink, LoseLink, NothingServed, Blocked, Gone, Idle, InLibrary
  <2>8. CASE Restart
    BY <2>8 DEF Restart, Reconnected, Idle, InLibrary
  <2>9. CASE UNCHANGED vars
    BY <2>2, <2>9 DEF vars, connVars, NothingServed
  <2> QED
    BY <1>1, <2>3, <2>4, <2>5, <2>6, <2>7, <2>8, <2>9, NextCases
<1>2. IInv /\ [Next]_vars => [Blocked => \/ link' = "up" /\ status' = "ready" /\ Idle'
                                         \/ Blocked' /\ NothingServed]_vars
  BY <1>1
<1> QED
  BY <1>2, Invariance, PTL DEF Spec, BlockedUntilRestart

\* With a single worker no two handlers meet: what holds of the answers that no
\* race disturbed then holds of them all.
THEOREM OneWorkerNeverRaces == (\A v, w \in Workers : v = w) /\ Spec => [](~raced)
<1> SUFFICES ASSUME \A v, w \in Workers : v = w
             PROVE  Spec => [](~raced)
  OBVIOUS
<1>1. Init => ~raced
  BY DEF Init
<1>2. IInv /\ ~raced /\ [Next]_vars => ~raced'
  <2> SUFFICES ASSUME IInv, ~raced, [Next]_vars PROVE ~raced'
    OBVIOUS
  <2>1. ASSUME NEW w \in Workers, NEW r \in Requests, NEW i \in Inputs,
               RejectStep(w, r, i) \/ QueryStep(w, r, i)
        PROVE  ~raced'
    BY <2>1 DEF RejectStep, Reject, QueryStep, Query
  <2>2. ASSUME NEW w \in Workers, ReadReply(w) \/ StoreResult(w)
        PROVE  ~raced'
    BY <2>2 DEF ReadReply, StoreResult
  <2> QED
    BY <2>1, <2>2, NextCases DEF ServerExecute, ExecuteLate, Give, DropLink, Restart, vars
<1> QED
  BY <1>1, <1>2, Invariance, PTL DEF Spec

\* An answer of a process that has not raced says so, and so does no answer yet.
LEMMA OneWorkerAnswers ==
    ASSUME \A v, w \in Workers : v = w
    PROVE  Spec => [](\A r \in Requests : ~answer[r].raced)
<1> DEFINE NoneRaced == \A r \in Requests : ~answer[r].raced
<1>1. Init => NoneRaced
  <2>1. ~NoAnswer.raced
    BY DEF NoAnswer
  <2>2. Init => \A r \in Requests : answer[r] = NoAnswer
    BY DEF Init
  <2> QED
    BY <2>1, <2>2, Zenon
<1>2. IInv /\ ~raced /\ (~raced)' /\ NoneRaced /\ [Next]_vars => NoneRaced'
  <2> SUFFICES ASSUME IInv, ~raced, ~raced', NoneRaced, [Next]_vars
               PROVE  NoneRaced'
    OBVIOUS
  <2>0. TypeOK
    BY DEF IInv
  <2>1. ASSUME NEW r \in Requests, NEW code, NEW rows, NEW token, Respond(r, code, rows, token)
        PROVE  NoneRaced'
    BY <2>0, <2>1 DEF Respond, TypeOK
  <2>2. ASSUME UNCHANGED answer
        PROVE  NoneRaced'
    BY <2>2
  <2>3. ASSUME NEW w \in Workers, NEW r \in Requests, NEW i \in Inputs,
               RejectStep(w, r, i) \/ QueryStep(w, r, i)
        PROVE  NoneRaced'
    <3> HIDE DEF NoneRaced
    <3> QED
      BY <2>1, <2>2, <2>3 DEF RejectStep, Reject, QueryStep, Query
  <2>4. ASSUME NEW w \in Workers, ReadReply(w) \/ StoreResult(w)
        PROVE  NoneRaced'
    <3>1. Continues(w) \/ Ends(w)
      BY <2>0, <2>4, ProgressCases
    <3>2. CASE Continues(w)
      BY <3>2 DEF Continues
    <3>3. CASE Ends(w)
      BY <2>0, <3>3 DEF Ends, TypeOK
    <3> QED
      BY <3>1, <3>2, <3>3
  <2>5. CASE Restart
    BY <2>5 DEF Restart, NoAnswer
  <2> QED
    BY <2>2, <2>3, <2>4, <2>5, NextCases DEF ServerExecute, ExecuteLate, Give, DropLink, vars
<1>3. Spec => [](~raced)
  BY OneWorkerNeverRaces
<1> HIDE DEF NoneRaced
<1>4. Spec => []NoneRaced
  BY <1>1, <1>2, <1>3, Invariance, PTL DEF Spec
<1> QED
  BY <1>4 DEF NoneRaced

\* With a single worker, 201 "Expense added successfully" (main.cpp:104) means just
\* that: what the run ack shows takes two.
THEOREM OneWorkerAcks == (\A v, w \in Workers : v = w) /\ Spec => []AckMeansStored
<1> SUFFICES ASSUME \A v, w \in Workers : v = w
             PROVE  Spec => []AckMeansStored
  OBVIOUS
<1>1. AckedIsStored /\ (\A r \in Requests : ~answer[r].raced) => AckMeansStored
  BY DEF AckedIsStored, AckMeansStored, Answered, Kept
<1>2. Spec => [](\A r \in Requests : ~answer[r].raced)
  BY OneWorkerAnswers
<1> QED
  BY <1>1, <1>2, Durability, PTL

-----------------------------------------------------------------------------
(* Waiting *)

\* A handler that waits for MySQL waits for what is on its way, or for a link that is
\* lost, and wakes up: no order of statements, lost links and restarts leaves an
\* undisturbed handler with nothing to come (db_manager.cpp sets no timeout).
THEOREM NobodyIsForgotten == Spec => []NobodyWaitsInVain
<1>1. IInv => NobodyWaitsInVain
  <2> SUFFICES ASSUME IInv, NEW r \in Requests, input[r] # NoInput,
                      answer[r].code = Pending
               PROVE  \E w \in Workers :
                          /\ InLibrary(w) /\ job[w] = r
                          /\ \/ raced \/ pc[w] = "store" \/ link = "down"
                             \/ \E m \in DOMAIN sent : sent[m] = r
                             \/ stream # <<>> /\ Head(stream).req = r
    BY DEF NobodyWaitsInVain
  <2>1. PICK w \in Workers : InLibrary(w) /\ job[w] = r
    BY DEF IInv, WaitingInv
  <2>2. CASE ~raced /\ pc[w] = "reply"
    <3>1. Awaiting(r) \/ Abandoned \/ Replied(r) \/ Truncated(r)
      BY <2>1, <2>2 DEF IInv, AloneInv, InDialogue
    <3>2. CASE Awaiting(r)
      <4>1. 1 \in DOMAIN sent /\ sent[1] = r
        BY <3>2 DEF Awaiting
      <4> QED
        BY <2>1, <4>1
    <3>3. CASE Abandoned \/ Truncated(r)
      BY <2>1, <3>3 DEF Abandoned, Gone, Truncated
    <3>4. CASE Replied(r)
      <4>1. stream # <<>> /\ Head(stream).req = r
        BY <3>4 DEF Replied, ReplyTo
      <4> QED
        BY <2>1, <4>1
    <3> QED
      BY <3>1, <3>2, <3>3, <3>4
  <2>3. CASE raced \/ pc[w] = "store"
    BY <2>1, <2>3
  <2>4. pc[w] \in {"reply", "store"}
    BY <2>1 DEF InLibrary
  <2> QED
    BY <2>1, <2>2, <2>3, <2>4
<1> QED
  BY <1>1, Invariance, PTL
=============================================================================
