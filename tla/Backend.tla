------------------------------ MODULE Backend -------------------------------
(***************************************************************************)
(* The REST server of src/src/main.cpp: Crow's workers, each running one   *)
(* handler at a time to its end, over one global DBManager whose only      *)
(* connection no mutex protects.  A handler is four steps at most: up to   *)
(* the statement it sends, the reply mysql_query waits for, the rows       *)
(* mysql_store_result reads, and, with what it has read, the answer it     *)
(* gives.  Between them other workers run.                                 *)
(*                                                                         *)
(* Two handlers that are inside the library at once race on the MYSQL      *)
(* handle, and from then on what it holds is undefined: raced records it,  *)
(* and a worker then reads packets that are not its own, or an error.      *)
(***************************************************************************)
EXTENDS Connection, Http

CONSTANT
    Workers      \* the threads of app.multithreaded()

\* An HTTP status, or Pending, or Lost for the connection that died unanswered.
Pending == 0
Lost    == 1
Codes   == {Pending, Lost, 200, 201, 400, 401, 500}

\* code, rows and token are what the client sees; raced and up record whether
\* the connection had been raced on, and was there, when the answer was made.
Answer == [code : Codes, rows : SUBSET Requests, token : Nat,
           raced : BOOLEAN, up : BOOLEAN]
NoAnswer == [code |-> Pending, rows |-> {}, token |-> NoToken, raced |-> FALSE, up |-> TRUE]

VARIABLES
    input,     \* input[r]: the HTTP request r
    answer,    \* answer[r]: what its client got
    tokens,    \* the users a token was issued to; no token is ever revoked
    pc,        \* pc[w]: "idle", "reply" in mysql_query, "store" in mysql_store_result,
               \* "answer" when the library is left and the answer not given
    job,       \* job[w]: the request whose handler w runs, or NoRequest
    raced,     \* two handlers used the connection at once in this process
    known      \* known[r], of a list or login r: the requests that had been
               \* acknowledged when r was made

vars == <<dbVars, connVars, input, answer, tokens, pc, job, raced, known>>

TypeOK ==
    /\ DbTypeOK
    /\ ConnTypeOK
    /\ input \in [Requests -> Inputs \cup {NoInput}]
    /\ answer \in [Requests -> Answer]
    /\ tokens \subseteq Nat
    /\ pc \in [Workers -> {"idle", "reply", "store", "answer"}]
    /\ job \in [Workers -> Requests \cup {NoRequest}]
    /\ raced \in BOOLEAN
    /\ known \in [Requests -> SUBSET Requests]

Init ==
    /\ DbInit
    /\ ConnInit
    /\ input = [r \in Requests |-> NoInput]
    /\ answer = [r \in Requests |-> NoAnswer]
    /\ tokens = DOMAIN InitialUsers
    /\ pc = [w \in Workers |-> "idle"]
    /\ job = [w \in Workers |-> NoRequest]
    /\ raced = FALSE
    /\ known = [r \in Requests |-> {}]

-----------------------------------------------------------------------------

\* The client has its answer, or will never have one.
Given(r) == answer[r].code # Pending /\ \A w \in Workers : job[w] # r

\* It was told that its entry, account or deletion was accepted.
Acked(r) == /\ Given(r) /\ answer[r].code \in {200, 201} /\ ~answer[r].raced
            /\ ~Selects(input[r].op)

\* A worker that uses the MYSQL handle: rows it has stored are its own.
InLibrary(w) == pc[w] \in {"reply", "store"}

\* Mutant: the result of DBManager::addExpense and its like is not looked at.
FailureCodeUnchecked(op) ==
    CASE op = "select"   -> 200
      [] op = "register" -> 400
      [] op = "login"    -> 401
      [] OTHER           -> 201

\* The handler's answer when the DBManager method returned false, or nothing:
\* an empty list is not told apart from a failed query.
FailureCode(op) ==
    CASE op = "select"   -> 200
      [] op = "register" -> 400
      [] op = "login"    -> 401
      [] OTHER           -> 500

\* Mutant: the result of mysql_query taken for a success when it is not 0.
SuccessCodeInverted(op) == IF op = "delete" THEN 200 ELSE 500

SuccessCode(op) == IF op = "delete" THEN 200 ELSE 201

Respond(r, code, rows, token) ==
    answer' = [answer EXCEPT ![r] =
                  [code |-> code, rows |-> rows, token |-> token,
                   raced |-> raced', up |-> link = "up"]]

\* A handler that used the database makes its answer: the rows are gone through,
\* the JSON built.  Others run before its client gets it.
Finish(w, code, rows, token) ==
    /\ Respond(job[w], code, rows, token)
    /\ pc' = [pc EXCEPT ![w] = "answer"]
    /\ UNCHANGED <<tokens, job>>

Give(w) ==
    /\ pc[w] = "answer"
    /\ tokens' = tokens \cup ({answer[job[w]].token} \ {NoToken})
    /\ pc' = [pc EXCEPT ![w] = "idle"]
    /\ job' = [job EXCEPT ![w] = NoRequest]
    /\ UNCHANGED <<dbVars, connVars, input, answer, raced, known>>

-----------------------------------------------------------------------------
(* The first step of a handler *)

\* A client makes request r and Crow gives it to worker w.
Receive(w, r, i, op) ==
    /\ pc[w] = "idle"
    /\ input[r] = NoInput
    /\ i.op = op
    /\ i.token \in tokens \cup {NoToken}
    /\ input' = [input EXCEPT ![r] = i]
    /\ known' = [known EXCEPT ![r] = IF Selects(op) THEN {q \in Requests : Acked(q)} ELSE {}]

\* The handler returns before it reaches the database.
Reject(r, code) ==
    /\ raced' = raced
    /\ Respond(r, code, {}, NoToken)
    /\ UNCHANGED <<dbVars, connVars, tokens, pc, job>>

\* The statement is sent, unless the library refuses to: either way the
\* handler is inside it, and races with any other that is.
Query(w, r, op) ==
    /\ raced' = (raced \/ \E v \in Workers \ {w} : InLibrary(v))
    /\ \/ /\ Send(r)
          /\ pc' = [pc EXCEPT ![w] = "reply"]
          /\ job' = [job EXCEPT ![w] = r]
          /\ UNCHANGED answer
       \/ /\ SendFails
          /\ Respond(r, FailureCode(op), {}, NoToken)
          /\ UNCHANGED <<pc, job>>
    /\ UNCHANGED <<dbVars, tokens>>

\* crow::json::load fails, or x["field"].s() throws out of the handler.
BadBody(r, body) ==
    \/ body = "malformed" /\ Reject(r, 400)
    \/ body = "incomplete" /\ Reject(r, 500)

Readable(body) == body \in Texts

\* Every protected handler starts with authenticate(req).
Unauthorized(r, i) == VerifyJWT(i.token) = -1 /\ Reject(r, 401)
Authorized(i)      == VerifyJWT(i.token) # -1

Add(w, r, i, table) ==
    /\ Receive(w, r, i, "insert") /\ i.table = table
    /\ \/ Unauthorized(r, i)
       \/ Authorized(i) /\ BadBody(r, i.body)
       \/ Authorized(i) /\ Readable(i.body) /\ Query(w, r, i.op)

Get(w, r, i, table) ==
    /\ Receive(w, r, i, "select") /\ i.table = table
    /\ \/ Unauthorized(r, i)
       \/ Authorized(i) /\ Query(w, r, i.op)

AddExpense(w, r, i) == Add(w, r, i, "Expenses")
AddBudget(w, r, i)  == Add(w, r, i, "Budgets")
AddSaving(w, r, i)  == Add(w, r, i, "Savings")
AddGoal(w, r, i)    == Add(w, r, i, "Goals")

GetExpenses(w, r, i) == Get(w, r, i, "Expenses")
GetBudgets(w, r, i)  == Get(w, r, i, "Budgets")
GetSavings(w, r, i)  == Get(w, r, i, "Savings")
GetGoals(w, r, i)    == Get(w, r, i, "Goals")

DeleteExpense(w, r, i) ==
    /\ Receive(w, r, i, "delete")
    /\ \/ Unauthorized(r, i)
       \/ Authorized(i) /\ Query(w, r, i.op)

RegisterUser(w, r, i) ==
    /\ Receive(w, r, i, "register")
    /\ \/ BadBody(r, i.body)
       \/ Readable(i.body) /\ Query(w, r, i.op)

Login(w, r, i) ==
    /\ Receive(w, r, i, "login")
    /\ \/ BadBody(r, i.body)
       \/ Readable(i.body) /\ Query(w, r, i.op)

-----------------------------------------------------------------------------
(* The server executes the statements of the connection in their order, and *)
(* those of a lost one, if at all, whenever it comes to them.               *)

ServerExecute ==
    /\ sent # <<>>
    /\ LET r == Head(sent)
       IN  /\ Execute(StatementOf(r, input[r]))
           /\ stream' = stream \o ReplyTo(r, outcome'[r].done = "done", Selects(input[r].op))
    /\ sent' = Tail(sent)
    /\ UNCHANGED <<link, status, fields, late, input, answer, tokens, pc, job, raced, known>>

ExecuteLate ==
    /\ \E r \in late :
          /\ Execute(StatementOf(r, input[r]))
          /\ late' = late \ {r}
    /\ UNCHANGED <<link, status, fields, sent, stream, input, answer, tokens, pc, job, raced, known>>

-----------------------------------------------------------------------------
(* mysql_query reads the reply; op is what the handler of w asked for. *)

Op(w) == input[job[w]].op

\* Mutant: getPasswordHash returns before it has read its result.
QuerySucceededTooSoon(w) ==
    IF Op(w) = "select"
    THEN /\ pc' = [pc EXCEPT ![w] = "store"]
         /\ UNCHANGED <<job, answer, tokens>>
    ELSE Finish(w, SuccessCode(Op(w)), {}, NoToken)

\* mysql_query returned 0: only a SELECT goes on to read its result.
QuerySucceeded(w) ==
    IF Selects(Op(w))
    THEN /\ pc' = [pc EXCEPT ![w] = "store"]
         /\ UNCHANGED <<job, answer, tokens>>
    ELSE Finish(w, SuccessCode(Op(w)), {}, NoToken)

\* Mutant: waiting on for another reply.
QueryFailedWaits(w) == job[w] \in Requests /\ UNCHANGED <<pc, job, answer, tokens>>

QueryFailed(w) == Finish(w, FailureCode(Op(w)), {}, NoToken)

ReadOk(w) == HeadIs("ok") /\ TakeOk /\ QuerySucceeded(w)

ReadError(w) == HeadIs("err") /\ TakeError /\ QueryFailed(w)

ReadHeader(w) == HeadIs("header") /\ TakeHeader /\ QuerySucceeded(w)

\* Mutant: no reply taken for no error.
ReadNothingAsOk(w) == Gone /\ QuerySucceeded(w) /\ UNCHANGED connVars

ReadNothing(w) == Gone /\ QueryFailed(w) /\ UNCHANGED connVars

\* On a handle that was raced on, any packet may look damaged, and rows may
\* look like the start of a result.
ReadGarbled(w) ==
    /\ raced /\ stream # <<>>
    /\ \/ TakeError /\ QueryFailed(w)
       \/ HeadIs("rows") /\ TakeHeader /\ QuerySucceeded(w)

ReadReply(w) ==
    /\ pc[w] = "reply"
    /\ raced' = raced
    /\ \/ ReadOk(w)
       \/ ReadError(w)
       \/ ReadHeader(w)
       \/ ReadNothing(w)
       \/ ReadGarbled(w)
    /\ UNCHANGED <<dbVars, input, known>>

-----------------------------------------------------------------------------
(* mysql_store_result and the loop over the rows. *)

\* Mutant: the token made before it is known that there is a user (main.cpp:71).
NoResultTokenFirst(w) == Finish(w, FailureCode(Op(w)), {}, -1)

\* getPasswordHash returned "": 401; getExpenses and its like an empty list: 200.
NoResult(w) == Finish(w, FailureCode(Op(w)), {}, NoToken)

StoreNull(w) == ~ResultPending /\ NoResult(w) /\ UNCHANGED connVars

StoreNothing(w) == ResultPending /\ Gone /\ TakeRows /\ NoResult(w)

\* Not rows at all: possible on a raced handle only.
StoreForeign(w) ==
    ResultPending /\ stream # <<>> /\ ~HeadIs("rows") /\ TakeRows /\ NoResult(w)

\* Mutant: the user exists, and that is all.
PasswordIgnored(w, q, f) == input[q].op = "login" /\ f \in outcome[q].found

\* The user that the row of login q tells about has the password given.
PasswordVerified(w, q, f) ==
    input[q].op = "login" /\ f \in outcome[q].found /\ f.pw = input[job[w]].account.pw

UseLoginRow(w, q) ==
    \/ \E f \in outcome[q].found : PasswordVerified(w, q, f) /\ Finish(w, 200, {}, f.id)
    \/ (~ \E f \in outcome[q].found : PasswordVerified(w, q, f)) /\ NoResult(w)

\* The rows of q answer the SELECT of w: same endpoint, or no row to misread.
Legible(w, q) ==
    \/ input[q].op = "select" /\ input[q].table = input[job[w]].table
    \/ outcome[q].rows = {} /\ outcome[q].found = {}

\* Mutant: the first row fetched is the only one.
UseFirstRow(w, q) ==
    \E some \in SUBSET outcome[q].rows :
        /\ some = {} <=> outcome[q].rows = {}
        /\ \A x, y \in some : x = y
        /\ Finish(w, 200, some, NoToken)

\* std::stoi throws on a column of another table: 500, if it does.
UseListRows(w, q) ==
    \/ Finish(w, 200, outcome[q].rows, NoToken)
    \/ ~Legible(w, q) /\ Finish(w, 500, {}, NoToken)

StoreRows(w) ==
    /\ ResultPending /\ HeadIs("rows") /\ TakeRows
    /\ LET q == Head(stream).req
       IN  IF Op(w) = "login" THEN UseLoginRow(w, q) ELSE UseListRows(w, q)

StoreResult(w) ==
    /\ pc[w] = "store"
    /\ raced' = raced
    /\ \/ StoreNull(w)
       \/ StoreNothing(w)
       \/ StoreForeign(w)
       \/ StoreRows(w)
    /\ UNCHANGED <<dbVars, input, known>>

-----------------------------------------------------------------------------
(* The environment *)

DropLink ==
    /\ LoseLink
    /\ UNCHANGED <<dbVars, input, answer, tokens, pc, job, raced, known>>

\* The process ends (a crash, a redeploy) and docker's restart: always brings
\* it back with a connection of its own; what MySQL stored is still there.
Restart ==
    /\ Reconnected
    /\ raced' = FALSE
    /\ answer' = [r \in Requests |->
                     IF \E w \in Workers : job[w] = r
                     THEN [NoAnswer EXCEPT !.code = Lost]
                     ELSE answer[r]]
    /\ pc' = [w \in Workers |-> "idle"]
    /\ job' = [w \in Workers |-> NoRequest]
    /\ UNCHANGED <<dbVars, input, tokens, known>>

-----------------------------------------------------------------------------

Handle(w, r, i) ==
    \/ AddExpense(w, r, i)  \/ GetExpenses(w, r, i) \/ DeleteExpense(w, r, i)
    \/ AddBudget(w, r, i)   \/ GetBudgets(w, r, i)
    \/ AddSaving(w, r, i)   \/ GetSavings(w, r, i)
    \/ AddGoal(w, r, i)     \/ GetGoals(w, r, i)
    \/ RegisterUser(w, r, i) \/ Login(w, r, i)

Next ==
    \/ \E w \in Workers, r \in Requests, i \in Inputs : Handle(w, r, i)
    \/ ServerExecute
    \/ ExecuteLate
    \/ \E w \in Workers : ReadReply(w) \/ StoreResult(w) \/ Give(w)
    \/ DropLink
    \/ Restart

Spec == Init /\ [][Next]_vars

\* A worker that runs a handler is a thread the system schedules, and the
\* server serves its connections.  Nothing makes clients ask, links fail or
\* processes restart, nor anything that the statements of a lost connection arrive.
Fairness ==
    /\ WF_vars(ServerExecute)
    /\ \A w \in Workers : WF_vars(ReadReply(w)) /\ WF_vars(StoreResult(w)) /\ WF_vars(Give(w))

FairSpec == Spec /\ Fairness

-----------------------------------------------------------------------------
(* What the answers promise *)

\* The client has, or is about to get, its answer from a process that had not raced.
Answered(r, codes) == answer[r].code \in codes /\ ~answer[r].raced

\* Nor was the link lost.
Undisturbed(r, codes) == Answered(r, codes) /\ answer[r].up

Owner(r) == VerifyJWT(input[r].token)

Stored(r) == [id |-> r, user |-> Owner(r)] \in tables[input[r].table]

Deleted(r) == \E d \in Requests : input[d] # NoInput /\ input[d].op = "delete"
                                    /\ r \in outcome[d].rows

\* A registration whose text made another statement of it was executed: it may have
\* written over any account.
Rewritten == \E d \in Requests : /\ input[d] # NoInput /\ input[d].op = "register"
                                  /\ input[d].body = "spliced" /\ outcome[d].done = "done"

\* A row is there because its INSERT was executed, and stays until a DELETE; an
\* account stays unless a registration writes over it.
Kept(r) ==
    /\ input[r].op = "insert" => Stored(r) \/ Deleted(r)
    /\ input[r].op = "register" /\ input[r].body = "good" =>
           Rewritten \/ \E u \in DOMAIN users : users[u] = input[r].account

\* "Expense added successfully", "Budget created", "User registered": the row
\* is there, through any later crash or lost link, until somebody deletes it.
AckedIsStored == \A r \in Requests : Answered(r, {201}) => Kept(r)

\* After "Failed to add expense", "Email might already exist" or any other
\* error the client may try again without entering anything twice, unless the
\* link was lost: then a statement may have been, or may yet be, executed.
RefusedLeavesNoTrace ==
    \A r \in Requests : Undisturbed(r, {400, 401, 500}) =>
        \/ outcome[r].done # "done" /\ r \notin late
        \/ Selects(input[r].op)

\* The rows of list r go with what its client could know: an entry acknowledged before
\* the list was asked for is among them, unless somebody deleted it; a deletion
\* acknowledged before has left none of its rows; and all are entries of this list.
Keeps(r, rows) ==
    /\ \A q \in known[r] :
          /\ input[q].op = "insert" /\ input[q].table = input[r].table /\ Owner(q) = Owner(r) =>
                 q \in rows \/ Deleted(q)
          /\ input[q].op = "delete" => outcome[q].rows \cap rows = {}
    /\ \A q \in rows : /\ input[q] # NoInput /\ input[q].op = "insert"
                       /\ input[q].table = input[r].table

\* A list may be stale when it is given, since others are served between the SELECT and
\* the answer (main.cpp:110-127); it never misses what was acknowledged before.
ListKeepsUp ==
    \A r \in Requests : Undisturbed(r, {200}) /\ input[r].op = "select" =>
        Keeps(r, answer[r].rows)

HasAccount(a, email, pw) == a.email = email /\ a.pw = pw

\* Somebody had that email and password when r was asked for, and was told so.
KnownAccount(r, email, pw) ==
    \/ \E u \in DOMAIN InitialUsers : HasAccount(InitialUsers[u], email, pw)
    \/ \E q \in known[r] : /\ input[q].op = "register" /\ input[q].body = "good"
                           /\ HasAccount(input[q].account, email, pw)

\* A login whose email is put into the SELECT as it is meant succeeds for the email and
\* password of the user the token is issued to, and is refused to nobody who was told of
\* an account with them; while no registration's text has written over accounts.
LoginIsExact ==
    \A r \in Requests : input[r] # NoInput /\ input[r].op = "login" /\ input[r].body = "good" =>
        LET a == input[r].account
        IN  /\ Undisturbed(r, {200}) => \/ Rewritten
                                        \/ /\ answer[r].token \in DOMAIN users
                                           /\ HasAccount(users[answer[r].token], a.email, a.pw)
            /\ Undisturbed(r, {401}) => Rewritten \/ ~KnownAccount(r, a.email, a.pw)

-----------------------------------------------------------------------------
(* The shared connection *)

\* Nobody uses it.
Idle == \A w \in Workers : ~InLibrary(w)

\* Unless handlers raced, one that is done with the connection leaves it as it found it:
\* nothing under way in either direction, no result half read.
ConnectionIsReleased ==
    Idle /\ ~raced => sent = <<>> /\ stream = <<>> /\ status = "ready"

\* A connection that can serve nothing: a result nobody will read, or no link.
Blocked == \/ Idle /\ status = "get_result"
           \/ Gone

\* The answers of this step give and acknowledge nothing.
NothingServed ==
    \A r \in Requests : answer'[r] # answer[r] =>
        \/ answer'[r].code \in {Lost, 400, 401, 500}
        \/ answer'[r].code = 200 /\ answer'[r].rows = {} /\ input'[r].op = "select"

\* Nothing but a new process heals a blocked connection, and until then every
\* answer is an error or the empty list: no handler retries or reconnects.
BlockedUntilRestart ==
    [][Blocked => \/ link' = "up" /\ status' = "ready" /\ Idle'
                  \/ Blocked' /\ NothingServed]_vars

\* A client that waits has a handler that runs, and unless handlers raced, that
\* waits for nothing that cannot come: the link is lost, its own statement is on its
\* way, or its own reply.  The calls of the library have no timeout (db_manager.cpp:15).
NobodyWaitsInVain ==
    \A r \in Requests : input[r] # NoInput /\ answer[r].code = Pending =>
        \E w \in Workers :
            /\ InLibrary(w) /\ job[w] = r
            /\ \/ raced \/ pc[w] = "store" \/ link = "down"
               \/ \E m \in DOMAIN sent : sent[m] = r
               \/ stream # <<>> /\ Head(stream).req = r

\* Every request is answered, or lost with its process: a lost link wakes the
\* handler that waits for a reply.
EveryRequestAnswered ==
    \A r \in Requests : input[r] # NoInput ~> Given(r)

-----------------------------------------------------------------------------
(* The inductive invariant, in parts *)

\* Before a request is made there is no trace of it, and none in the database before its
\* statement is executed; a refused one finds nothing, and no list is refused.
UnaskedInv ==
    \A r \in Requests :
        /\ input[r] = NoInput => answer[r] = NoAnswer /\ outcome[r].done = "no"
        /\ outcome[r].done = "no" => outcome[r] = NotDone
        /\ outcome[r].done = "refused" => /\ outcome[r].rows = {} /\ outcome[r].found = {}
                                          /\ input[r].op # "select"
        /\ answer[r].code = Pending => answer[r] = NoAnswer

\* A worker runs one handler, nobody else runs it, and its client still waits: for
\* as long as the handler is in the library there is no answer yet.
WorkerInv ==
    /\ \A w \in Workers : IF pc[w] = "idle" THEN job[w] = NoRequest
                          ELSE /\ job[w] \in Requests /\ input[job[w]] # NoInput
                               /\ answer[job[w]].code = Pending <=> InLibrary(w)
                               /\ answer[job[w]].code # Lost
    /\ \A v, w \in Workers : pc[v] # "idle" /\ job[v] = job[w] => v = w

\* Who waits for an answer is being served.
WaitingInv ==
    \A r \in Requests : input[r] # NoInput /\ answer[r].code = Pending =>
        \E w \in Workers : InLibrary(w) /\ job[w] = r

\* What gets through to the database.
Admitted(i) == /\ i.op \in {"insert", "select", "delete"} => Authorized(i)
               /\ HoldsText(i.op) => Readable(i.body)

\* A statement on its way was admitted, and has not been executed.
UnderWay(r) == /\ input[r] # NoInput /\ Admitted(input[r])
               /\ outcome[r].done = "no"

\* On the connection it is there once, and its client waits, unless a race cut the wait
\* short.  On a lost one, the client waits, or its answer left open what became of it.
SentInv ==
    /\ link = "down" => sent = <<>>
    /\ \A m \in DOMAIN sent : /\ UnderWay(sent[m]) /\ sent[m] \notin late
                              /\ answer[sent[m]].code = Pending \/ answer[sent[m]].raced
    /\ \A m, n \in DOMAIN sent : sent[m] = sent[n] => m = n

LateInv ==
    \A r \in late :
        /\ UnderWay(r)
        /\ \/ answer[r].code = Pending /\ (raced \/ Gone)
           \/ answer[r].raced \/ ~answer[r].up \/ answer[r].code = Lost

RowInv == \A r \in Requests : outcome[r].done = "done" => Kept(r)

\* A row is of an executed INSERT into its table, and user 1's, whoever sent it, unless
\* the text adds rows for others; and what was deleted does not come back.
TableInv ==
    /\ \A t \in Tables : \A row \in tables[t] :
          /\ outcome[row.id].done = "done"
          /\ input[row.id] # NoInput /\ input[row.id].op = "insert" /\ input[row.id].table = t
          /\ input[row.id].body = "good" => row.user = 1
    /\ \A d \in Requests : input[d] # NoInput /\ input[d].op = "delete" =>
          \A q \in outcome[d].rows : /\ outcome[q].done = "done"
                                     /\ \A t \in Tables : \A row \in tables[t] : row.id # q

EmailsDiffer == \A u, v \in DOMAIN users : users[u].email = users[v].email => u = v

\* The users of before are still there.
InitialInv ==
    Rewritten \/ \A u \in DOMAIN InitialUsers : u \in DOMAIN users /\ users[u] = InitialUsers[u]

\* What the client of r could know of was acknowledged.
KnownInv == \A r \in Requests : \A q \in known[r] : input[q] # NoInput /\ Acked(q)

\* What the server found out for a list, and for a login, goes with that.
SelectInv ==
    \A r \in Requests : outcome[r].done = "done" /\ input[r].op = "select" =>
        Keeps(r, outcome[r].rows)

LoginInv ==
    \A r \in Requests : outcome[r].done # "no" /\ input[r].op = "login" /\ input[r].body = "good" =>
        LET email == input[r].account.email
        IN  \/ Rewritten
            \/ /\ \A f \in outcome[r].found : /\ f.id \in DOMAIN users
                                              /\ HasAccount(users[f.id], email, f.pw)
               /\ \A pw \in Passwords : KnownAccount(r, email, pw) =>
                     \E f \in outcome[r].found : f.pw = pw

\* The dialogue of a handler that has the connection to itself, in its phases:
\* sent; lost; replied, wholly or cut short; the columns read.
Awaiting(r)  == link = "up" /\ sent = <<r>> /\ stream = <<>>
Abandoned    == Gone /\ sent = <<>>
Replied(r)   == /\ sent = <<>> /\ outcome[r].done # "no"
                /\ stream = ReplyTo(r, outcome[r].done = "done", Selects(input[r].op))
Truncated(r) == /\ link = "down" /\ sent = <<>> /\ Selects(input[r].op)
                /\ stream = <<[kind |-> "header", req |-> r]>>
Described(r) == /\ status = "get_result" /\ fields
                /\ sent = <<>> /\ stream = <<[kind |-> "rows", req |-> r]>>
                /\ Selects(input[r].op) /\ outcome[r].done = "done"
CutShort(r)  == status = "get_result" /\ fields /\ Abandoned /\ Selects(input[r].op)

InDialogue(w) ==
    CASE ~InLibrary(w)   -> TRUE
      [] pc[w] = "reply" -> /\ status = "ready"
                            /\ \/ Awaiting(job[w]) \/ Abandoned
                               \/ Replied(job[w]) \/ Truncated(job[w])
      [] pc[w] = "store" -> Described(job[w]) \/ CutShort(job[w])

\* Without a race one handler at most is in the library.
AloneInv ==
    ~raced => /\ \A v, w \in Workers : InLibrary(v) /\ InLibrary(w) => v = w
              /\ \A w \in Workers : InDialogue(w)
              /\ ConnectionIsReleased

\* What an answer says of the statement: that it was executed; the rows, or the user, it
\* found; or that it was not and will not be, or found no user of that password.
Acknowledges(r) ==
    /\ outcome[r].done = "done"
    /\ answer[r].code = SuccessCode(input[r].op) \/ Selects(input[r].op)
    /\ IF input[r].op = "login"
       THEN \E f \in outcome[r].found : /\ f.id = answer[r].token
                                         /\ f.pw = input[r].account.pw
       ELSE answer[r].token = NoToken
    /\ answer[r].rows = IF input[r].op = "select" THEN outcome[r].rows ELSE {}

Finds(r) == input[r].op = "login" /\ \E f \in outcome[r].found : f.pw = input[r].account.pw

AnswerInv ==
    /\ \A r \in Requests : Answered(r, {200, 201}) =>
          (answer[r].up \/ ~Selects(input[r].op) => Acknowledges(r))
    /\ \A r \in Requests : Undisturbed(r, {401}) /\ input[r].op = "login" =>
          outcome[r].done # "no" /\ ~Finds(r)
    /\ RefusedLeavesNoTrace

IInv == /\ TypeOK /\ UnaskedInv /\ WorkerInv /\ WaitingInv /\ SentInv /\ LateInv
        /\ RowInv /\ TableInv /\ EmailsDiffer /\ InitialInv /\ KnownInv
        /\ SelectInv /\ LoginInv /\ AloneInv /\ AnswerInv

-----------------------------------------------------------------------------
(* What it all amounts to for the clients *)

\* What an answer promises.  One that a race preceded promises nothing; over a
\* lost link only a 201, or the 200 of a deletion, does: a list is empty then.
Verdict(r) ==
    IF ~Given(r) THEN "none"
    ELSE IF answer[r].raced THEN "void"
    ELSE IF answer[r].code \in {200, 201} /\ (answer[r].up \/ ~Selects(input[r].op)) THEN "done"
    ELSE IF answer[r].code # Lost /\ answer[r].up THEN "refused"
    ELSE "unsure"

\* What is said of r, see Word of Ledger.
WordOn(r) ==
    [verdict |-> Verdict(r),
     rows |-> IF Verdict(r) = "done" THEN answer[r].rows ELSE {},
     user |-> IF Verdict(r) = "done" THEN answer[r].token ELSE 0]

MayRace == \E v, w \in Workers : v # w

Ledger == INSTANCE Ledger WITH request <- input, reply <- [r \in Requests |-> WordOn(r)]

\* Handlers, replies and rows read in steps of their own, lost links and
\* restarts notwithstanding, requests are served as if each took effect at one
\* moment, before an answer that tells of it; races void answers, and only with
\* more than one worker.
ServesAsLedger == Ledger!Spec

-----------------------------------------------------------------------------
(* What the code does not do *)

\* "Email might already exist" (main.cpp:62), and only the email is said to be unique
\* (README.md:64-65): a registration that is put into the INSERT as it is meant, and is
\* refused by the server, has somebody's email.
EmailIsTaken ==
    \A r \in Requests : Undisturbed(r, {400}) =>
        (input[r].op = "register" /\ input[r].body = "good" =>
            \E u \in DOMAIN users : users[u].email = input[r].account.email)

\* 201 "Expense added successfully" (main.cpp:104) whatever other handlers do:
\* the row is stored, or the statement is at least on its way.
AckMeansStored ==
    \A r \in Requests : answer[r].code = 201 /\ input[r].op = "insert" =>
        \/ Stored(r) \/ Deleted(r) \/ r \in late
        \/ \E m \in DOMAIN sent : sent[m] = r
=============================================================================
