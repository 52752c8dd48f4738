---------------------------- MODULE LedgerProofs -----------------------------
(***************************************************************************)
(* Backend implements Ledger, for any sets of requests, accounts, inputs   *)
(* and workers: the initial states map to initial states, and every step   *)
(* maps to a step of Ledger or to none.  The effect of a request is        *)
(* ServerExecute, or ExecuteLate; what is said of it is said by Give.      *)
(***************************************************************************)
EXTENDS BackendProofs

\* What the mapping needs beside IInv: only several workers race, and the answer a
\* handler is about to give is one that its endpoint has.
RacedInv == /\ raced => MayRace
            /\ \A r \in Requests : answer[r].raced => MayRace
EndedInv ==
    \A w \in Workers : pc[w] = "answer" =>
        \/ answer[job[w]].raced
        \/ answer[job[w]].code \in {200, 201, FailureCode(Op(w))}

\* Only handlers of two workers can race.
LEMMA RacedStep ==
    ASSUME TypeOK, RacedInv, [Next]_vars
    PROVE  RacedInv'
<1>a. ASSUME raced' => MayRace,
             \A q \in Requests : answer'[q] = answer[q] \/ (answer'[q].raced => raced')
      PROVE  RacedInv'
  BY <1>a DEF RacedInv, MayRace
<1>1. ASSUME NEW r \in Requests, NEW code, NEW rows, NEW token, Respond(r, code, rows, token)
      PROVE  \A q \in Requests : answer'[q] = answer[q] \/ (answer'[q].raced => raced')
  BY <1>1 DEF Respond, TypeOK
<1>2. ASSUME NEW w \in Workers, NEW r \in Requests, NEW i \in Inputs,
             RejectStep(w, r, i) \/ QueryStep(w, r, i)
      PROVE  RacedInv'
  <2>1. raced' => MayRace
    BY <1>2 DEF RejectStep, Reject, QueryStep, Query, RacedInv, MayRace
  <2>2. answer' = answer \/ \E code : Respond(r, code, {}, NoToken)
    BY <1>2 DEF RejectStep, Reject, QueryStep, Query
  <2> QED
    BY <1>a, <1>1, <2>1, <2>2
<1>3. ASSUME NEW w \in Workers, ReadReply(w) \/ StoreResult(w)
      PROVE  RacedInv'
  <2>1. raced' = raced /\ (Continues(w) \/ Ends(w))
    BY <1>3, ProgressCases
  <2>2. \A q \in Requests : answer'[q] = answer[q] \/ (answer'[q].raced => raced')
    BY <2>1 DEF Continues, Ends, TypeOK
  <2> QED
    BY <1>a, <2>1, <2>2 DEF RacedInv
<1>4. CASE Restart
  <2>1. \A q \in Requests : answer'[q] = answer[q] \/ (answer'[q].raced => raced')
    BY <1>4 DEF Restart, NoAnswer
  <2> QED
    BY <1>a, <1>4, <2>1 DEF Restart
<1> QED
  BY <1>a, <1>2, <1>3, <1>4, NextCases
     DEF ServerExecute, ExecuteLate, Give, DropLink, vars, RacedInv

\* A list that was read without a race is legible, so that no std::stoi throws.
LEMMA EndedStep ==
    ASSUME IInv, EndedInv, [Next]_vars
    PROVE  EndedInv'
<1> USE DEF IInv
<1>0. \A w \in Workers : pc[w] = "answer" => job[w] \in Requests /\ input[job[w]] # NoInput
  BY DEF WorkerInv
<1>a. ASSUME NEW w \in Workers, pc'[w] = "answer" => /\ pc[w] = "answer" /\ job'[w] = job[w]
                                                      /\ input'[job[w]] = input[job[w]]
                                                      /\ answer'[job[w]] = answer[job[w]]
      PROVE  pc'[w] = "answer" => \/ answer'[job'[w]].raced
                                  \/ answer'[job'[w]].code \in {200, 201, FailureCode(Op(w)')}
  BY <1>a DEF EndedInv, Op
<1>1. ASSUME NEW w \in Workers, NEW r \in Requests, NEW i \in Inputs,
             RejectStep(w, r, i) \/ QueryStep(w, r, i), NEW v \in Workers
      PROVE  pc'[v] = "answer" => /\ pc[v] = "answer" /\ job'[v] = job[v]
                                  /\ input'[job[v]] = input[job[v]]
                                  /\ answer'[job[v]] = answer[job[v]]
  BY <1>0, <1>1, AskFrame DEF TypeOK
<1>2. ASSUME NEW w \in Workers, ReadReply(w) \/ StoreResult(w), NEW v \in Workers \ {w}
      PROVE  pc'[v] = "answer" => /\ pc[v] = "answer" /\ job'[v] = job[v]
                                  /\ input'[job[v]] = input[job[v]]
                                  /\ answer'[job[v]] = answer[job[v]]
  <2>1. input' = input /\ (Continues(w) \/ Ends(w)) /\ pc[w] # "idle"
    BY <1>2, ProgressCases DEF InLibrary
  <2>2. pc[v] # "idle" => job[v] # job[w]
    BY <2>1 DEF WorkerInv
  <2> QED
    BY <1>0, <2>1, <2>2 DEF Continues, Ends, TypeOK
<1>3. ASSUME NEW w \in Workers, ReadReply(w) \/ StoreResult(w), pc'[w] = "answer"
      PROVE  \/ answer'[job'[w]].raced
             \/ answer'[job'[w]].code \in {200, 201, FailureCode(Op(w)')}
  <2> DEFINE r == job[w]
  <2>1. r \in Requests /\ input' = input /\ job' = job /\ Ends(w) /\ input[r].op \in Ops
    BY <1>3, ProgressCases, InputsAssumption
       DEF InLibrary, WorkerInv, Continues, Ends, TypeOK, HttpRequest
  <2>2. ASSUME NEW code, NEW rows, NEW token, Finish(w, code, rows, token)
        PROVE  answer'[r].code = code
    BY <2>1, <2>2 DEF Finish, Respond, TypeOK
  <2>3. CASE raced
    <3>1. PICK a \in Answer : a.raced = raced /\ answer'[r] = a
      BY <2>1 DEF Ends, TypeOK
    <3> QED
      BY <2>1, <2>3, <3>1, Zenon
  <2>4. CASE ~raced /\ ReadReply(w)
    <3>1. ReadOk(w) \/ ReadError(w) \/ ReadNothing(w)
      BY <1>3, <2>4, ReadsOwnReply DEF ReadHeader, QuerySucceeded, TypeOK
    <3>2. \/ \E code : code = FailureCode(Op(w)) /\ Finish(w, code, {}, NoToken)
          \/ \E code \in {200, 201} : Finish(w, code, {}, NoToken)
      BY <1>3, <3>1, CodeTypes DEF ReadOk, ReadError, ReadNothing, QuerySucceeded, QueryFailed, TypeOK
    <3> QED
      BY <2>1, <2>2, <3>2 DEF Op
  <2>5. CASE ~raced /\ StoreResult(w)
    <3>1. (StoreRows(w) /\ Head(stream).req = r) \/ StoreNothing(w)
      BY <2>5, ReadsOwnRows
    <3>2. \/ \E code : code = FailureCode(Op(w)) /\ Finish(w, code, {}, NoToken)
          \/ \E rows, token : Finish(w, 200, rows, token)
      <4>1. CASE StoreNothing(w)
        BY <4>1 DEF StoreNothing, NoResult
      <4>2. CASE StoreRows(w) /\ Op(w) = "login" /\ Head(stream).req = r
        BY <4>2 DEF StoreRows, UseLoginRow, NoResult
      <4>3. CASE StoreRows(w) /\ Op(w) # "login" /\ Head(stream).req = r
        <5>1. Op(w) = "select"
          BY <2>5, <4>3, ReadsOwnRows DEF Selects
        <5>2. Finish(w, 200, outcome[r].rows, NoToken)
          BY <4>3, <5>1 DEF StoreRows, UseListRows, Legible, Op
        <5> QED
          BY <5>2
      <4> QED
        BY <3>1, <4>1, <4>2, <4>3
    <3> QED
      BY <2>1, <2>2, <3>2 DEF Op
  <2> QED
    BY <1>3, <2>3, <2>4, <2>5
<1>4. ASSUME NEW w \in Workers, Give(w), NEW v \in Workers
      PROVE  pc'[v] = "answer" => /\ pc[v] = "answer" /\ job'[v] = job[v]
                                  /\ input'[job[v]] = input[job[v]]
                                  /\ answer'[job[v]] = answer[job[v]]
  BY <1>4 DEF Give, TypeOK
<1>5. CASE ServerExecute \/ ExecuteLate \/ DropLink \/ UNCHANGED vars
  BY <1>5 DEF ServerExecute, ExecuteLate, DropLink, vars, EndedInv, Op
<1>6. CASE Restart
  BY <1>6 DEF Restart, EndedInv
<1> QED
  BY <1>a, <1>1, <1>2, <1>3, <1>4, <1>5, <1>6, NextCases DEF EndedInv

LInv == RacedInv /\ EndedInv

\* The additions to IInv hold in every reachable state.
LEMMA Additions == Spec => [](IInv /\ LInv)
<1>1. Init => LInv
  BY DEF Init, LInv, RacedInv, EndedInv, NoAnswer
<1>2. IInv /\ LInv /\ [Next]_vars => LInv'
  BY RacedStep, EndedStep DEF LInv, IInv
<1> QED
  BY <1>1, <1>2, Invariance, PTL DEF Spec

-----------------------------------------------------------------------------
(* The refinement *)

Words == [r \in Requests |-> WordOn(r)]

\* What is said of a request, once said, changes with its answer only.
LEMMA SameWord ==
    ASSUME NEW r \in Requests, Given(r)' <=> Given(r),
           Given(r) => answer'[r] = answer[r] /\ input'[r] = input[r]
    PROVE  WordOn(r)' = WordOn(r)
<1> HIDE DEF Given
<1>1. CASE Given(r)
  <2>1. Given(r)' /\ answer'[r] = answer[r] /\ input'[r] = input[r]
    BY <1>1
  <2>2. Verdict(r)' = Verdict(r)
    BY <1>1, <2>1 DEF Verdict
  <2> QED
    BY <2>1, <2>2 DEF WordOn
<1>2. CASE ~Given(r)
  BY <1>2 DEF WordOn, Verdict
<1> QED
  BY <1>1, <1>2

\* The statements of Ledger are those of Backend.
LEMMA SameExecution ==
    ASSUME NEW s, Execute(s)
    PROVE  Ledger!Execute(s)
<1> USE DEF Record, Accepts, Spliced, OwnerExists, Taken, RowsOf, UserOf, Passwords,
            Ledger!Record, Ledger!Accepts, Ledger!Spliced, Ledger!OwnerExists, Ledger!Taken,
            Ledger!RowsOf, Ledger!UserOf, Ledger!Passwords
<1>1. RefuseStatement(s) => Ledger!RefuseStatement(s)
  BY DEF RefuseStatement, Ledger!RefuseStatement
<1>2. (InsertRow(s) => Ledger!InsertRow(s)) /\ (InsertRowsToo(s) => Ledger!InsertRowsToo(s))
  BY DEF InsertRow, Ledger!InsertRow, InsertRowsToo, Ledger!InsertRowsToo
<1>3. (DeleteRows(s) => Ledger!DeleteRows(s)) /\ (SelectRows(s) => Ledger!SelectRows(s))
  BY DEF DeleteRows, Ledger!DeleteRows, SelectRows, Ledger!SelectRows
<1>4. (InsertUser(s) => Ledger!InsertUser(s)) /\ (RewriteUser(s) => Ledger!RewriteUser(s))
  BY DEF InsertUser, Ledger!InsertUser, RewriteUser, Ledger!RewriteUser
<1>5. (SelectUser(s) => Ledger!SelectUser(s)) /\ (SelectAnyUser(s) => Ledger!SelectAnyUser(s))
  BY DEF SelectUser, Ledger!SelectUser, SelectAnyUser, Ledger!SelectAnyUser
<1> QED
  BY <1>1, <1>2, <1>3, <1>4, <1>5 DEF Execute, Ledger!Execute

\* At the start nothing was said of any request.
LEMMA InitRefines == Init => Ledger!Init
<1> SUFFICES ASSUME Init PROVE Ledger!Init
  OBVIOUS
<1>1. \A r \in Requests : WordOn(r) = Ledger!Bare("none")
  BY DEF Init, WordOn, Verdict, Given, NoAnswer, Ledger!Bare
<1> QED
  BY <1>1 DEF Init, DbInit, NotDone, Ledger!Init, Ledger!DbInit, Ledger!NotDone,
            Tables, Ledger!Tables

\* A first step that answers says that the request was refused, or nothing reliable;
\* else it says nothing.
LEMMA AskRefines ==
    ASSUME IInv, LInv, NEW w \in Workers, NEW r \in Requests, NEW i \in Inputs,
           Handle(w, r, i), LInv'
    PROVE  Ledger!Ask(r, i)
<1> USE DEF IInv, LInv
<1>1. RejectStep(w, r, i) \/ QueryStep(w, r, i)
  BY HandleCases
<1>2. /\ input[r] = NoInput /\ answer[r] = NoAnswer /\ input' = [input EXCEPT ![r] = i]
      /\ UNCHANGED dbVars
      /\ \A v \in Workers : job[v] # r
  BY <1>1, AskFrame, NoRequestAssumption DEF UnaskedInv, WorkerInv
<1>b. \A q \in Requests \ {r} : WordOn(q)' = WordOn(q)
  <2>1. \A q \in Requests \ {r} : /\ answer'[q] = answer[q] /\ input'[q] = input[q]
                                  /\ \A v \in Workers : job'[v] = q <=> job[v] = q
    BY <1>1, <1>2, AskFrame, NoRequestAssumption DEF TypeOK, WorkerInv
  <2>2. \A q \in Requests \ {r} : Given(q)' <=> Given(q)
    BY <2>1 DEF Given
  <2> QED
    BY <2>1, <2>2, SameWord
<1>3. ASSUME NEW code \in {200, 400, 401, 500}, Respond(r, code, {}, NoToken), UNCHANGED job,
             code = 200 => (raced' \/ (i.op = "select" /\ link # "up"))
      PROVE  \E verdict \in {"refused", "unsure", "void"} :
                 WordOn(r)' = Ledger!Bare(verdict) /\ (verdict = "void" => MayRace)
  <2> DEFINE a == answer'[r]
  <2>1. a = [code |-> code, rows |-> {}, token |-> NoToken, raced |-> raced', up |-> link = "up"]
    BY <1>3 DEF Respond, TypeOK
  <2>2. input'[r] = i /\ a.code = code
    BY <1>2, <2>1 DEF TypeOK
  <2>b. Given(r)'
    BY <1>2, <1>3, <2>2 DEF Given, Pending
  <2>a. a.up = (link = "up")
    BY <2>1
  <2>3. raced' => Verdict(r)' = "void" /\ MayRace
    BY <2>1, <2>b DEF Verdict, RacedInv, MayRace
  <2>4. ~raced' => Verdict(r)' \in {"refused", "unsure"}
    <3>1. CASE link = "up"
      <4>1. a.up
        BY <2>a, <3>1, Zenon
      <4>2. ~raced' => code # 200 /\ ~a.raced
        BY <1>3, <2>1, <3>1
      <4> QED
        BY <2>2, <2>b, <4>1, <4>2 DEF Verdict, Lost
    <3>2. CASE link # "up"
      <4>1. ~a.up
        BY <2>a, <3>2, Zenon
      <4>2. ~raced' => (code = 200 => Selects(i.op)) /\ ~a.raced
        BY <1>3, <2>1 DEF Selects
      <4> QED
        BY <2>2, <2>b, <4>1, <4>2 DEF Verdict, Lost
    <3> QED
      BY <3>1, <3>2
  <2> QED
    BY <2>3, <2>4 DEF WordOn, Ledger!Bare
<1>4. \E verdict \in Ledger!WordsAtOnce : WordOn(r)' = Ledger!Bare(verdict)
  <2>1. CASE RejectStep(w, r, i)
    BY <1>3, <2>1 DEF RejectStep, Reject, Ledger!WordsAtOnce
  <2>2. CASE QueryStep(w, r, i) /\ answer' = answer
    <3>1. ~Given(r)'
      BY <1>2, <2>2 DEF Given, NoAnswer
    <3>2. WordOn(r)' = Ledger!Bare("none")
      BY <3>1 DEF WordOn, Verdict, Ledger!Bare
    <3> QED
      BY <3>2 DEF Ledger!WordsAtOnce
  <2>3. CASE QueryStep(w, r, i) /\ SendFails /\ Respond(r, FailureCode(i.op), {}, NoToken) /\ UNCHANGED job
    <3>1. pc[w] = "idle" /\ (~raced' => ~raced /\ Idle)
      BY <2>3 DEF QueryStep, Ask, Receive, Query, Idle, InLibrary
    <3>2. ~raced' => link # "up"
      BY <2>3, <3>1 DEF SendFails, CanSend, AloneInv, ConnectionIsReleased
    <3>3. FailureCode(i.op) = 200 => i.op = "select"
      BY DEF FailureCode
    <3>4. FailureCode(i.op) \in {200, 400, 401, 500}
      BY CodeTypes
    <3> QED
      BY <1>3, <2>3, <3>2, <3>3, <3>4 DEF Ledger!WordsAtOnce
  <2> QED
    BY <1>1, <2>1, <2>2, <2>3 DEF QueryStep, Query
<1> QED
  BY <1>2, <1>b, <1>4 DEF Ledger!Ask, Ledger!Say, Ledger!dbVars, dbVars, TypeOK

\* What a handler says of its request at its end is true of its effect.
LEMMA GiveRefines ==
    ASSUME IInv, LInv, NEW w \in Workers, Give(w)
    PROVE  \E r \in Requests : Ledger!Tell(r)
<1> USE DEF IInv, LInv
<1> DEFINE Told(r) == Ledger!Granted(r) \/ Ledger!Refused(r) \/ Ledger!Unpromised(r)
<1>1. PICK r \in Requests : job[w] = r
  BY DEF Give, WorkerInv
<1>2. /\ input[r] # NoInput /\ input[r] \in Inputs /\ answer[r].code \notin {Pending, Lost}
      /\ UNCHANGED <<dbVars, input, answer>> /\ ~Given(r)
  BY <1>1 DEF Give, WorkerInv, InLibrary, Given, Pending, TypeOK
<1>3. input[r].op \in Ops /\ Op(w) = input[r].op
  BY <1>1, <1>2, InputsAssumption DEF HttpRequest, Op
<1>4. Given(r)' /\ \A q \in Requests \ {r} : Given(q)' <=> Given(q)
  <2>1. /\ job'[w] = NoRequest /\ \A v \in Workers \ {w} : job'[v] = job[v] /\ job[v] # r
    BY <1>1, NoRequestAssumption DEF Give, WorkerInv, TypeOK
  <2> QED
    BY <1>1, <1>2, <2>1, NoRequestAssumption DEF Given
<1>5. \A q \in Requests \ {r} : WordOn(q)' = WordOn(q)
  BY <1>2, <1>4, SameWord
<1>6. ASSUME NEW word, WordOn(r)' = word
      PROVE  Words' = [Words EXCEPT ![r] = word]
  BY <1>5, <1>6 DEF Words
<1>7. WordOn(r).verdict = "none"
  BY <1>2 DEF WordOn, Verdict
<1>8. ASSUME answer[r].raced
      PROVE  Told(r)
  <2>1. Verdict(r)' = "void"
    BY <1>2, <1>4, <1>8 DEF Verdict
  <2>2. WordOn(r)' = Ledger!Bare("void") /\ MayRace
    BY <1>8, <2>1 DEF WordOn, Ledger!Bare, RacedInv
  <2> QED
    BY <1>6, <2>2 DEF Words, Ledger!Unpromised, Ledger!Say
<1>9. ASSUME ~answer[r].raced /\ answer[r].code \in {200, 201} /\ (answer[r].up \/ ~Selects(input[r].op))
      PROVE  Told(r)
  <2>1. Verdict(r)' = "done"
    BY <1>2, <1>4, <1>9 DEF Verdict
  <2>2. WordOn(r)' = [verdict |-> "done", rows |-> answer[r].rows, user |-> answer[r].token]
    BY <1>2, <2>1 DEF WordOn
  <2>3. Words' = [Words EXCEPT ![r] = [verdict |-> "done", rows |-> answer[r].rows, user |-> answer[r].token]]
    BY <1>6, <2>2
  <2>4. Acknowledges(r)
    BY <1>9 DEF AnswerInv, Answered
  <2>5. CASE input[r].op = "login"
    <3>1. PICK f \in outcome[r].found : f.id = answer[r].token /\ f.pw = input[r].account.pw
      BY <2>4, <2>5 DEF Acknowledges
    <3>2. answer[r].rows = {} /\ Ledger!Recognised(r, f)
      BY <2>4, <2>5, <3>1 DEF Acknowledges, Ledger!Recognised
    <3> QED
      BY <2>3, <2>4, <2>5, <3>1, <3>2 DEF Acknowledges, Ledger!Granted, Ledger!Grant, Ledger!Say, Words
  <2>6. CASE input[r].op # "login"
    <3>1. answer[r].token = 0 /\ answer[r].rows = IF input[r].op = "select" THEN outcome[r].rows ELSE {}
      BY <2>4, <2>6 DEF Acknowledges, NoToken
    <3> QED
      BY <1>3, <2>3, <2>4, <2>6, <3>1
         DEF Acknowledges, Ledger!Granted, Ledger!Grant, Ledger!Say, Ledger!Ops, Ops, Words
  <2> QED
    BY <2>5, <2>6
<1>10. ASSUME ~answer[r].raced /\ answer[r].up /\ answer[r].code \notin {200, 201}
      PROVE  Told(r)
  <2>1. Verdict(r)' = "refused"
    BY <1>2, <1>4, <1>10 DEF Verdict
  <2>2. WordOn(r)' = Ledger!Bare("refused")
    BY <2>1 DEF WordOn, Ledger!Bare
  <2>3. answer[r].code = FailureCode(input[r].op)
    BY <1>1, <1>3, <1>10 DEF Give, EndedInv
  <2>4. answer[r].code \in {400, 401, 500} /\ input[r].op # "select"
        /\ (input[r].op = "login" => answer[r].code = 401)
    BY <1>3, <1>10, <2>3, CodeTypes DEF FailureCode, Ops
  <2>5. CASE input[r].op = "login"
    <3>1. ~Finds(r)
      BY <1>10, <2>4, <2>5 DEF AnswerInv, Undisturbed, Answered
    <3> QED
      BY <1>6, <2>2, <2>5, <3>1 DEF Finds, Ledger!Recognised, Ledger!Refused, Ledger!Say, Words
  <2>6. CASE input[r].op # "login"
    <3>1. outcome[r].done # "done"
      BY <1>10, <2>4, <2>6 DEF AnswerInv, RefusedLeavesNoTrace, Undisturbed, Answered, Selects
    <3> QED
      BY <1>6, <2>2, <3>1 DEF Ledger!Refused, Ledger!Say, Words
  <2> QED
    BY <2>5, <2>6
<1>11. ASSUME ~answer[r].raced /\ ~answer[r].up /\ ~(answer[r].code \in {200, 201} /\ ~Selects(input[r].op))
      PROVE  Told(r)
  <2>1. Verdict(r)' = "unsure"
    BY <1>2, <1>4, <1>11 DEF Verdict
  <2>2. WordOn(r)' = Ledger!Bare("unsure")
    BY <2>1 DEF WordOn, Ledger!Bare
  <2> QED
    BY <1>6, <2>2 DEF Words, Ledger!Unpromised, Ledger!Say
<1>12. Told(r)
  BY <1>8, <1>9, <1>10, <1>11
<1> QED
  BY <1>2, <1>7, <1>12 DEF Ledger!Tell, Ledger!dbVars, dbVars

\* The end of the process leaves those it served unsure.
LEMMA RestartRefines ==
    ASSUME IInv, LInv, Restart
    PROVE  Ledger!Crash
<1> USE DEF IInv, LInv
<1> DEFINE lost == {r \in Requests : \E w \in Workers : job[w] = r}
<1>0. \A w \in Workers : job'[w] = NoRequest
  BY DEF Restart
<1>1. ASSUME NEW r \in lost
      PROVE  /\ input[r] # NoInput /\ WordOn(r).verdict = "none"
             /\ WordOn(r)' = Ledger!Bare("unsure")
  <2>1. input[r] # NoInput
    BY NoRequestAssumption DEF WorkerInv
  <2>2. WordOn(r).verdict = "none"
    BY DEF WordOn, Verdict, Given
  <2>3. answer'[r] = [NoAnswer EXCEPT !.code = Lost]
    BY DEF Restart
  <2>4. answer'[r].code = Lost /\ answer'[r].raced = FALSE
    BY <2>3 DEF NoAnswer
  <2>5. Given(r)'
    BY <1>0, <2>4, NoRequestAssumption DEF Given, Lost, Pending
  <2>6. Verdict(r)' = "unsure"
    BY <2>4, <2>5 DEF Verdict, Lost
  <2> QED
    BY <2>1, <2>2, <2>6 DEF WordOn, Ledger!Bare
<1>2. ASSUME NEW r \in Requests \ lost
      PROVE  /\ ~(input[r] # NoInput /\ WordOn(r).verdict = "none")
             /\ WordOn(r)' = WordOn(r)
  <2>1. answer'[r] = answer[r] /\ input'[r] = input[r] /\ (Given(r)' <=> Given(r))
    BY <1>0, NoRequestAssumption DEF Restart, Given
  <2>2. input[r] # NoInput => answer[r].code # Pending
    BY DEF WaitingInv
  <2>3. input[r] # NoInput => Given(r)
    BY <2>2 DEF Given
  <2>4. input[r] # NoInput => WordOn(r).verdict # "none"
    BY <2>3 DEF WordOn, Verdict
  <2> QED
    BY <2>1, <2>4, SameWord
<1>3. Words' = [r \in Requests |-> IF input[r] # NoInput /\ Words[r].verdict = "none"
                                   THEN Ledger!Bare("unsure") ELSE Words[r]]
  BY <1>1, <1>2 DEF Words
<1>4. UNCHANGED <<dbVars, input>>
  BY DEF Restart
<1> QED
  BY <1>3, <1>4 DEF Ledger!Crash, Ledger!dbVars, dbVars, Words

\* A statement is executed while its request has no answer, or one that leaves it open.
LEMMA EffectRefines ==
    ASSUME IInv, NEW r \in Requests, Executes(r), Open(r), UNCHANGED <<input, answer, job>>
    PROVE  Ledger!TakeEffect(r)
<1> USE DEF IInv
<1>1. /\ input[r] # NoInput /\ outcome[r].done = "no" /\ Execute(StatementOf(r, input[r]))
  BY DEF Executes, UnderWay
<1>2. Verdict(r) \in {"none", "unsure", "void"}
  <2>1. CASE ~Given(r)
    BY <2>1 DEF Verdict
  <2>2. CASE answer[r].raced
    BY <2>2 DEF Verdict
  <2>3. CASE Given(r) /\ ~answer[r].raced
    <3>1. answer[r].code \in {200, 201} /\ ~Selects(input[r].op) => FALSE
      BY <1>1, <2>3 DEF AnswerInv, Answered, Acknowledges
    <3>2. ~answer[r].up \/ answer[r].code = Lost
      BY <2>3 DEF Open, Given
    <3> QED
      BY <2>3, <3>1, <3>2 DEF Verdict, Lost
  <2> QED
    BY <2>1, <2>2, <2>3
<1>3. Ledger!Execute(Ledger!StatementOf(r, input[r]))
  BY <1>1, SameExecution
     DEF StatementOf, VerifyJWT, NoToken, HoldsText,
         Ledger!StatementOf, Ledger!VerifyJWT, Ledger!NoToken, Ledger!HoldsText
<1>4. Words' = Words
  BY SameWord DEF Words, Given
<1> QED
  BY <1>1, <1>2, <1>3, <1>4 DEF Ledger!TakeEffect, Words, WordOn

\* Every step of the server is a step of Ledger, or none.
LEMMA StepRefines ==
    ASSUME IInv, LInv, LInv', [Next]_vars
    PROVE  [Ledger!Next]_Ledger!ledgerVars
<1> USE DEF IInv, LInv
<1>1. ASSUME UNCHANGED <<dbVars, input>>, Words' = Words
      PROVE  UNCHANGED Ledger!ledgerVars
  BY <1>1 DEF Ledger!ledgerVars, Ledger!dbVars, dbVars, Words
<1>2. ASSUME NEW w \in Workers, NEW r \in Requests, NEW i \in Inputs, Handle(w, r, i)
      PROVE  Ledger!Next
  BY <1>2, AskRefines DEF Ledger!Next
<1>3. CASE ServerExecute \/ ExecuteLate
  <2>1. PICK r \in Requests : Executes(r) /\ Open(r)
    BY <1>3, HeadExecutes, LateExecutes
  <2>2. UNCHANGED <<input, answer, job>>
    BY <1>3 DEF ServerExecute, ExecuteLate
  <2> QED
    BY <2>1, <2>2, EffectRefines DEF Ledger!Next
<1>4. ASSUME NEW w \in Workers, ReadReply(w) \/ StoreResult(w)
      PROVE  UNCHANGED Ledger!ledgerVars
  <2>1. /\ UNCHANGED <<dbVars, input, job>> /\ job[w] \in Requests
        /\ \A q \in Requests \ {job[w]} : answer'[q] = answer[q]
    BY <1>4, ProgressCases DEF Continues, Ends, InLibrary, WorkerInv, TypeOK
  <2>2. ASSUME NEW q \in Requests
        PROVE  (Given(q)' <=> Given(q)) /\ (Given(q) => answer'[q] = answer[q])
    BY <2>1 DEF Given
  <2> QED
    BY <1>1, <2>1, <2>2, SameWord DEF Words
<1>5. ASSUME NEW w \in Workers, Give(w)
      PROVE  Ledger!Next
  BY <1>5, GiveRefines DEF Ledger!Next
<1>6. CASE Restart
  BY <1>6, RestartRefines DEF Ledger!Next
<1>7. CASE DropLink \/ UNCHANGED vars
  <2>1. UNCHANGED <<dbVars, input, answer, job>>
    BY <1>7 DEF DropLink, vars
  <2> QED
    BY <1>1, <2>1, SameWord DEF Words, Given
<1> QED
  BY <1>2, <1>3, <1>4, <1>5, <1>6, <1>7 DEF Next

\* The server, with its workers, its connection, lost links and restarts,
\* implements the ledger: whatever answer no race made void is that of an
\* effect at one moment before it, and with one worker none is void.
THEOREM Implementation == Spec => ServesAsLedger
<1>1. Init => Ledger!Init
  BY InitRefines
<1>2. (IInv /\ LInv) /\ (IInv /\ LInv)' /\ [Next]_vars => [Ledger!Next]_Ledger!ledgerVars
  BY StepRefines
<1> QED
  BY <1>1, <1>2, Additions, PTL DEF Spec, ServesAsLedger, Ledger!Spec
=============================================================================
