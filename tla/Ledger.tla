------------------------------- MODULE Ledger --------------------------------
(***************************************************************************)
(* What the REST API promises, without threads, handlers or a connection:  *)
(* a request takes effect once and in one piece, or never; it does so      *)
(* before its answer; and the answer is that of its effect, or says that   *)
(* nothing is known of it.  The requests of all clients thus have one      *)
(* order, in which each finds what those before it have left.              *)
(***************************************************************************)
EXTENDS Http

CONSTANT MayRace    \* some handlers may use the connection at once

\* The word of the API on a request: it was done, it was not and will not be;
\* it may have been or may yet be (the link was lost on the way, or the process
\* ended); or nothing at all (handlers raced).  rows and user are what came with "done".
Verdicts == {"none", "done", "refused", "unsure", "void"}
Word == [verdict : Verdicts, rows : SUBSET Requests, user : Nat]
Bare(verdict) == [verdict |-> verdict, rows |-> {}, user |-> 0]

VARIABLES
    request,   \* request[r]: what r asks for, or NoInput
    reply      \* reply[r]: what was said of it

ledgerVars == <<dbVars, request, reply>>

Init ==
    /\ DbInit
    /\ request = [r \in Requests |-> NoInput]
    /\ reply = [r \in Requests |-> Bare("none")]

Say(r, word) == reply' = [reply EXCEPT ![r] = word]

WordsAtOnce == {"none", "refused", "unsure"} \cup IF MayRace THEN {"void"} ELSE {}

\* A request is made, and may be turned away on the spot.
Ask(r, i) ==
    /\ request[r] = NoInput
    /\ request' = [request EXCEPT ![r] = i]
    /\ \E verdict \in WordsAtOnce : Say(r, Bare(verdict))
    /\ UNCHANGED dbVars

\* It takes effect, in one piece; after its answer only if that left it open.
TakeEffect(r) ==
    /\ request[r] # NoInput
    /\ outcome[r].done = "no"
    /\ reply[r].verdict \in {"none", "unsure", "void"}
    /\ Execute(StatementOf(r, request[r]))
    /\ UNCHANGED <<request, reply>>

\* A login found a user, and that user's password was given.
Recognised(r, f) == f \in outcome[r].found /\ f.pw = request[r].account.pw

Grant(r, rows, user) == Say(r, [verdict |-> "done", rows |-> rows, user |-> user])

Granted(r) ==
    /\ outcome[r].done = "done"
    /\ CASE request[r].op = "login"  -> \E f \in outcome[r].found :
                                           Recognised(r, f) /\ Grant(r, {}, f.id)
         [] request[r].op = "select" -> Grant(r, outcome[r].rows, 0)
         [] request[r].op \in Ops \ {"login", "select"} -> Grant(r, {}, 0)

Refused(r) ==
    /\ \/ outcome[r].done # "done"
       \/ request[r].op = "login" /\ ~ \E f \in outcome[r].found : Recognised(r, f)
    /\ Say(r, Bare("refused"))

Unpromised(r) ==
    \/ Say(r, Bare("unsure"))
    \/ MayRace /\ Say(r, Bare("void"))

Tell(r) ==
    /\ request[r] # NoInput
    /\ reply[r].verdict = "none"
    /\ Granted(r) \/ Refused(r) \/ Unpromised(r)
    /\ UNCHANGED <<dbVars, request>>

\* The process ends, and with it all the answers it owed.
Crash ==
    /\ reply' = [r \in Requests |-> IF request[r] # NoInput /\ reply[r].verdict = "none"
                                   THEN Bare("unsure") ELSE reply[r]]
    /\ UNCHANGED <<dbVars, request>>

Next ==
    \/ \E r \in Requests :
          \/ \E i \in Inputs : Ask(r, i)
          \/ TakeEffect(r)
          \/ Tell(r)
    \/ Crash

Spec == Init /\ [][Next]_ledgerVars
=============================================================================
