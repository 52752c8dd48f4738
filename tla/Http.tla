-------------------------------- MODULE Http ---------------------------------
(***************************************************************************)
(* The HTTP requests that the routes of src/src/main.cpp take, and the     *)
(* statement that DBManager makes of each.                                 *)
(***************************************************************************)
EXTENDS Database

CONSTANTS
    Inputs,      \* the HTTP requests the clients may make, see HttpRequest
    NoInput      \* none of them

NoToken == 0

\* "malformed" is not JSON; "incomplete" lacks a field the handler reads; of any
\* other the texts are put into the statement as they are, see Texts of Database.
Bodies == {"malformed", "incomplete"} \cup Texts

\* token is the user it was issued to, NoToken for a missing or foreign one.
\* target is the row a DELETE names; a handler reads the fields it needs.
HttpRequest == [op : Ops, table : Tables, token : Nat, body : Bodies,
                account : Accounts, target : Requests \cup {NoRequest}]

ASSUME InputsAssumption  == Inputs \subseteq HttpRequest /\ NoInput \notin Inputs

\* AuthManager::verifyJWT: -1 unless the signature is right, and then 1.
VerifyJWT(token) == IF token = NoToken THEN -1 ELSE 1

\* Of DBManager's statements only a DELETE and the lists hold no text.
HoldsText(op) == op \in {"insert", "register", "login"}

\* The statement DBManager makes of request i; r is its identity.
StatementOf(r, i) ==
    [req |-> r, op |-> i.op, table |-> i.table, user |-> VerifyJWT(i.token),
     account |-> i.account, target |-> i.target,
     text |-> IF HoldsText(i.op) THEN i.body ELSE "good"]

Selects(op) == op \in {"select", "login"}
=============================================================================
