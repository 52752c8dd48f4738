----------------------------- MODULE MCBackend ------------------------------
(* The inputs of the runs of Backend. *)
EXTENDS Backend, TLC

ann  == [email |-> "a@x", name |-> "Ann", pw |-> "p"]
bob  == [email |-> "b@x", name |-> "Bob", pw |-> "q"]
\* Bob's email with a password that is not his, and another Ann.
bob2 == [email |-> "b@x", name |-> "Bobby", pw |-> "p"]
ann2 == [email |-> "c@x", name |-> "Ann", pw |-> "p"]

MCAccounts == {ann, bob, bob2, ann2}
OneUser    == <<ann>>

Entry(op, table, token, body) ==
    [op |-> op, table |-> table, token |-> token, body |-> body,
     account |-> ann, target |-> NoRequest]

Deletion(token, r) == [Entry("delete", "Expenses", token, "good") EXCEPT !.target = r]

ByAccount(op, body, a) == [Entry(op, "Expenses", NoToken, body) EXCEPT !.account = a]

\* Statements of every kind, and what may become of each, shared out over the
\* tables: the code of their handlers is alike.
Statements ==
    {Entry("insert", "Expenses", 1, b) : b \in Texts}
    \cup {Entry("insert", "Budgets", 1, "good")}
    \cup {Entry("select", t, 1, "good") : t \in {"Expenses", "Savings"}}
    \cup {Deletion(1, r) : r \in Requests}
    \cup {ByAccount("register", "good", a) : a \in {bob, ann2}}
    \cup {ByAccount("login", "good", a) : a \in {bob, bob2}}
    \cup {ByAccount(op, "spliced", bob2) : op \in {"register", "login"}}

\* What the handlers answer without a statement.
Rejections ==
    {Entry("insert", "Expenses", 1, "malformed"), Entry("insert", "Savings", 1, "incomplete"),
     Entry("select", "Budgets", NoToken, "good"),
     ByAccount("register", "incomplete", bob), ByAccount("login", "refused", bob)}

AllPaths == Statements \cup Rejections

\* What handlers may race with: INSERTs, one of which is refused, a list, a login.
RaceInputs ==
    {Entry("insert", "Expenses", 1, "refused"), Entry("insert", "Goals", 1, "good")}
    \cup {Entry("select", "Goals", 1, "good")}
    \cup {ByAccount("login", "good", ann)}

Anyone == Permutations(Requests) \cup Permutations(Workers)
=============================================================================
