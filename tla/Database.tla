------------------------------ MODULE Database ------------------------------
(***************************************************************************)
(* The MySQL server as src/sql/schema.sql and DBManager::executeMigrations *)
(* leave it: the users table, the four tables of entries, and what the     *)
(* server does with each of the statements that db_manager.cpp sends.      *)
(*                                                                         *)
(* A row is identified by the request whose INSERT made it: AUTO_INCREMENT *)
(* gives every row a number of its own, never used again.  Columns other   *)
(* than the owner are abstracted to whether MySQL takes them; when the     *)
(* request's text makes the INSERT one of several rows, they are one here, *)
(* with several owners.                                                    *)
(***************************************************************************)
EXTENDS Integers, Sequences

CONSTANTS
    Requests,      \* the HTTP requests a behaviour may contain
    NoRequest,     \* none of them
    Accounts,      \* what one may register: records with email, name and pw
    InitialUsers   \* the accounts an earlier life of the system registered

Tables == {"Expenses", "Budgets", "Savings", "Goals"}

\* What a statement does.
Ops == {"insert", "delete", "select", "register", "login"}

Row == [id : Requests, user : Int]

\* The texts of a request that a statement is put together from: "refused" makes one
\* that does not parse, or has a value no column takes (dates, ENUM type, lengths, an
\* existing category); "spliced" has quotes that make it another statement, since
\* nothing escapes them; "good" is the rest.
Texts == {"refused", "spliced", "good"}

\* A statement of DBManager.
Statement == [req : Requests, op : Ops, table : Tables, user : Int,
              account : Accounts, target : Requests \cup {NoRequest}, text : Texts]

\* What the server did of a request: executed it, refused it, or nothing (yet).
\* rows: the rows it selected or deleted; found: the id and password of the first
\* user it looked up, if there is one.
Passwords == {a.pw : a \in Accounts}
Outcome == [done : {"no", "refused", "done"}, rows : SUBSET Requests,
            found : SUBSET [id : Nat, pw : Passwords]]
NotDone == [done |-> "no", rows |-> {}, found |-> {}]

ASSUME NoRequestAssumption == NoRequest \notin Requests

ASSUME AccountsAssumption ==
    \A a \in Accounts : {"email", "name", "pw"} \subseteq DOMAIN a

\* Both columns of the users table that are UNIQUE hold for the users of before.
ASSUME InitialUsersAssumption ==
    /\ InitialUsers \in Seq(Accounts)
    /\ \A i, j \in DOMAIN InitialUsers :
           \/ InitialUsers[i].email = InitialUsers[j].email
           \/ InitialUsers[i].name = InitialUsers[j].name
           => i = j

VARIABLES
    users,    \* table users: the account of user id i is users[i]
    tables,   \* tables[t]: the rows of table t
    outcome   \* outcome[r]: what the server did of request r

dbVars == <<users, tables, outcome>>

DbTypeOK ==
    /\ users \in Seq(Accounts)
    /\ tables \in [Tables -> SUBSET Row]
    /\ outcome \in [Requests -> Outcome]

DbInit ==
    /\ users = InitialUsers
    /\ tables = [t \in Tables |-> {}]
    /\ outcome = [r \in Requests |-> NotDone]

-----------------------------------------------------------------------------

\* SELECT ... FROM table WHERE user_id = user
RowsOf(table, user) == {row.id : row \in {x \in tables[table] : x.user = user}}

\* SELECT id, password_hash FROM users WHERE email = email.  The column is UNIQUE,
\* so there is at most one.
UserOf(email) ==
    {[id |-> u, pw |-> users[u].pw] : u \in {i \in DOMAIN users : users[i].email = email}}

\* The users table refuses an email that is taken, and a display_name that is
\* taken: CHANGE username display_name keeps the index of the UNIQUE column.
Taken(a) == \E i \in DOMAIN users : users[i].email = a.email \/ users[i].name = a.name

\* Only Expenses has a foreign key on users(id).
OwnerExists(s) == s.table = "Expenses" => s.user \in DOMAIN users

\* Whether the server takes a statement that is what it was meant to be.
Accepts(s) ==
    /\ s.text # "refused"
    /\ s.op = "insert" => OwnerExists(s)
    /\ s.op = "register" => ~Taken(s.account)

Spliced(s) == s.text = "spliced"

Record(s, done, rows, found) ==
    outcome' = [outcome EXCEPT ![s.req] = [done |-> done, rows |-> rows, found |-> found]]

RefuseStatement(s) ==
    /\ ~Accepts(s) \/ Spliced(s)
    /\ Record(s, "refused", {}, {})
    /\ UNCHANGED <<users, tables>>

InsertRow(s) ==
    /\ s.op = "insert" /\ Accepts(s)
    /\ tables' = [tables EXCEPT ![s.table] = @ \cup {[id |-> s.req, user |-> s.user]}]
    /\ Record(s, "done", {}, {})
    /\ UNCHANGED users

\* The text ends the row, whose owner stands before it, and adds others.
InsertRowsToo(s) ==
    /\ s.op = "insert" /\ Spliced(s) /\ OwnerExists(s)
    /\ \E owners \in SUBSET DOMAIN users :
           tables' = [tables EXCEPT ![s.table] =
                         @ \cup {[id |-> s.req, user |-> u] : u \in owners \cup {s.user}}]
    /\ Record(s, "done", {}, {})
    /\ UNCHANGED users

\* DELETE FROM Expenses WHERE id = target: whoever owns the row, and with
\* success when there is no such row.
DeleteRows(s) ==
    /\ s.op = "delete"
    /\ LET hit == {x \in tables["Expenses"] : x.id = s.target}
       IN  /\ tables' = [tables EXCEPT !["Expenses"] = @ \ hit]
           /\ Record(s, "done", {x.id : x \in hit}, {})
    /\ UNCHANGED users

\* Mutant: the table's name copied from getExpenses.
SelectExpenses(s) ==
    /\ s.op = "select"
    /\ Record(s, "done", RowsOf("Expenses", s.user), {})
    /\ UNCHANGED <<users, tables>>

SelectRows(s) ==
    /\ s.op = "select"
    /\ Record(s, "done", RowsOf(s.table, s.user), {})
    /\ UNCHANGED <<users, tables>>

InsertUser(s) ==
    /\ s.op = "register" /\ Accepts(s)
    /\ users' = Append(users, s.account)
    /\ Record(s, "done", {}, {})
    /\ UNCHANGED tables

\* The text registers another account, or, with ON DUPLICATE KEY UPDATE, writes over
\* one that is there; the UNIQUE columns stay so.
RewriteUser(s) ==
    /\ s.op = "register" /\ Spliced(s)
    /\ \E a \in Accounts :
           \/ ~Taken(a) /\ users' = Append(users, a)
           \/ \E u \in DOMAIN users :
                 /\ \A v \in DOMAIN users \ {u} : users[v].email # a.email /\ users[v].name # a.name
                 /\ users' = [users EXCEPT ![u] = a]
    /\ Record(s, "done", {}, {})
    /\ UNCHANGED tables

SelectUser(s) ==
    /\ s.op = "login" /\ s.text = "good"
    /\ Record(s, "done", {}, UserOf(s.account.email))
    /\ UNCHANGED <<users, tables>>

\* The text changes the WHERE clause, or adds a row of its own making: of any id (one
\* that nobody has stands for all such), with the hash of any password, or no row.
SelectAnyUser(s) ==
    /\ s.op = "login" /\ Spliced(s)
    /\ \/ Record(s, "done", {}, {})
       \/ \E u \in 1..Len(users) + 1, p \in Passwords :
              Record(s, "done", {}, {[id |-> u, pw |-> p]})
    /\ UNCHANGED <<users, tables>>

\* One statement, committed at once (autocommit).
Execute(s) ==
    \/ RefuseStatement(s)
    \/ InsertRow(s) \/ InsertRowsToo(s)
    \/ DeleteRows(s)
    \/ SelectRows(s)
    \/ InsertUser(s) \/ RewriteUser(s)
    \/ SelectUser(s) \/ SelectAnyUser(s)
=============================================================================
