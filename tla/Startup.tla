------------------------------ MODULE Startup -------------------------------
(***************************************************************************)
(* From "docker compose up" to a backend that serves, and every restart    *)
(* after it: the MySQL container that runs src/sql/schema.sql once, on an  *)
(* empty volume; the backend that waits for its health check, connects,    *)
(* and runs the migrations of DBManager::executeMigrations, whose errors   *)
(* nobody looks at.  Where this ends, "serving" over a link that is up,    *)
(* Backend begins.                                                         *)
(***************************************************************************)
EXTENDS Integers, Sequences

\* What the statements of src/sql/schema.sql create, one after the other.
InitScript == << {"users", "username"}, {"Categories"}, {"Expenses"}, {"eight categories"} >>

\* The statements of executeMigrations: what each must find, what it takes away
\* and what it puts there.  One that finds its work done fails, or does nothing.
\* No statement ever gives Categories the icon column that the fourth needs.
Migrations == <<
    [needs |-> {"users", "username"},  drops |-> {"username"}, adds |-> {"display_name"}],
    [needs |-> {"users"},              drops |-> {},           adds |-> {"email"}],
    [needs |-> {"Expenses"},           drops |-> {},           adds |-> {"type"}],
    [needs |-> {"Categories", "icon"}, drops |-> {},           adds |-> {"ten categories"}],
    [needs |-> {},                     drops |-> {},           adds |-> {"Budgets"}],
    [needs |-> {},                     drops |-> {},           adds |-> {"Savings"}],
    [needs |-> {},                     drops |-> {},           adds |-> {"Goals"}] >>

\* The tables and columns that the statements of the running server name.
Required == {"users", "display_name", "email", "Expenses", "type", "Budgets", "Savings", "Goals"}

Objects == Required \cup {"username", "Categories", "icon", "eight categories", "ten categories"}

VARIABLES
    mysql,     \* the server: "stopped", "initialising" or "up"
    fresh,     \* the volume is empty
    script,    \* how much of schema.sql has been run on the volume
    schema,    \* what there is in the database
    backend,   \* "created", "starting", "migrating", "serving" or "exited"
    step,      \* the next migration of this process
    link       \* its connection: "none", "up" or "down"

vars == <<mysql, fresh, script, schema, backend, step, link>>

TypeOK ==
    /\ mysql \in {"stopped", "initialising", "up"}
    /\ fresh \in BOOLEAN
    /\ script \in 0..4
    /\ schema \subseteq Objects
    /\ backend \in {"created", "starting", "migrating", "serving", "exited"}
    /\ step \in 1..8
    /\ link \in {"none", "up", "down"}

Init ==
    /\ mysql = "stopped" /\ fresh = TRUE
    /\ script = 0 /\ schema = {}
    /\ backend = "created" /\ step = 1 /\ link = "none"

-----------------------------------------------------------------------------
(* The db container *)

\* Mutant: no volume is mounted.
MysqlStartsEmpty ==
    /\ mysql = "stopped"
    /\ mysql' = "initialising"
    /\ fresh' = FALSE /\ script' = 0 /\ schema' = {}
    /\ UNCHANGED <<backend, step, link>>

\* Its entry point initialises an empty volume, and leaves any other as it is.
MysqlStarts ==
    /\ mysql = "stopped"
    /\ mysql' = IF fresh THEN "initialising" ELSE "up"
    /\ fresh' = FALSE
    /\ UNCHANGED <<script, schema, backend, step, link>>

RunScript ==
    /\ mysql = "initialising" /\ script < Len(InitScript)
    /\ script' = script + 1
    /\ schema' = schema \cup InitScript[script + 1]
    /\ UNCHANGED <<mysql, fresh, backend, step, link>>

\* Only then does the server listen on its port.
Initialised ==
    /\ mysql = "initialising" /\ script = Len(InitScript)
    /\ mysql' = "up"
    /\ UNCHANGED <<fresh, script, schema, backend, step, link>>

\* The server stops, at any time; restart: always starts it again.
MysqlStops ==
    /\ mysql # "stopped"
    /\ mysql' = "stopped"
    /\ link' = IF link = "up" THEN "down" ELSE link
    /\ UNCHANGED <<fresh, script, schema, backend, step>>

\* wait_timeout, or the network.
LoseLink ==
    /\ link = "up"
    /\ link' = "down"
    /\ UNCHANGED <<mysql, fresh, script, schema, backend, step>>

-----------------------------------------------------------------------------
(* The backend container *)

\* mysqladmin ping -h localhost goes over the socket, which the server that
\* runs schema.sql answers, too.
Healthy ==
    /\ backend = "created" /\ mysql # "stopped"
    /\ backend' = "starting"
    /\ UNCHANGED <<mysql, fresh, script, schema, step, link>>

\* Mutant: each migration is attempted once, as a version number would have it.
ConnectResumes ==
    /\ backend = "starting" /\ mysql = "up"
    /\ backend' = "migrating" /\ link' = "up"
    /\ UNCHANGED <<mysql, fresh, script, schema, step>>

Connect ==
    /\ backend = "starting" /\ mysql = "up"
    /\ backend' = "migrating" /\ step' = 1 /\ link' = "up"
    /\ UNCHANGED <<mysql, fresh, script, schema>>

\* main returns 1.
ConnectFails ==
    /\ backend = "starting" /\ mysql # "up"
    /\ backend' = "exited"
    /\ UNCHANGED <<mysql, fresh, script, schema, step, link>>

\* The next statement: executed, refused, or not sent at all.  Nobody looks.
Migrate ==
    /\ backend = "migrating" /\ step <= Len(Migrations)
    /\ LET m == Migrations[step]
       IN  schema' = IF link = "up" /\ m.needs \subseteq schema
                     THEN (schema \ m.drops) \cup m.adds
                     ELSE schema
    /\ step' = step + 1
    /\ UNCHANGED <<mysql, fresh, script, backend, link>>

Serve ==
    /\ backend = "migrating" /\ step > Len(Migrations)
    /\ backend' = "serving"
    /\ UNCHANGED <<mysql, fresh, script, schema, step, link>>

\* The process ends, at any time.
BackendStops ==
    /\ backend \in {"starting", "migrating", "serving"}
    /\ backend' = "exited" /\ link' = "none"
    /\ UNCHANGED <<mysql, fresh, script, schema, step>>

\* Mutant: restart: on-failure, which gives up a process that ended well.
RestartNever ==
    /\ backend = "exited" /\ FALSE
    /\ UNCHANGED vars

\* restart: always, without another look at the health check.
BackendRestarts ==
    /\ backend = "exited"
    /\ backend' = "starting"
    /\ UNCHANGED <<mysql, fresh, script, schema, step, link>>

-----------------------------------------------------------------------------

Next ==
    \/ MysqlStarts \/ RunScript \/ Initialised \/ MysqlStops \/ LoseLink
    \/ Healthy \/ Connect \/ ConnectFails \/ Migrate \/ Serve
    \/ BackendStops \/ BackendRestarts

Spec == Init /\ [][Next]_vars

\* Docker keeps both containers running, and both processes run.
Fairness ==
    /\ WF_vars(MysqlStarts) /\ WF_vars(RunScript) /\ WF_vars(Initialised)
    /\ WF_vars(Healthy) /\ WF_vars(BackendRestarts)
    /\ WF_vars(Connect) /\ WF_vars(ConnectFails)
    /\ WF_vars(Migrate) /\ WF_vars(Serve)

FairSpec == Spec /\ Fairness

-----------------------------------------------------------------------------

\* schema.sql has been run to its end: a server stopped before will never run
\* the rest.
SchemaLoaded == script = Len(InitScript)

\* A server that has its connection has every table and column it will name,
\* however many processes before it were stopped in the midst of migrating:
\* the errors that executeMigrations ignores were harmless, or the link is gone.
ServesWhatItNeeds ==
    backend = "serving" /\ link = "up" /\ SchemaLoaded => Required \subseteq schema

\* Every start runs all migrations again (db_manager.cpp:23-44), over tables that are
\* in use: once the schema is complete, no statement of a later process, and no
\* restart of either container, changes it.
LaterStartsChangeNothing == [][SchemaLoaded /\ Required \subseteq schema => UNCHANGED schema]_vars

\* Once MySQL stays up and the process is not stopped again and again, it gets
\* to serve: the health check that passes too early costs some restarts only.
ServesInTheEnd ==
    <>[](mysql = "up") => \/ []<><<BackendStops>>_vars
                          \/ <>[](backend = "serving")

\* The parts of the inductive invariant.
LinkInv == link = "up" => mysql = "up" /\ backend \in {"migrating", "serving"}

ServingInv == backend = "serving" => step = 8

\* What schema.sql made is there, the name of the user under either name.
LoadedInv ==
    /\ script > 0 => "users" \in schema /\ ("username" \in schema \/ "display_name" \in schema)
    /\ script > 1 => "Categories" \in schema
    /\ script > 2 => "Expenses" \in schema

\* What a process has migrated with its link up is done.
MigratedInv ==
    link = "up" /\ SchemaLoaded =>
        /\ step > 1 => "display_name" \in schema
        /\ step > 2 => "email" \in schema
        /\ step > 3 => "type" \in schema
        /\ step > 5 => "Budgets" \in schema
        /\ step > 6 => "Savings" \in schema
        /\ step > 7 => "Goals" \in schema

\* Nothing is migrated before schema.sql has ended or been given up, and the old
\* name of the user does not come back.
OldNameInv ==
    "display_name" \in schema => "username" \notin schema /\ mysql # "initialising" /\ ~fresh

\* A server that runs, or initialises, has a volume that is not empty.
FreshInv == fresh => mysql = "stopped"

\* The INSERT of db_manager.cpp:36 never succeeds: nothing makes the column it names.
IconInv == "icon" \notin schema

StartupInv ==
    TypeOK /\ LinkInv /\ ServingInv /\ LoadedInv /\ MigratedInv /\ OldNameInv /\ FreshInv /\ IconInv
=============================================================================
