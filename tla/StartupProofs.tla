--------------------------- MODULE StartupProofs ----------------------------
(***************************************************************************)
(* A server that has its connection has its schema.  The proof follows one *)
(* process: its link, once lost, does not come back, so whatever it has    *)
(* migrated over a link that is up was executed, or was done before.       *)
(***************************************************************************)
EXTENDS Startup, TLAPS

\* What the statements touch are objects, and there are four and seven of them.
LEMMA Scripts ==
    /\ Len(InitScript) = 4 /\ \A k \in 1..4 : InitScript[k] \subseteq Objects
    /\ Len(Migrations) = 7 /\ \A k \in 1..7 : Migrations[k].adds \subseteq Objects
<1>1. Len(InitScript) = 4 /\ Len(Migrations) = 7
  BY DEF InitScript, Migrations
<1>2. \A k \in 1..4 : InitScript[k] \subseteq Objects
  <2> TAKE k \in 1..4
  <2>1. CASE k = 1
    BY <2>1 DEF InitScript, Objects, Required
  <2>2. CASE k = 2
    BY <2>2 DEF InitScript, Objects
  <2>3. CASE k = 3
    BY <2>3 DEF InitScript, Objects, Required
  <2>4. CASE k = 4
    BY <2>4 DEF InitScript, Objects
  <2> QED
    BY <2>1, <2>2, <2>3, <2>4
<1>3. \A k \in 1..7 : Migrations[k].adds \subseteq Objects
  <2> TAKE k \in 1..7
  <2>1. CASE k = 1
    BY <2>1 DEF Migrations, Objects, Required
  <2>2. CASE k = 2
    BY <2>2 DEF Migrations, Objects, Required
  <2>3. CASE k = 3
    BY <2>3 DEF Migrations, Objects, Required
  <2>4. CASE k = 4
    BY <2>4 DEF Migrations, Objects, Required
  <2>5. CASE k = 5
    BY <2>5 DEF Migrations, Objects, Required
  <2>6. CASE k = 6
    BY <2>6 DEF Migrations, Objects, Required
  <2>7. CASE k = 7
    BY <2>7 DEF Migrations, Objects, Required
  <2> QED
    BY <2>1, <2>2, <2>3, <2>4, <2>5, <2>6, <2>7
<1> QED
  BY <1>1, <1>2, <1>3

\* No migration takes away more than the old name of a column, and that only
\* for the new one.
LEMMA MigrationKeeps ==
    ASSUME TypeOK, Migrate
    PROVE  /\ schema \ {"username"} \subseteq schema'
           /\ "username" \in schema => "username" \in schema' \/ "display_name" \in schema'
<1>1. step \in 1..7
  BY Scripts DEF TypeOK, Migrate
<1>2. \/ Migrations[step].drops = {}
      \/ Migrations[step].drops = {"username"} /\ "display_name" \in Migrations[step].adds
  <2>1. CASE step = 1
    BY <2>1 DEF Migrations
  <2>2. CASE step = 2
    BY <2>2 DEF Migrations
  <2>3. CASE step = 3
    BY <2>3 DEF Migrations
  <2>4. CASE step = 4
    BY <2>4 DEF Migrations
  <2>5. CASE step = 5
    BY <2>5 DEF Migrations
  <2>6. CASE step = 6
    BY <2>6 DEF Migrations
  <2>7. CASE step = 7
    BY <2>7 DEF Migrations
  <2> QED
    BY <1>1, <2>1, <2>2, <2>3, <2>4, <2>5, <2>6, <2>7
<1>3. schema' = schema \/ schema' = (schema \ Migrations[step].drops) \cup Migrations[step].adds
  BY DEF Migrate
<1> QED
  BY <1>2, <1>3

\* The first three statements leave their column behind, whether they find their
\* work done or do it, and the last three their table.
LEMMA MigrationDone ==
    ASSUME TypeOK, LoadedInv, SchemaLoaded, link = "up", Migrate
    PROVE  /\ step = 1 => "display_name" \in schema'
           /\ step = 2 => "email" \in schema'
           /\ step = 3 => "type" \in schema'
           /\ step = 5 => "Budgets" \in schema'
           /\ step = 6 => "Savings" \in schema'
           /\ step = 7 => "Goals" \in schema'
<1> DEFINE m == Migrations[step]
<1>1. /\ {"users", "Expenses"} \subseteq schema
      /\ "username" \in schema \/ "display_name" \in schema
  BY Scripts DEF LoadedInv, SchemaLoaded
<1>2. m.needs \subseteq schema => m.adds \subseteq schema'
  BY DEF Migrate
<1>3. ~(m.needs \subseteq schema) => schema' = schema
  BY DEF Migrate
<1>4. CASE step = 1
  <2>1. m.needs = {"users", "username"} /\ m.adds = {"display_name"}
    BY <1>4 DEF Migrations
  <2> QED
    BY <1>1, <1>2, <1>3, <1>4, <2>1
<1>5. CASE step = 2
  <2>1. m.needs = {"users"} /\ m.adds = {"email"}
    BY <1>5 DEF Migrations
  <2> QED
    BY <1>1, <1>2, <1>5, <2>1
<1>6. CASE step = 3
  <2>1. m.needs = {"Expenses"} /\ m.adds = {"type"}
    BY <1>6 DEF Migrations
  <2> QED
    BY <1>1, <1>2, <1>6, <2>1
<1>7. CASE step = 5
  <2>1. m.needs = {} /\ m.adds = {"Budgets"}
    BY <1>7 DEF Migrations
  <2> QED
    BY <1>2, <1>7, <2>1
<1>8. CASE step = 6
  <2>1. m.needs = {} /\ m.adds = {"Savings"}
    BY <1>8 DEF Migrations
  <2> QED
    BY <1>2, <1>8, <2>1
<1>9. CASE step = 7
  <2>1. m.needs = {} /\ m.adds = {"Goals"}
    BY <1>9 DEF Migrations
  <2> QED
    BY <1>2, <1>9, <2>1
<1> QED
  BY <1>4, <1>5, <1>6, <1>7, <1>8, <1>9

\* schema.sql is run before anything is migrated, and no statement of either makes
\* an icon column, or gives the user's name its old column back.
LEMMA SchemaSteps ==
    ASSUME StartupInv, RunScript \/ Migrate
    PROVE  OldNameInv' /\ IconInv'
<1> USE DEF StartupInv
<1>1. CASE RunScript
  <2>1. script \in 0..3
    BY <1>1, Scripts DEF RunScript, TypeOK
  <2>2. "icon" \notin InitScript[script + 1] /\ "display_name" \notin InitScript[script + 1]
    <3>1. CASE script = 0
      BY <3>1 DEF InitScript
    <3>2. CASE script = 1
      BY <3>2 DEF InitScript
    <3>3. CASE script = 2
      BY <3>3 DEF InitScript
    <3>4. CASE script = 3
      BY <3>4 DEF InitScript
    <3> QED
      BY <2>1, <3>1, <3>2, <3>3, <3>4
  <2>3. schema' = schema \cup InitScript[script + 1] /\ "display_name" \notin schema
    BY <1>1 DEF RunScript, OldNameInv
  <2> QED
    BY <2>2, <2>3 DEF OldNameInv, IconInv
<1>2. CASE Migrate
  <2>1. step \in 1..7 /\ UNCHANGED <<mysql, fresh>>
    BY <1>2, Scripts DEF Migrate, TypeOK
  <2>2. /\ "icon" \notin Migrations[step].adds /\ "username" \notin Migrations[step].adds
        /\ "display_name" \in Migrations[step].adds =>
               Migrations[step].drops = {"username"} /\ "username" \in Migrations[step].needs
    <3>1. CASE step = 1
      BY <3>1 DEF Migrations
    <3>2. CASE step = 2
      BY <3>2 DEF Migrations
    <3>3. CASE step = 3
      BY <3>3 DEF Migrations
    <3>4. CASE step = 4
      BY <3>4 DEF Migrations
    <3>5. CASE step = 5
      BY <3>5 DEF Migrations
    <3>6. CASE step = 6
      BY <3>6 DEF Migrations
    <3>7. CASE step = 7
      BY <3>7 DEF Migrations
    <3> QED
      BY <2>1, <3>1, <3>2, <3>3, <3>4, <3>5, <3>6, <3>7
  <2>3. CASE schema' = schema
    BY <2>1, <2>3 DEF OldNameInv, IconInv
  <2>4. CASE /\ schema' = (schema \ Migrations[step].drops) \cup Migrations[step].adds
             /\ link = "up"
    <3>1. mysql # "initialising"
      BY <2>4 DEF LinkInv
    <3>2. ~fresh
      BY <2>4 DEF LinkInv, FreshInv
    <3> QED
      BY <2>1, <2>2, <2>4, <3>1, <3>2 DEF OldNameInv, IconInv
  <2> QED
    BY <1>2, <2>3, <2>4 DEF Migrate
<1> QED
  BY <1>1, <1>2

\* Once all is there, each migration finds its work done, or cannot begin it.
LEMMA MigrationIdle ==
    ASSUME StartupInv, Required \subseteq schema, Migrate
    PROVE  schema' = schema
<1> DEFINE m == Migrations[step]
<1>1. step \in 1..7
  BY Scripts DEF StartupInv, TypeOK, Migrate
<1>2. "username" \notin schema /\ "icon" \notin schema
  BY DEF StartupInv, OldNameInv, IconInv, Required
<1>3. m.needs \subseteq schema => m.drops = {} /\ m.adds \subseteq Required
  <2>1. CASE step = 1
    BY <1>2, <2>1 DEF Migrations
  <2>2. CASE step = 2
    BY <2>2 DEF Migrations, Required
  <2>3. CASE step = 3
    BY <2>3 DEF Migrations, Required
  <2>4. CASE step = 4
    BY <1>2, <2>4 DEF Migrations
  <2>5. CASE step = 5
    BY <2>5 DEF Migrations, Required
  <2>6. CASE step = 6
    BY <2>6 DEF Migrations, Required
  <2>7. CASE step = 7
    BY <2>7 DEF Migrations, Required
  <2> QED
    BY <1>1, <2>1, <2>2, <2>3, <2>4, <2>5, <2>6, <2>7
<1>4. schema' = schema \/ (m.needs \subseteq schema /\ schema' = (schema \ m.drops) \cup m.adds)
  BY DEF Migrate
<1> HIDE DEF m
<1> QED
  BY <1>3, <1>4

\* Nothing has been started, so nothing is there to be missed.
LEMMA StartupInitInv == Init => StartupInv
BY Scripts DEF Init, StartupInv, TypeOK, LinkInv, ServingInv, LoadedInv, MigratedInv, OldNameInv,
               FreshInv, IconInv, SchemaLoaded

\* Every step of either container keeps the invariant.
LEMMA StartupNextInv ==
    ASSUME StartupInv, [Next]_vars
    PROVE  StartupInv'
<1> USE DEF StartupInv
<1>1. CASE MysqlStarts \/ Initialised \/ MysqlStops \/ LoseLink \/ Healthy \/ ConnectFails
           \/ BackendStops \/ BackendRestarts \/ UNCHANGED vars
  <2>1. TypeOK'
    BY <1>1 DEF TypeOK, MysqlStarts, Initialised, MysqlStops, LoseLink, Healthy, ConnectFails,
                BackendStops, BackendRestarts, vars
  <2>2. /\ UNCHANGED <<schema, script, step>>
        /\ link' = "up" => link = "up"
        /\ backend' = "serving" => backend = "serving"
    BY <1>1 DEF MysqlStarts, Initialised, MysqlStops, LoseLink, Healthy, ConnectFails,
                BackendStops, BackendRestarts, vars
  <2>3. LinkInv'
    BY <1>1 DEF LinkInv, MysqlStarts, Initialised, MysqlStops, LoseLink, Healthy, ConnectFails,
                BackendStops, BackendRestarts, vars
  <2>4. ServingInv' /\ LoadedInv' /\ MigratedInv'
    BY <2>2 DEF ServingInv, LoadedInv, MigratedInv, SchemaLoaded
  <2>5. OldNameInv' /\ IconInv' /\ FreshInv'
    BY <1>1, <2>2 DEF OldNameInv, IconInv, FreshInv, MysqlStarts, Initialised, MysqlStops, LoseLink,
                      Healthy, ConnectFails, BackendStops, BackendRestarts, vars
  <2> QED
    BY <2>1, <2>3, <2>4, <2>5
<1>2. CASE RunScript
  <2>1. script \in 0..3 /\ script + 1 \in 1..4 /\ link # "up" /\ link' = link
    BY <1>2, Scripts DEF RunScript, TypeOK, LinkInv
  <2>2. TypeOK'
    BY <1>2, <2>1, Scripts DEF RunScript, TypeOK
  <2>3. ServingInv' /\ LinkInv' /\ MigratedInv'
    BY <1>2, <2>1 DEF RunScript, ServingInv, LinkInv, MigratedInv
  <2>4. LoadedInv'
    <3>1. schema \subseteq schema' /\ InitScript[script + 1] \subseteq schema' /\ script' = script + 1
      BY <1>2 DEF RunScript
    <3>2. script = 0 => {"users", "username"} \subseteq schema'
      BY <3>1 DEF InitScript
    <3>3. script = 1 => "Categories" \in schema'
      BY <3>1 DEF InitScript
    <3>4. script = 2 => "Expenses" \in schema'
      BY <3>1 DEF InitScript
    <3> QED
      BY <2>1, <3>1, <3>2, <3>3, <3>4 DEF LoadedInv
  <2>5. OldNameInv' /\ IconInv' /\ FreshInv'
    BY <1>2, SchemaSteps DEF FreshInv, RunScript
  <2> QED
    BY <2>2, <2>3, <2>4, <2>5
<1>3. CASE Connect
  BY <1>3 DEF Connect, TypeOK, LinkInv, ServingInv, LoadedInv, MigratedInv, OldNameInv, IconInv,
              FreshInv, SchemaLoaded
<1>4. CASE Migrate
  <2>1. step \in 1..7 /\ step' = step + 1 /\ UNCHANGED <<mysql, fresh, script, backend, link>>
        /\ backend = "migrating"
    BY <1>4, Scripts DEF Migrate, TypeOK
  <2>2. schema' \subseteq Objects
    BY <1>4, <2>1, Scripts DEF Migrate, TypeOK
  <2>3. TypeOK' /\ LinkInv' /\ ServingInv'
    BY <2>1, <2>2 DEF TypeOK, LinkInv, ServingInv
  <2>4. LoadedInv'
    BY <1>4, <2>1, MigrationKeeps DEF LoadedInv, SchemaLoaded
  <2>5. ASSUME link = "up", SchemaLoaded
        PROVE  MigratedInv'
    BY <1>4, <2>1, <2>5, MigrationKeeps, MigrationDone DEF MigratedInv
  <2>6. MigratedInv'
    BY <2>1, <2>5 DEF MigratedInv, SchemaLoaded
  <2>7. OldNameInv' /\ IconInv' /\ FreshInv'
    BY <1>4, <2>1, SchemaSteps DEF FreshInv
  <2> QED
    BY <2>3, <2>4, <2>6, <2>7
<1>5. CASE Serve
  BY <1>5, Scripts DEF Serve, TypeOK, LinkInv, ServingInv, LoadedInv, MigratedInv, OldNameInv, IconInv,
                       FreshInv, SchemaLoaded
<1> QED
  BY <1>1, <1>2, <1>3, <1>4, <1>5 DEF Next

\* The invariant behind ServesWhatItNeeds holds through any stops and restarts.
THEOREM StartupInvariance == Spec => []StartupInv
<1>1. StartupInv /\ [Next]_vars => StartupInv'
  BY StartupNextInv
<1> QED
  BY <1>1, StartupInitInv, PTL DEF Spec

\* A server with a connection has every table and column it names, whatever
\* became of the processes before it.
THEOREM SchemaComplete == Spec => []ServesWhatItNeeds
<1>1. StartupInv => ServesWhatItNeeds
  BY Scripts DEF StartupInv, ServingInv, LoadedInv, MigratedInv, ServesWhatItNeeds, Required, SchemaLoaded
<1> QED
  BY <1>1, StartupInvariance, PTL

\* Later starts find their migrations done, and what ends them undoes nothing
\* (db_manager.cpp:23-44: each failure is "safe to ignore").
THEOREM MigrationsAreRepeatable == Spec => LaterStartsChangeNothing
<1>1. StartupInv /\ [Next]_vars => [SchemaLoaded /\ Required \subseteq schema => UNCHANGED schema]_vars
  <2> SUFFICES ASSUME StartupInv, [Next]_vars, SchemaLoaded, Required \subseteq schema
               PROVE  UNCHANGED schema
    OBVIOUS
  <2>1. CASE Migrate
    BY <2>1, MigrationIdle
  <2>2. CASE RunScript
    BY <2>2 DEF RunScript, SchemaLoaded
  <2> QED
    BY <2>1, <2>2 DEF Next, MysqlStarts, Initialised, MysqlStops, LoseLink, Healthy, Connect,
                      ConnectFails, Serve, BackendStops, BackendRestarts, vars
<1> QED
  BY <1>1, StartupInvariance, PTL DEF Spec, LaterStartsChangeNothing
=============================================================================
