# A formal model of the Expensify expense tracker

TLA+ modules of the program under `src/`, TLC runs of them, and TLAPS proofs.
Paths below are relative to `src/` unless they name a module of this directory.

## 1. The system

### Components

| Component | Source | State it keeps | Operations |
|---|---|---|---|
| REST handlers | `src/main.cpp` | none of their own; one global `DBManager db` (line 20) shared by every worker thread | register, login; add, list and delete expenses; add and list budgets, savings, goals |
| Authentication | `src/auth_manager.cpp`, `.h` | none (the key is a constant) | `hashPassword`, `verifyPassword`, `generateJWT`, `verifyJWT` |
| Database manager | `src/db/db_manager.cpp`, `.h` | one `MYSQL* conn`, no mutex, no reconnect option | `connect`, `executeMigrations`, one method per statement |
| Schema | `sql/schema.sql` and the migrations | users, Categories, Expenses, Budgets, Savings, Goals | run by the MySQL server |
| Server loop (Crow, vendored) | `include/Crow/include/crow/http_server.h`, `app.h`, `routing.h` | one `io_context` and one thread per worker | runs each handler to its end on its worker; an exception becomes a 500 |
| MySQL server, libmariadb | external | the status of the connection, the packets on it | `mysql_query`, `mysql_store_result`, ... |
| Deployment | `docker-compose.yml`, `Dockerfile` | containers, a volume | health check, `restart: always` |
| Dashboard page | `frontend/src/pages/Dashboard.jsx` | the list, savings, two dialogs, `pendingDeleteId`, the toast | fetch, add, delete, statistics |
| Transactions page | `frontend/src/pages/Transactions.jsx` | the list, `selectedIds`, filter, dialog | fetch, select, delete one or a selection |
| Budgets, Savings, Goals pages | `frontend/src/pages/` | lists, forms | fetch (budgets: two lists at once), add, totals |
| Session in the browser | `Login.jsx`, `Register.jsx`, `Sidebar.jsx` | `localStorage`: token, username | log in, register, log out |
| Settings page | `Settings.jsx` | theme, currency, language, display name; `localStorage` | choose, save |
| Home, App, styling | `Home.jsx`, `App.jsx`, `index.css` | none | routing, layout |

### How they interact

A page calls `fetch('/api/...')`; nginx passes the call on; Crow gives it to a
worker, which runs the handler to its end. A handler calls one method of the
global `db`; the method sends one statement with `mysql_query`, waits for the
reply, and, for a SELECT, reads the rows with `mysql_store_result`. Every
statement is its own transaction (autocommit). The handlers of all workers use
the *one* connection, and nothing keeps them from doing so at the same time; nor
need two of them meet in it for one to be served while another still goes
through the rows it has read. What a client sends goes into the text of the
statement as it is: nothing escapes it.
The page then goes on after its `await`, in whatever order the answers come.

### What is hard

* **Interleaving** of handlers on the unprotected connection; of continuations
  in a page.
* **Failure**: a link to MySQL that is lost is never opened again by the same
  process, and MySQL may still execute what was sent over it; a handler's `false` does not tell "refused" from "perhaps done"; the
  errors of the migrations are dropped.
* **Crashes and restarts** of either container, between any two steps.
* **Order**: a health check that passes before the server listens; lists that
  arrive in another order than they were asked for.
* **What a page leaves behind**: calls and timers that end when the user is
  elsewhere, over a `localStorage` that all tabs share.
* **Texts** with quotes, which make another statement than the one meant.
* **Numbers and time**: sums over months, categories numbered in two ways, days
  counted from midnight in Greenwich, figures remembered past their time.

What makes each component correct: answers agree with the database (handlers);
the connection is ready after each handler (database manager); a serving
process has its schema (start-up); a page deletes what was confirmed, says
what is so, and shows what the server holds (dashboard, transactions), for the
account it enters into (session); its figures agree with one another and with
the entries (statistics).

## 2. The modules

```
Http, Database <- Connection <- Backend <- MCBackend   (runs one, two, ack, taken)
          ^                        | ^---- BackendProofs <- LedgerProofs
          +-- Ledger <- INSTANCE --+
Startup  <- StartupProofs                              (run boot)
Api <- Dashboard    <- DashboardProofs                 (runs page, removed)
 |        ^--- INSTANCE --- Removal
 +---- Transactions <- TransactionsProofs              (runs selection, deleted)
Session  <- SessionProofs                              (run session)
Statistics <- StatisticsProofs -> Sums                 (runs statistics, spent)
```

**Http** is what a request carries (the token, whether its body parses and has
its fields, what its texts do to a statement, the account or the row it names),
`VerifyJWT`, and the statement a route makes of it. **Ledger** is the promise of
the API in terms of requests and answers alone: a request is asked, takes effect
on the database at one moment or never, and what is said of it is that it was
"done", that it was "refused" and will not be done, that nobody knows ("unsure":
the link was lost, or the process ended), or nothing at all ("void": handlers
raced). Only what is said to be unsure or void may take effect afterwards.
`ServesAsLedger` in `Backend` is `Ledger` with that reading of each answer
(`WordOn`); "void" is possible only with more than one worker.

**Database** is the MySQL server after the migrations: `users`, `tables`, and
`outcome[r]`, what it did of the statement of request `r`, with the rows it
selected or deleted and the user a login found. One action per kind of
statement: a refused one, `InsertRow`, `DeleteRows`, `SelectRows`, `InsertUser`,
`SelectUser`; and one for what each of the three that hold a text becomes when
the text is "spliced", for nothing escapes it (`db_manager.cpp:48`, `:57`,
`:75`): `InsertRowsToo` adds rows for other users, `RewriteUser` registers
another account or writes over one that is there, `SelectAnyUser` finds whatever
user and password the text makes up; or it is refused. `Accepts` holds the
unique and foreign keys; the unique `display_name` is there because
`ALTER TABLE ... CHANGE` keeps the index of the renamed column.

**Connection** is the `MYSQL` handle as `db_manager.cpp` uses it: the socket
(`link`), the library's `status` and `fields`, the statements `sent` and the
packets of the `stream`. When the link is lost (`LoseLink`), or a new process
opens its own (`Reconnected`), the statements sent become `late`: MySQL may
execute them at any time after, or never. Any prefix of the packets it has
written may still arrive.

**Backend** is `main.cpp` over both. A handler is four steps at most, since
between them other workers run:

| Action | Code |
|---|---|
| `AddExpense`, `GetBudgets`, `Login`, ... | from the route to inside `mysql_query`; the early returns (401, 400, a field that throws: 500) and a library that refuses to send end the handler here |
| `ReadReply` | `mysql_query` has its reply, an error, or a link that is gone; all but a SELECT leave the library here |
| `StoreResult` | `mysql_store_result` takes the rows off the connection; what the answer will be is settled, an exception of `std::stoi` as a 500 |
| `Give` | the loop over the rows and the JSON are done, and the client has its answer (`main.cpp:113-127`); a login's token is known from here on |
| `ServerExecute` | the server executes the next statement |
| `ExecuteLate` | it executes one of a lost connection |
| `DropLink`, `Restart` | the link is lost; the process ends and docker starts the next one |

`known[r]` records, for a list or login `r`, what had been acknowledged when it
was asked for; the code has nothing like it.

When two handlers are inside the library at once (`Query` with another worker
`InLibrary`) that is a data race, and `raced` stays set for the life of the
process. A worker that has stored its rows is no longer inside: the result is
its own. After a race a worker takes whatever packet is next, may find it
damaged (`ReadGarbled`), or reads no rows where there are some
(`StoreForeign`). The race may also end the process: that is `Restart`.

**Startup** goes from `docker compose up` to a serving process, and through
every stop and restart of the two containers: the entry point of the image that
runs `schema.sql` on an empty volume only, the health check, `connect` (whose
failure ends `main`), the seven statements of `executeMigrations` one by one.
`schema` is the set of tables and columns that exist. What `Backend` begins
with, a connection over a whole schema, is the last state here.

**Api** is the backend as a page sees it: calls under way, and the rows. It gives
the answers that `Backend` gives when no handlers raced, those on a lost link
included: an empty list with 200, an error although the row was stored.
**Dashboard** is one visit to `Dashboard.jsx` over it: each button's handler up
to its `await`, and what follows each answer. `subject` and `confirmed` record
what the user meant: the row whose bin opened the dialog, and the rows
"Delete it" was said of. **Transactions** is one visit to `Transactions.jsx`
over the same `Api`: boxes, filter, the dialog for one row or a selection, and
`waiting`, the runs of `executeDelete` that have not ended. Each run keeps the
selection it will set (`kept`), since the closure of the click that began it
does. The dialog stays open meanwhile, so that it may be confirmed twice.
`meant`, `late` and `agreed` record what the user did, and are set by clicks
alone: the rows checked and not unchecked since, those unchecked while a deletion
ran, and the rows "Delete" was said of. The end of a deletion may check the
`late` ones again, and nothing else (`SelectionInv`).

**Removal** is what the dashboard promises with its bins, of rows and consent
alone: a row is entered once, under an id that none had before, it goes alone,
after the user agreed to it, and never comes back. What was agreed to is
`confirmed`. The page of transactions enters nothing, so that `OnlyMeantIsDeleted`
says there what the refinement would.

**Session** is the browser over all pages: `token` and `username` in
`localStorage`, the page of each tab, and the lists, logins and timers under way.
React drops what would set the state of a page that is gone (`mounted`), but
runs the rest of a continuation: `navigate`, `localStorage`. The dashboard uses
the token it was drawn with (`seen`), the other pages the one in storage.
`foreign` and `mixed` mark what another tab has made stale.

**Statistics** is what the pages compute of their lists, as operators over the
entries, the clock, the viewer's distance from Greenwich, and the time at which
`useMemo` ran last (`memo`); `picked` remembers the category's name that the
user chose.

### What is abstracted

* A row's `AUTO_INCREMENT` id is the identity of the request that made it (in
  `Api`, an id never given before). Gaps in the user ids are left out.
* Columns other than the owner are abstracted to what MySQL makes of the texts:
  "refused" stands for dates, lengths, ENUM values, and quotes that do not parse.
  Emails and display names are equal when MySQL's collation says so.
* Of spliced texts, the effect: one statement of the same kind as the one meant,
  since the connection does not take several. The rows one INSERT adds share one
  identity; a registration writes one account; what a text may select, for a row or
  for a login, is any value, so that it is not told where it came from. A DELETE and
  the lists hold no text.
* A token is the user it was issued to; a missing one, or one whose signature
  does not fit, is `NoToken`. The code never looks at its age.
* Statements of lost connections have no order among them. A link that is lost
  without a sign to the client, so that it waits for TCP to give up, and a server
  that is silent on a link that is there, are not modelled.
* `Restart` takes MySQL to be there at once; when it is not is `Startup`'s
  subject.
* In `Dashboard` and `Transactions`, what the server does after the page was
  left is left out. One page and one user change the rows, whom other tabs may
  log out. An open dialog covers the rest of the page.
* In `Dashboard`, the fields of the form and the sum of the savings are left
  out. In `Transactions`, any response to a deletion is the same to the code, so
  that "failed" stands for 401, too; the one message it shows is not kept.
* In `Session`, a token is the account it was issued to (`Backend` says what the
  server makes of it); Home and Register count as "login", the four pages that
  fetch in the same way as "entries". A name typed into Settings is its user's.
* In `Statistics`, amounts are whole cents and the months equally long; the
  program adds floating-point numbers.

## 3. What is checked

| Run | Shows | Bounds |
|---|---|---|
| `one` | One worker, every path of every handler, with texts that change their statement: `TypeOK`, `AckedIsStored`, `RefusedLeavesNoTrace`, `ListKeepsUp`, `LoginIsExact`; the refinement `ServesAsLedger`; `EveryRequestAnswered` | 2 requests, 4 accounts that share emails, names and passwords |
| `two` | Two workers, one of them served while the other makes its answer, or racing: lists may be stale when given, and keep up with what was acknowledged before (`ListKeepsUp`); `AckedIsStored` of answers given before a race; `ConnectionIsReleased`; `NobodyWaitsInVain`; `BlockedUntilRestart`, of any; `IInv`; `ServesAsLedger` | 3 requests: INSERTs, one of them refused, a list, a login |
| `boot` | `StartupInv`, `ServesWhatItNeeds`, `ServesInTheEnd`; no start after the first complete one changes the schema (`LaterStartsChangeNothing`) | none: the model is finite |
| `page` | `DashboardInv`, `OnlyConfirmedIsDeleted`, `RemovedMeansGone`, `DeletionIsShown`, the refinement `ImplementsRemoval` | 2 rows, 2 calls at once |
| `selection` | `TransactionsInv`, `OnlyMeantIsDeleted`, `AllOkMeansGone` | 2 rows, one an income, 2 calls at once |
| `session` | `SessionInv`, `PageIsOfItsAccount`, `SignedIn`, `NameIsOfItsAccount` | 2 tabs, 2 accounts, 3 calls and timers at once |
| `statistics` | `TypeOK`, `PieIsExpense`, `ChartIsOfItsMonths`, `DaysLeftCounts` | 2 entries of 2 amounts and 3 categories; dates before, in, at the end of and after the chart; 3 days |
| `ack` | violated: 201 for a row that MySQL refused, when handlers race | 2 requests, 2 workers |
| `taken` | violated: "Email might already exist" of an email that nobody has, for the display name is taken | as `one` |
| `removed` | violated: an older list brings a removed row back for good | as `page` |
| `deleted` | violated: "Transaction(s) deleted" of rows that are there | as `selection` |
| `spent` | violated: a budget measures another category | as `statistics` |

**The bounds.** Three requests are one that leaves something behind (a row, a
half-read result, a lost link), one that meets it, and one more that another
worker runs meanwhile; two workers are what a race takes, and without one two
requests do: the first leaves something behind, the second meets it. The tables
share their code, so that the inputs share the paths out over them. Two rows and
two calls are what it takes for one deletion's end to meet another's dialog, one
list another, or the failure of half a selection its other half. Two tabs are
one that changes `localStorage` and one that does not know; of three calls, one
may be left over from each of two accounts, with one of the page at hand. Two
entries are in the same or in different months, categories and kinds. Requests,
and workers, are interchangeable, hence the symmetry in the runs without
liveness. The runs in which TLC does not look for deadlocks are those that may
really stop: a page that is left, all requests made, a clock at its bound.

**Fairness.** `Backend`: the threads that run handlers are scheduled, and the
server serves its connections; nothing makes clients ask, links fail or
processes restart, nor the statements of a lost connection arrive. `EveryRequestAnswered` is claimed for one worker: with two,
a handler whose reply another has read may wait for as long as the link lasts.
`Startup`: docker keeps both containers running (`restart: always`), and the
processes run. `ServesInTheEnd` excepts the case that the backend is stopped
again and again. `Dashboard`: every call comes back (nginx ends those that take
too long), and the browser goes on after it; the user need not do anything.
`Transactions`, `Session` and `Statistics` claim no liveness and have no fairness:
a deletion of which one call fails is not announced at all, and of a dialog that
stays open the user is the only way out.

## 4. What is proved

For every value of the constants that meets the modules' `ASSUME`s: no input is a
request not made, an account has an email, a name and a password, users of before differ in emails and names, null is no row, an
account is not "nobody", an income is a row; amounts are integers, dates and days
naturals, the options those of the form, a month has a day at least, and the first
day of the clock is not after its last. No theorem needs a set of rows, requests, workers,
tabs or calls to be finite or not empty.

**BackendProofs.** `IInv` is inductive (`InitInv`, `NextInv`). `AckedIsStored`
alone is not: it must be known that a 201 was given for a statement that was
executed (`AnswerInv`), so that the reply a handler read was the one to its own
statement (`AloneInv`: the dialogue of the one handler in the library goes
through its phases, each of which fixes what is on the wire), which needs that
a statement is sent once (`SentInv`) by the one worker that runs its request
(`WorkerInv`, `UnaskedInv`), that one left behind by a lost link has left its
client without a word on it (`LateInv`), and that executed statements keep their
rows (`RowInv`). From it follow `TypeCorrect`, `Durability`, `RefusalIsClean`,
`Release`; `BlockedStaysBlocked` needs less.

`ListsKeepUp` and `LoginsAreExact` are of answers that may be given long after the
server looked: what they say is made to last. What `known[r]` has was acknowledged
(`KnownInv`), so it was executed before the statement of `r`, and by `TableInv`
(rows are of executed INSERTs, and what was deleted does not come back) and
`RowInv` the rows `r` found are right, then (`SelectInv`) and whenever they are
given; for logins the same with `EmailsDiffer`, `InitialInv` and `LoginInv`.
Accounts last unless the text of a registration wrote over one (`Rewritten`).
`FiledUnderOne`, from `TableInv`, says of all rows but those that a text added
that they are user 1's.

All these but `TypeCorrect`, `BlockedStaysBlocked` and `FiledUnderOne` speak of
answers that no race disturbed. `OneWorkerNeverRaces` says when that is all of
them: with one worker, which is what Crow starts where there are no more than two
cores (`app.h` asks for two threads at least, and one of these accepts
connections); `OneWorkerAcks`, that the finding of the run `ack` is then
impossible: a 201 is of a row that is stored. `NobodyIsForgotten`: who waits has a
handler in the library (`WaitingInv`), and the phases of the dialogue say what is
under way for it.

**LedgerProofs.** `Implementation`: `Backend` implements `Ledger`. The initial
states map to initial states (`InitRefines`), and each action of `Backend` is a
step of `Ledger` or a stutter: a handler's start is `Ask` (`AskRefines`),
`ServerExecute` and `ExecuteLate` are `TakeEffect` (`EffectRefines`), `Give` is
`Tell` (`GiveRefines`), `Restart` is `Crash` (`RestartRefines`); the steps inside
the library and the making of the answer stutter. `IInv` says that the reply a
handler reads without a race is the one to its own statement, so that the answer
tells of that effect, and that a statement which is late has no word that its
effect would belie. Added to it is `LInv`: a process with one worker has not raced
(`RacedInv`), and an answer made and not yet given is one its endpoint has
(`EndedInv`).

**StartupProofs.** `StartupInv`: what a process has migrated while its link was
up is done (`MigratedInv`), since MySQL cannot have stopped in between
(`LinkInv`), each statement leaves its work done whether it succeeds or fails
(`MigrationDone`), and no later one undoes it (`MigrationKeeps`).
`SchemaComplete` follows at the last step. `MigrationsAreRepeatable`: with all
that is required there, each of the seven statements fails, or does what is done
(`MigrationIdle`). That takes three parts more: the old name of a renamed column
is gone once the new one is there, and `schema.sql` has run (`OldNameInv`), a
server that runs has a volume in use (`FreshInv`), and the column `icon` that the
INSERT names is never there (`IconInv`).

**DashboardProofs.** `DashboardInv`: an open dialog holds its own row or none
(`DialogInv`), a deletion under way was confirmed (`DeletionInv`), and what the
page knows of is no id that may be given again (`KnownInv`). `DeletesWhatIsConfirmed`
and `RemovedIsGone` follow. `DashboardImplementsRemoval`: of the user's steps
only "Delete it" is one of `Removal` (`Agree`, to a row once seen, by
`KnownInv`), the others and every continuation stutter, and a step of the
server enters, removes what was agreed to (`DeletionInv`), or stutters
(`ServeIsRemoval`).

**TransactionsProofs.** `OnlyMeantIsDeleted` is not inductive: a deletion under
way must be of a row agreed to (`AgreedInv`), for which what "Delete" sends
(`Targets`) must be what the dialog is about. Hence `SelectionInv`: the pending
row is the one whose bin was pressed, the selection has only rows that are
meant, or `late`, and so has the selection any run under way will set. `RunInv`
keeps the calls of two runs apart, which may be of the same rows. `AllOkAreGone` is
the boundary of the finding of the run `deleted`: what a 200 said is so for good
(`GoneInv`), and every row of a run has a call (`RunInv`).

**SessionProofs.** `SessionInv` adds to the three properties that a list under
way for a page that is there was asked for with the token in storage
(`CallsInv`), that only accounts log in (`LoginInv`), and that the form of the
settings holds the name in storage (`FormInv`); each unless another tab wrote
there since. One step for each action, and under it one for each part.
`OneTabIsInOrder`: with one tab nothing is ever stale (`Alone`), and the three
properties hold without their exceptions.

**Sums.** Sums over finite sets, as the pages' `reduce` and `filter` compute them:
that a sum may begin with any element (`TotalChoice`), that it is of the values
alone (`TotalSame`), and that it may be split by kinds (`TotalByKind`). `Total`
is `MapThenSumSet` of the community modules, shown to satisfy its recursive
equation first (`SumIsFold`). The library states its induction over finite sets
for an operator, which the provers cannot instantiate; here it is over a set of
subsets, as `WFMin` of the library gives it (`SubsetInduction`), and so over facts
that define such a set.

**StatisticsProofs.** `StatisticsInv` is the type invariant with finitely many
entries, all that the figures need: `PieIsWhole` splits the expenses by the name of
their slice, `ChartAgrees` the entries by their month. `DaysLeftAreMidnights` is
arithmetic, for any time of day.

**Only model-checked**: `EveryRequestAnswered`, `ServesInTheEnd` and
`DeletionIsShown`, for liveness under fairness is out of the provers' reach. What
the runs show to be violated is of course not proved; the theorems
`OneWorkerAcks` and `AllOkAreGone` say how far two of them do hold. What
a run states as an invariant or an action property, or as a refinement, is proved.

## 5. What the runs found

1. Two workers at once make the answers worthless: 201 for a row that is not
   there (`ack`).
2. A registration is refused for a display name that is taken, and told that the
   email might already exist: only the email is said to be unique (`taken`).
3. A removed row may come back on the dashboard for good (`removed`).
4. The page of transactions announces deletions that the server refused or
   failed to do (`deleted`).
5. A budget for housing counts what was spent on food, and the other way round:
   the pages number the categories differently (`spent`).

Three more disagree with a text of the repository, and are reported here without a
run: every entry is filed under user 1, and every list is user 1's, since
`verifyJWT` returns 1 for every token (`auth_manager.cpp:134`), where
`auth_manager.h:12` says that it returns the user's id: the theorem
`FiledUnderOne` states it. `README.md:79` calls budgets "Target caps for
monthly spending", whereas `Budgets.jsx:104` sums up the expenses of all time:
`Spent` does the same, and no property takes that sum for the month's. And the
comment at `db_manager.cpp:47` speaks of an escaping that is not there: texts with
quotes make other statements, and a login by such an email gets the token of
whatever user the text selects (`SelectAnyUser`, `RewriteUser`, `InsertRowsToo`).

Met on the way, with no text of the repository to hold against them: a statement
may be executed after its client was told of a failure, when the link was lost; a
list that could not be queried is an empty list with 200 (`FailureCode`), and the
page cannot tell; the INSERT at `db_manager.cpp:36` names a column that does not
exist and fails on every start; "Delete it" on the dashboard asks for nothing when
the end of an earlier deletion has cleared the row; on the page of transactions
such an end may check again what was unchecked meanwhile; the dashboard may show
the rows of the account before, when its list comes last; west of Greenwich the
first of a month counts into the month before; a late 401 logs out whoever has
logged in since (`SignedIn` shows that the page is then left).

## 6. What is not modelled

* Hashing, base64url, HMAC and the text of JSON: `verifyPassword` and
  `verifyJWT` are their outcomes.
* The vendored libraries (Crow, asio, jwt-cpp), which are nearly all of the
  lines under `include/`, React, nginx and libmariadb: the models have what the
  program's own code relies on of them, and nothing else.
* MySQL stopped in the midst of `schema.sql`: the rest is then never run
  (`SchemaLoaded` excepts it).
* The fields of the forms, on all pages. A form that is sent twice enters twice:
  nothing in the code is meant to prevent it. The dialogs of Budgets, Savings and
  Goals do what the dashboard's does, and these pages delete nothing.
* Savings: a sum over a list whose signs the form sets; percentages, colours,
  themes, languages and currency signs are display.
* `Home`, styling.
