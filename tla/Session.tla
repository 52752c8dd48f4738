------------------------------ MODULE Session --------------------------------
(***************************************************************************)
(* Logging in and out of the frontend: the token and the username that the *)
(* tabs of a browser share in localStorage, the page each tab is on, and   *)
(* the calls and timers that a page leaves behind.  What comes of these is *)
(* done even when the user has gone elsewhere meanwhile: React drops only  *)
(* what would set the state of a page that is not there any more.          *)
(*                                                                         *)
(* A token is the account it was issued to, a username the account it came *)
(* with.  "login" stands for Home.jsx and Register.jsx, too, "entries" for *)
(* Transactions.jsx, Budgets.jsx, Savings.jsx and Goals.jsx.               *)
(***************************************************************************)
EXTENDS Naturals, FiniteSets

CONSTANTS
    Tabs, Users,
    NoUser,     \* no token, no username, nothing
    MaxCalls    \* bound of the calls and timers under way

ASSUME NoUserAssumption == NoUser \notin Users

Pages   == {"login", "dashboard", "entries", "settings"}
Guarded == {"dashboard", "entries"}
Account == Users \cup {NoUser}

\* A login, the timer of a registration, or a list for a page of the kind.
Call == [tab : Tabs, kind : {"login", "timer"} \cup Guarded, user : Account, mounted : BOOLEAN]

VARIABLES
    token, username,    \* localStorage
    page,               \* page[t]: where tab t is
    shown,              \* shown[t]: the account whose rows it shows
    seen,               \* seen[t]: the token its page found when it was drawn
    name,               \* name[t]: the username in the form of Settings.jsx
    calls,
    foreign,            \* foreign[t]: another tab has changed localStorage since
    mixed               \* the username was saved by a page of which foreign holds

storage == <<token, username, mixed>>
tabVars == <<page, shown, seen, name, foreign>>
vars    == <<storage, tabVars, calls>>

TypeOK ==
    /\ token \in Account /\ username \in Account /\ mixed \in BOOLEAN
    /\ page \in [Tabs -> Pages]
    /\ shown \in [Tabs -> Account] /\ seen \in [Tabs -> Account] /\ name \in [Tabs -> Account]
    /\ foreign \in [Tabs -> BOOLEAN]
    /\ calls \subseteq Call

Init ==
    /\ token = NoUser /\ username = NoUser /\ mixed = FALSE
    /\ page = [t \in Tabs |-> "login"]
    /\ shown = [t \in Tabs |-> NoUser] /\ seen = shown /\ name = shown
    /\ foreign = [t \in Tabs |-> FALSE]
    /\ calls = {}

-----------------------------------------------------------------------------

MoreCalls == Cardinality(calls) < MaxCalls

List(t, p, user) == [tab |-> t, kind |-> p, user |-> user, mounted |-> TRUE]

Left(cs, t) == {IF c.tab = t THEN [c EXCEPT !.mounted = FALSE] ELSE c : c \in cs}

\* Tab t goes to page p, finding that token, with the calls cs under way.  A guarded
\* page fetches its list, or sends the user to log in.
Goes(t, p, found, cs) ==
    /\ page' = [page EXCEPT ![t] = IF p \in Guarded /\ found = NoUser THEN "login" ELSE p]
    /\ calls' = Left(cs, t) \cup IF p \in Guarded /\ found # NoUser THEN {List(t, p, found)} ELSE {}
    /\ shown' = [shown EXCEPT ![t] = NoUser]
    /\ seen' = [seen EXCEPT ![t] = found]
    /\ name' = [name EXCEPT ![t] = IF p = "settings" THEN username ELSE NoUser]

\* Tab t is on a new page, having written to localStorage or not.
Writes(t) == foreign' = [u \in Tabs |-> u # t]
Fresh(t)  == foreign' = [foreign EXCEPT ![t] = FALSE]

Stays == UNCHANGED <<page, shown, seen, name>>

-----------------------------------------------------------------------------
(* The user *)

\* A link of the sidebar or of the public pages, or the button Back.
Visit(t, p) ==
    /\ p # page[t] \/ p = "entries"
    /\ p \in Guarded => MoreCalls
    /\ Goes(t, p, token, calls)
    /\ Fresh(t)
    /\ UNCHANGED storage

HandleLogin(t, u) ==
    /\ page[t] = "login" /\ MoreCalls
    /\ calls' = calls \cup {[tab |-> t, kind |-> "login", user |-> u, mounted |-> FALSE]}
    /\ UNCHANGED <<storage, tabVars>>

\* An account is created, and in 1.5 s its owner sent to log in.
HandleRegister(t) ==
    /\ page[t] = "login" /\ MoreCalls
    /\ calls' = calls \cup {[tab |-> t, kind |-> "timer", user |-> NoUser, mounted |-> FALSE]}
    /\ UNCHANGED <<storage, tabVars>>

HandleLogout(t) ==
    /\ page[t] # "login"
    /\ token' = NoUser /\ username' = NoUser /\ mixed' = FALSE
    /\ Goes(t, "login", NoUser, calls)
    /\ Writes(t)

\* Settings.jsx saves the name its form began with, or one the same user typed.
HandleSave(t) ==
    /\ page[t] = "settings"
    /\ username' = name[t]
    /\ mixed' = (mixed \/ foreign[t])
    /\ foreign' = [u \in Tabs |-> u # t \/ foreign[t]]
    /\ Stays /\ UNCHANGED <<token, calls>>

\* Something was entered or deleted on a page: its list is fetched again, by the
\* dashboard with the token it was drawn with, by the others with that in storage.
FetchAgain(t) ==
    /\ page[t] \in Guarded /\ MoreCalls
    /\ IF page[t] = "entries" /\ token = NoUser
       THEN Goes(t, "login", token, calls) /\ Fresh(t)
       ELSE /\ calls' = calls \cup
                 {List(t, page[t], IF page[t] = "entries" THEN token ELSE seen[t])}
            /\ Stays /\ UNCHANGED foreign
    /\ UNCHANGED storage

\* The dashboard is drawn again, and finds another token: useEffect.
DrawAgain(t) ==
    /\ page[t] = "dashboard" /\ token # seen[t]
    /\ \/ token = NoUser /\ Goes(t, "login", token, calls) /\ Fresh(t)
       \/ /\ token # NoUser /\ MoreCalls
          /\ seen' = [seen EXCEPT ![t] = token]
          /\ calls' = calls \cup {List(t, "dashboard", token)}
          /\ UNCHANGED <<page, shown, name, foreign>>
    /\ UNCHANGED storage

-----------------------------------------------------------------------------
(* What follows an answer, wherever the tab is by then *)

\* Mutant: the user is sent to the dashboard only from the page of the login.
LoginOkStays(c) ==
    /\ c.kind = "login"
    /\ token' = c.user /\ username' = c.user /\ mixed' = FALSE
    /\ \/ /\ page[c.tab] # "login"
          /\ calls' = calls \ {c}
          /\ Stays
          /\ foreign' = [u \in Tabs |-> u # c.tab \/ foreign[u]]
       \/ /\ page[c.tab] = "login"
          /\ Goes(c.tab, "dashboard", c.user, calls \ {c})
          /\ Writes(c.tab)

\* Mutant: the username is left to the page of the settings.
LoginOkNameless(c) ==
    /\ c.kind = "login"
    /\ token' = c.user /\ mixed' = FALSE /\ UNCHANGED username
    /\ Goes(c.tab, "dashboard", c.user, calls \ {c})
    /\ Writes(c.tab)

\* localStorage first, then to the dashboard; a dashboard that is there already is
\* only drawn again.
LoginOk(c) ==
    /\ c.kind = "login"
    /\ token' = c.user /\ username' = c.user /\ mixed' = FALSE
    /\ \/ /\ page[c.tab] = "dashboard"
          /\ calls' = (calls \ {c}) \cup {List(c.tab, "dashboard", c.user)}
          /\ seen' = [seen EXCEPT ![c.tab] = c.user]
          /\ UNCHANGED <<page, shown, name>>
          /\ foreign' = [u \in Tabs |-> u # c.tab \/ foreign[u]]
       \/ /\ page[c.tab] # "dashboard"
          /\ Goes(c.tab, "dashboard", c.user, calls \ {c})
          /\ Writes(c.tab)

TimerEnds(c) ==
    /\ c.kind = "timer"
    /\ Goes(c.tab, "login", token, calls \ {c})
    /\ Fresh(c.tab)
    /\ UNCHANGED storage

ListOk(c) ==
    /\ c.kind \in Guarded
    /\ shown' = IF c.mounted THEN [shown EXCEPT ![c.tab] = c.user] ELSE shown
    /\ calls' = calls \ {c}
    /\ UNCHANGED <<storage, page, seen, name, foreign>>

\* Mutant: a page that is left sends nobody away.
ListRefusedQuietly(c) ==
    /\ c.kind \in Guarded
    /\ token' = IF c.kind = "dashboard" THEN NoUser ELSE token
    /\ IF c.mounted THEN Goes(c.tab, "login", token', calls \ {c})
                    ELSE calls' = calls \ {c} /\ Stays
    /\ foreign' = [u \in Tabs |-> foreign[u] \/ (u # c.tab /\ c.kind = "dashboard")]
    /\ UNCHANGED <<username, mixed>>

\* 401: to the login; the dashboard's handleUnauthorized removes the token first.
ListRefused(c) ==
    /\ c.kind \in Guarded
    /\ token' = IF c.kind = "dashboard" THEN NoUser ELSE token
    /\ Goes(c.tab, "login", token', calls \ {c})
    /\ foreign' = [u \in Tabs |-> u # c.tab /\ (foreign[u] \/ c.kind = "dashboard")]
    /\ UNCHANGED <<username, mixed>>

\* A login refused, or a call that fails: a message, or not even that.
Fails(c) ==
    /\ c.kind # "timer"
    /\ calls' = calls \ {c}
    /\ UNCHANGED <<storage, tabVars>>

Next ==
    \/ \E t \in Tabs :
          \/ \E p \in Pages : Visit(t, p)
          \/ \E u \in Users : HandleLogin(t, u)
          \/ HandleRegister(t) \/ HandleLogout(t) \/ HandleSave(t)
          \/ FetchAgain(t) \/ DrawAgain(t)
    \/ \E c \in calls : LoginOk(c) \/ TimerEnds(c) \/ ListOk(c) \/ ListRefused(c) \/ Fails(c)

Spec == Init /\ [][Next]_vars

-----------------------------------------------------------------------------

\* Unless another tab has written to localStorage since, a page of entries shows the
\* rows of the account that what is entered there goes to (Budgets.jsx:31, :56): no
\* late answer to a login, list or registration parts the two.
PageIsOfItsAccount ==
    \A t \in Tabs :
        page[t] = "entries" /\ shown[t] # NoUser /\ ~foreign[t] => shown[t] = token

\* Nobody is on the dashboard or a page of entries without a token unless another tab
\* removed it (Dashboard.jsx:46, Budgets.jsx:32).
SignedIn == \A t \in Tabs : page[t] \in Guarded /\ ~foreign[t] => token # NoUser

\* The username greets the user whose token is there (Login.jsx:26-27), unless it was
\* saved by a page of settings that another tab had made stale.
NameIsOfItsAccount == token # NoUser /\ ~mixed => username = token

\* The rest of the inductive invariant: a list under way for a page that is there
\* was asked for with the token in storage; the form of the settings has its name.
CallsInv ==
    \A c \in calls : c.mounted => /\ c.kind = page[c.tab] /\ c.kind \in Guarded
                                  /\ c.kind = "entries" /\ ~foreign[c.tab] => c.user = token

\* Only accounts log in.
LoginInv == \A c \in calls : c.kind = "login" => c.user \in Users

FormInv ==
    \A t \in Tabs : page[t] = "settings" /\ ~foreign[t] => name[t] = username

SessionInv ==
    TypeOK /\ LoginInv /\ CallsInv /\ FormInv /\ PageIsOfItsAccount /\ SignedIn /\ NameIsOfItsAccount
=============================================================================
