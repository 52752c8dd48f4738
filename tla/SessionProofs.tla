---------------------------- MODULE SessionProofs ----------------------------
(* The safety of Session, for any tabs, accounts and number of calls. *)
EXTENDS Session, TLAPS

USE NoUserAssumption DEF SessionInv

\* What a tab that goes to a page has, and what the other tabs keep.
LEMMA GoesTo ==
    ASSUME TypeOK, NEW t \in Tabs, NEW p \in Pages, NEW found \in Account,
           NEW cs \in SUBSET calls, Goes(t, p, found, cs)
    PROVE  /\ page' \in [Tabs -> Pages] /\ calls' \subseteq Call
           /\ shown' \in [Tabs -> Account] /\ seen' \in [Tabs -> Account] /\ name' \in [Tabs -> Account]
           /\ page'[t] \in Guarded => found # NoUser
           /\ page'[t] = "settings" => p = "settings" /\ name'[t] = username
           /\ shown'[t] = NoUser
           /\ \A u \in Tabs \ {t} : page'[u] = page[u] /\ shown'[u] = shown[u] /\ name'[u] = name[u]
           /\ \A c \in calls' : c.mounted => \/ c.tab = t /\ c.kind = page'[t] /\ c.kind \in Guarded /\ c.user = found
                                             \/ c.tab # t /\ c \in calls
           /\ \A c \in calls' : c.kind = "login" => \E d \in calls : d.kind = "login" /\ d.user = c.user
<1> USE DEF Goes, TypeOK
<1>1. \A c \in Left(cs, t) : /\ c \in Call
                             /\ c.mounted => c.tab # t /\ c \in calls
                             /\ \E d \in calls : d.kind = c.kind /\ d.user = c.user
  <2> SUFFICES ASSUME NEW d \in cs, NEW c, c = IF d.tab = t THEN [d EXCEPT !.mounted = FALSE] ELSE d
               PROVE  /\ c \in Call
                      /\ c.mounted => c.tab # t /\ c \in calls
                      /\ d.kind = c.kind /\ d.user = c.user
    BY DEF Left
  <2>1. d \in Call
    OBVIOUS
  <2>2. CASE d.tab = t
    <3>1. /\ c = [d EXCEPT !.mounted = FALSE] /\ c \in Call
          /\ c.kind = d.kind /\ c.user = d.user /\ c.mounted = FALSE
      BY <2>1, <2>2 DEF Call
    <3> QED
      BY <3>1
  <2>3. CASE d.tab # t
    BY <2>1, <2>3
  <2> QED
    BY <2>2, <2>3
<1>2. p \in Guarded => /\ List(t, p, found) \in Call
                       /\ List(t, p, found).tab = t /\ List(t, p, found).kind = p
                       /\ List(t, p, found).user = found
  BY DEF List, Call
<1>8. "login" # p \/ p \notin Guarded
  BY DEF Guarded
<1>3. page' \in [Tabs -> Pages] /\ (page'[t] = IF p \in Guarded /\ found = NoUser THEN "login" ELSE p)
  BY DEF Pages
<1>4. /\ shown' \in [Tabs -> Account] /\ seen' \in [Tabs -> Account] /\ name' \in [Tabs -> Account]
      /\ shown'[t] = NoUser
      /\ name'[t] = IF p = "settings" THEN username ELSE NoUser
  BY DEF Account
<1>5. \A c \in calls' : c \in Left(cs, t) \/ (p \in Guarded /\ found # NoUser /\ c = List(t, p, found))
  OBVIOUS
<1>6. \A u \in Tabs \ {t} : page'[u] = page[u] /\ shown'[u] = shown[u] /\ name'[u] = name[u]
  OBVIOUS
<1>7. "login" \notin Guarded /\ "settings" \notin Guarded
  BY DEF Guarded
<1> QED
  BY <1>1, <1>2, <1>3, <1>4, <1>5, <1>6, <1>7, <1>8

\* A tab may go anywhere with the token that is in storage then, when the others hear
\* of what it writes there.
LEMMA GoesInv ==
    ASSUME SessionInv, NEW t \in Tabs, NEW p \in Pages, NEW cs \in SUBSET calls,
           Goes(t, p, token', cs),
           token' \in Account, username' \in Account, mixed' \in BOOLEAN,
           foreign' \in [Tabs -> BOOLEAN], ~foreign'[t],
           \A u \in Tabs \ {t} : ~foreign'[u] => ~foreign[u] /\ token' = token /\ username' = username,
           p = "settings" => username' = username,
           NameIsOfItsAccount'
    PROVE  SessionInv'
<1>1. TypeOK
  OBVIOUS
<1>2. /\ page' \in [Tabs -> Pages] /\ calls' \subseteq Call
      /\ shown' \in [Tabs -> Account] /\ seen' \in [Tabs -> Account] /\ name' \in [Tabs -> Account]
      /\ page'[t] \in Guarded => token' # NoUser
      /\ page'[t] = "settings" => p = "settings" /\ name'[t] = username
      /\ shown'[t] = NoUser
      /\ \A u \in Tabs \ {t} : page'[u] = page[u] /\ shown'[u] = shown[u] /\ name'[u] = name[u]
      /\ \A c \in calls' : c.mounted =>
            \/ c.tab = t /\ c.kind = page'[t] /\ c.kind \in Guarded /\ c.user = token'
            \/ c.tab # t /\ c \in calls
      /\ \A c \in calls' : c.kind = "login" => \E d \in calls : d.kind = "login" /\ d.user = c.user
  BY <1>1, GoesTo
<1>3. TypeOK'
  BY <1>2 DEF TypeOK
<1>4. CallsInv'
  <2> SUFFICES ASSUME NEW c \in calls', c.mounted
               PROVE  /\ c.kind = page'[c.tab] /\ c.kind \in Guarded
                      /\ c.kind = "entries" /\ ~foreign'[c.tab] => c.user = token'
    BY DEF CallsInv
  <2>1. CASE c.tab = t
    BY <1>2, <2>1
  <2>2. CASE c.tab # t
    <3>1. c \in calls /\ c.tab \in Tabs \ {t}
      BY <1>2, <2>2 DEF Call
    <3> QED
      BY <1>2, <3>1 DEF CallsInv
  <2> QED
    BY <2>1, <2>2
<1>5. FormInv' /\ PageIsOfItsAccount' /\ SignedIn'
  <2> SUFFICES ASSUME NEW u \in Tabs, ~foreign'[u]
               PROVE  /\ page'[u] = "settings" => name'[u] = username'
                      /\ page'[u] = "entries" /\ shown'[u] # NoUser => shown'[u] = token'
                      /\ page'[u] \in Guarded => token' # NoUser
    BY DEF FormInv, PageIsOfItsAccount, SignedIn
  <2>1. CASE u = t
    BY <1>2, <2>1
  <2>2. CASE u # t
    BY <1>2, <2>2 DEF FormInv, PageIsOfItsAccount, SignedIn
  <2> QED
    BY <2>1, <2>2
<1>6. LoginInv'
  BY <1>2 DEF LoginInv
<1> QED
  BY <1>3, <1>4, <1>5, <1>6

\* A call more for the page a tab is on, and nothing else, when its user is the token
\* in storage, or the page the dashboard.
LEMMA CallInv ==
    ASSUME SessionInv, UNCHANGED <<storage, page, shown, name, foreign>>, seen' \in [Tabs -> Account],
           NEW c \in Call, calls' \subseteq calls \cup {c},
           c.mounted => /\ c.kind = page[c.tab] /\ c.kind \in Guarded
                        /\ c.kind = "entries" => c.user = token,
           c.kind = "login" => c.user \in Users
    PROVE  SessionInv'
BY DEF storage, LoginInv, TypeOK, CallsInv, FormInv, PageIsOfItsAccount, SignedIn, NameIsOfItsAccount

\* Calls that end, and nothing else.
LEMMA EndInv ==
    ASSUME SessionInv, UNCHANGED <<storage, tabVars>>, calls' \subseteq calls
    PROVE  SessionInv'
BY DEF storage, tabVars, LoginInv, TypeOK, CallsInv, FormInv, PageIsOfItsAccount, SignedIn, NameIsOfItsAccount

LEMMA SessionInitInv == Init => SessionInv
BY DEF Init, LoginInv, TypeOK, Account, Pages, Guarded, CallsInv, FormInv, PageIsOfItsAccount, SignedIn,
       NameIsOfItsAccount

\* What the user does.
LEMMA UserInv ==
    ASSUME SessionInv, NEW t \in Tabs,
           \/ \E p \in Pages : Visit(t, p)
           \/ \E u \in Users : HandleLogin(t, u)
           \/ HandleRegister(t) \/ HandleLogout(t) \/ HandleSave(t)
           \/ FetchAgain(t) \/ DrawAgain(t)
    PROVE  SessionInv'
<1> USE DEF TypeOK
<1>1. ASSUME NEW p \in Pages, Visit(t, p) PROVE SessionInv'
  <2>1. NameIsOfItsAccount' /\ token' = token /\ username' = username
    BY <1>1 DEF Visit, storage, NameIsOfItsAccount
  <2>2. foreign' \in [Tabs -> BOOLEAN] /\ ~foreign'[t] /\ \A u \in Tabs \ {t} : foreign'[u] = foreign[u]
    BY <1>1 DEF Visit, Fresh
  <2>3. Goes(t, p, token', calls)
    BY <1>1, <2>1 DEF Visit
  <2>4. mixed' \in BOOLEAN
    BY <1>1 DEF Visit, storage
  <2> QED
    BY <2>1, <2>2, <2>3, <2>4, GoesInv
<1>2. ASSUME NEW u \in Users, HandleLogin(t, u) PROVE SessionInv'
  <2> DEFINE c == [tab |-> t, kind |-> "login", user |-> u, mounted |-> FALSE]
  <2>1. c \in Call /\ ~c.mounted
    BY DEF Call, Account
  <2>2. calls' = calls \cup {c} /\ UNCHANGED <<storage, page, shown, seen, name, foreign>>
    BY <1>2 DEF HandleLogin, tabVars
  <2> QED
    BY <2>1, <2>2, CallInv
<1>3. CASE HandleRegister(t)
  <2> DEFINE c == [tab |-> t, kind |-> "timer", user |-> NoUser, mounted |-> FALSE]
  <2>1. c \in Call /\ ~c.mounted
    BY DEF Call, Account
  <2>2. calls' = calls \cup {c} /\ UNCHANGED <<storage, page, shown, seen, name, foreign>>
    BY <1>3 DEF HandleRegister, tabVars
  <2> QED
    BY <2>1, <2>2, CallInv
<1>4. CASE HandleLogout(t)
  <2>1. /\ token' = NoUser /\ username' = NoUser /\ mixed' = FALSE
        /\ Goes(t, "login", token', calls) /\ NameIsOfItsAccount'
    BY <1>4 DEF HandleLogout, NameIsOfItsAccount
  <2>2. foreign' \in [Tabs -> BOOLEAN] /\ ~foreign'[t] /\ \A u \in Tabs \ {t} : foreign'[u]
    BY <1>4 DEF HandleLogout, Writes
  <2>3. token' \in Account /\ username' \in Account /\ "login" \in Pages
    BY <2>1 DEF Account, Pages
  <2> QED
    BY <2>1, <2>2, <2>3, GoesInv
<1>5. CASE HandleSave(t)
  <2> USE <1>5 DEF HandleSave, Stays
  <2>1. foreign' \in [Tabs -> BOOLEAN] /\ foreign'[t] = foreign[t] /\ \A u \in Tabs \ {t} : foreign'[u]
    OBVIOUS
  <2>2. /\ token' = token /\ calls' = calls /\ page' = page /\ shown' = shown /\ name' = name
        /\ seen' = seen /\ username' = name[t]
    OBVIOUS
  <2>3. TypeOK'
    <3>1. mixed' \in BOOLEAN
      OBVIOUS
    <3> QED
      BY <2>1, <2>2, <3>1
  <2>4. CallsInv'
    BY <2>1, <2>2 DEF CallsInv, Call
  <2>5. FormInv' /\ PageIsOfItsAccount' /\ SignedIn'
    BY <2>1, <2>2 DEF FormInv, PageIsOfItsAccount, SignedIn
  <2>6. NameIsOfItsAccount'
    <3>1. ~mixed' => ~mixed /\ ~foreign[t]
      OBVIOUS
    <3> QED
      BY <2>2, <3>1 DEF NameIsOfItsAccount, FormInv
  <2>7. LoginInv'
    BY <2>2 DEF LoginInv
  <2> QED
    BY <2>3, <2>4, <2>5, <2>6, <2>7
<1>6. ASSUME Goes(t, "login", token, calls), Fresh(t), UNCHANGED storage PROVE SessionInv'
  <2>1. foreign' \in [Tabs -> BOOLEAN] /\ ~foreign'[t] /\ \A u \in Tabs \ {t} : foreign'[u] = foreign[u]
    BY <1>6 DEF Fresh
  <2>2. /\ token' = token /\ username' = username /\ mixed' = mixed /\ NameIsOfItsAccount'
        /\ Goes(t, "login", token', calls) /\ "login" \in Pages
    BY <1>6 DEF storage, NameIsOfItsAccount, Pages
  <2> QED
    BY <2>1, <2>2, GoesInv
<1>7. CASE FetchAgain(t)
  <2>1. CASE page[t] = "entries" /\ token = NoUser
    BY <1>6, <1>7, <2>1 DEF FetchAgain
  <2>2. CASE ~(page[t] = "entries" /\ token = NoUser)
    <3> DEFINE c == List(t, page[t], IF page[t] = "entries" THEN token ELSE seen[t])
    <3>1. /\ calls' = calls \cup {c} /\ page[t] \in Guarded
          /\ UNCHANGED <<storage, page, shown, seen, name, foreign>>
      BY <1>7, <2>2 DEF FetchAgain, Stays
    <3>2. /\ c \in Call /\ c.tab = t /\ c.kind = page[t]
          /\ c.kind = "entries" => c.user = token
          /\ c.kind # "login"
      BY <3>1 DEF List, Call, Guarded
    <3> QED
      BY <3>1, <3>2, CallInv
  <2> QED
    BY <2>1, <2>2
<1>8. CASE DrawAgain(t)
  <2>1. CASE token = NoUser
    BY <1>6, <1>8, <2>1 DEF DrawAgain
  <2>2. CASE token # NoUser
    <3> DEFINE c == List(t, "dashboard", token)
    <3>1. /\ calls' = calls \cup {c} /\ page[t] = "dashboard" /\ seen' \in [Tabs -> Account]
          /\ UNCHANGED <<storage, page, shown, name, foreign>>
      BY <1>8, <2>2 DEF DrawAgain
    <3>2. c \in Call /\ c.tab = t /\ c.kind = "dashboard" /\ c.kind \in Guarded
      BY DEF List, Call, Guarded
    <3> QED
      BY <3>1, <3>2, CallInv
  <2> QED
    BY <2>1, <2>2
<1> QED
  BY <1>1, <1>2, <1>3, <1>4, <1>5, <1>7, <1>8

\* What follows an answer.
LEMMA SessionAnsweredInv ==
    ASSUME SessionInv, NEW c \in calls,
           LoginOk(c) \/ TimerEnds(c) \/ ListOk(c) \/ ListRefused(c) \/ Fails(c)
    PROVE  SessionInv'
<1> USE DEF TypeOK
<1>1. c \in Call /\ c.tab \in Tabs /\ calls \ {c} \in SUBSET calls
  BY DEF Call
<1>2. CASE LoginOk(c)
  <2>1. /\ token' = c.user /\ username' = c.user /\ mixed' = FALSE /\ c.user \in Account
        /\ NameIsOfItsAccount'
    BY <1>1, <1>2 DEF LoginOk, Call, NameIsOfItsAccount
  <2>2. CASE page[c.tab] # "dashboard"
    <3>1. Goes(c.tab, "dashboard", token', calls \ {c}) /\ "dashboard" \in Pages
      BY <1>2, <2>1, <2>2 DEF LoginOk, Pages
    <3>2. foreign' \in [Tabs -> BOOLEAN] /\ ~foreign'[c.tab] /\ \A u \in Tabs \ {c.tab} : foreign'[u]
      BY <1>1, <1>2, <2>2 DEF LoginOk, Writes
    <3> QED
      BY <1>1, <2>1, <3>1, <3>2, GoesInv
  <2>3. CASE page[c.tab] = "dashboard"
    <3> USE <2>3
    <3>1. /\ calls' = (calls \ {c}) \cup {List(c.tab, "dashboard", c.user)}
          /\ seen' \in [Tabs -> Account]
          /\ page' = page /\ shown' = shown /\ name' = name
          /\ foreign' = [u \in Tabs |-> u # c.tab \/ foreign[u]]
      BY <1>1, <1>2, <2>1 DEF LoginOk
    <3>2. /\ foreign' \in [Tabs -> BOOLEAN]
          /\ \A u \in Tabs : ~foreign'[u] => u = c.tab
      BY <3>1
    <3>3. /\ List(c.tab, "dashboard", c.user) \in Call
          /\ List(c.tab, "dashboard", c.user).kind = "dashboard"
          /\ List(c.tab, "dashboard", c.user).tab = c.tab /\ "dashboard" \in Guarded
      BY <1>1, <2>1 DEF List, Call, Guarded
    <3>4. TypeOK'
      BY <2>1, <3>1, <3>2, <3>3
    <3>5. CallsInv'
      <4> SUFFICES ASSUME NEW d \in calls', d.mounted
                   PROVE  /\ d.kind = page[d.tab] /\ d.kind \in Guarded
                          /\ d.kind = "entries" => foreign'[d.tab]
        BY <3>1 DEF CallsInv
      <4>1. CASE d = List(c.tab, "dashboard", c.user)
        BY <3>3, <4>1
      <4>2. CASE d \in calls
        <5>1. d.kind = page[d.tab] /\ d.kind \in Guarded /\ d.tab \in Tabs
          BY <4>2 DEF CallsInv, Call
        <5> QED
          BY <3>2, <5>1
      <4> QED
        BY <3>1, <4>1, <4>2
    <3>6. FormInv' /\ PageIsOfItsAccount' /\ SignedIn'
      <4>1. c.user # NoUser
        BY <1>2, <1>1 DEF LoginOk, LoginInv
      <4> QED
        BY <2>1, <3>1, <3>2, <4>1 DEF FormInv, PageIsOfItsAccount, SignedIn
    <3>7. LoginInv'
      BY <3>1, <3>3 DEF LoginInv
    <3> QED
      BY <2>1, <3>4, <3>5, <3>6, <3>7
  <2> QED
    BY <2>2, <2>3
<1>3. CASE TimerEnds(c)
  <2>1. /\ foreign' \in [Tabs -> BOOLEAN] /\ ~foreign'[c.tab]
        /\ \A u \in Tabs \ {c.tab} : foreign'[u] = foreign[u]
    BY <1>1, <1>3 DEF TimerEnds, Fresh
  <2>2. /\ token' = token /\ username' = username /\ mixed' = mixed /\ NameIsOfItsAccount'
        /\ Goes(c.tab, "login", token', calls \ {c}) /\ "login" \in Pages
    BY <1>3 DEF TimerEnds, storage, NameIsOfItsAccount, Pages
  <2> QED
    BY <1>1, <2>1, <2>2, GoesInv
<1>4. CASE ListOk(c)
  <2>1. /\ calls' \subseteq calls /\ page' = page /\ name' = name /\ foreign' = foreign
        /\ token' = token /\ username' = username /\ mixed' = mixed /\ seen' = seen
    BY <1>4 DEF ListOk, storage
  <2>2. /\ shown' \in [Tabs -> Account]
        /\ \A t \in Tabs : shown'[t] = IF c.mounted /\ t = c.tab THEN c.user ELSE shown[t]
    BY <1>1, <1>4 DEF ListOk, Call
  <2>3. TypeOK' /\ LoginInv' /\ CallsInv' /\ FormInv' /\ SignedIn' /\ NameIsOfItsAccount'
    BY <2>1, <2>2 DEF LoginInv, CallsInv, FormInv, SignedIn, NameIsOfItsAccount
  <2>4. PageIsOfItsAccount'
    BY <2>1, <2>2 DEF CallsInv, PageIsOfItsAccount
  <2> QED
    BY <2>3, <2>4
<1>5. CASE ListRefused(c)
  <2>1. /\ token' = (IF c.kind = "dashboard" THEN NoUser ELSE token) /\ token' \in Account
        /\ username' = username /\ mixed' = mixed /\ NameIsOfItsAccount'
        /\ Goes(c.tab, "login", token', calls \ {c}) /\ "login" \in Pages
    BY <1>5 DEF ListRefused, NameIsOfItsAccount, Account, Pages
  <2>2. /\ foreign' \in [Tabs -> BOOLEAN] /\ ~foreign'[c.tab]
        /\ \A u \in Tabs \ {c.tab} : ~foreign'[u] => ~foreign[u] /\ token' = token
    BY <1>1, <1>5 DEF ListRefused
  <2> QED
    BY <1>1, <2>1, <2>2, GoesInv
<1>6. CASE Fails(c)
  BY <1>6, EndInv DEF Fails
<1> QED
  BY <1>2, <1>3, <1>4, <1>5, <1>6

-----------------------------------------------------------------------------

\* The inductive invariant of the frontend's session, for any tabs and accounts.
THEOREM SessionSafety == Spec => []SessionInv
<1>1. Init => SessionInv
  BY SessionInitInv
<1>2. SessionInv /\ [Next]_vars => SessionInv'
  <2> SUFFICES ASSUME SessionInv, [Next]_vars PROVE SessionInv'
    OBVIOUS
  <2>1. CASE UNCHANGED vars
    BY <2>1, EndInv DEF vars
  <2>2. CASE Next
    BY <2>2, UserInv, SessionAnsweredInv DEF Next
  <2> QED
    BY <2>1, <2>2
<1> QED
  BY <1>1, <1>2, PTL DEF Spec

\* What a page of entries shows, and where what is entered on it goes, is one account's.
THEOREM OneAccount == Spec => []PageIsOfItsAccount
<1>1. SessionInv => PageIsOfItsAccount
  OBVIOUS
<1> QED
  BY <1>1, SessionSafety, PTL

\* Without a token a page of entries is left, unless another tab removed it.
THEOREM NobodyStays == Spec => []SignedIn
<1>1. SessionInv => SignedIn
  OBVIOUS
<1> QED
  BY <1>1, SessionSafety, PTL

\* The username is that of the token's user, unless it was saved from a stale page.
THEOREM NameOfAccount == Spec => []NameIsOfItsAccount
<1>1. SessionInv => NameIsOfItsAccount
  OBVIOUS
<1> QED
  BY <1>1, SessionSafety, PTL

\* Nobody else has written to localStorage, and no name was saved from a stale page.
Alone == ~mixed /\ \A t \in Tabs : ~foreign[t]

\* Every handler that writes to localStorage makes the other tabs stale, never its own.
LEMMA AloneStep ==
    ASSUME \A t, u \in Tabs : t = u, SessionInv, Alone, [Next]_vars
    PROVE  Alone'
<1> USE DEF Alone
<1>1. CASE UNCHANGED vars
  BY <1>1 DEF vars, storage, tabVars
<1>2. ASSUME NEW t \in Tabs,
             \/ \E p \in Pages : Visit(t, p)
             \/ \E u \in Users : HandleLogin(t, u)
             \/ HandleRegister(t) \/ HandleLogout(t) \/ HandleSave(t)
             \/ FetchAgain(t) \/ DrawAgain(t)
      PROVE  Alone'
  <2>1. CASE (\E p \in Pages : Visit(t, p)) \/ FetchAgain(t) \/ DrawAgain(t)
    BY <2>1 DEF Visit, FetchAgain, DrawAgain, Fresh, storage, SessionInv, TypeOK
  <2>2. CASE (\E u \in Users : HandleLogin(t, u)) \/ HandleRegister(t)
    BY <2>2 DEF HandleLogin, HandleRegister, storage, tabVars
  <2>3. CASE HandleLogout(t)
    BY <2>3 DEF HandleLogout, Writes
  <2>4. CASE HandleSave(t)
    BY <2>4 DEF HandleSave
  <2> QED
    BY <1>2, <2>1, <2>2, <2>3, <2>4
<1>3. ASSUME NEW c \in calls,
             LoginOk(c) \/ TimerEnds(c) \/ ListOk(c) \/ ListRefused(c) \/ Fails(c)
      PROVE  Alone'
  <2>1. c.tab \in Tabs
    BY DEF SessionInv, TypeOK, Call
  <2>2. CASE LoginOk(c)
    BY <2>1, <2>2 DEF LoginOk, Writes
  <2>3. CASE TimerEnds(c)
    BY <2>1, <2>3 DEF TimerEnds, Fresh, storage, SessionInv, TypeOK
  <2>4. CASE ListOk(c) \/ Fails(c)
    BY <2>4 DEF ListOk, Fails, storage, tabVars
  <2>5. CASE ListRefused(c)
    BY <2>1, <2>5 DEF ListRefused
  <2> QED
    BY <1>3, <2>2, <2>3, <2>4, <2>5
<1> QED
  BY <1>1, <1>2, <1>3 DEF Next

\* In a browser with one tab the session is in order without reservation, whatever
\* answers and timers come late: what a page of entries shows is of the token, nobody
\* is on a guarded page without one, and the username is that of its user.
THEOREM OneTabIsInOrder ==
    ASSUME \A t, u \in Tabs : t = u
    PROVE  Spec => [](/\ \A t \in Tabs : page[t] = "entries" /\ shown[t] # NoUser => shown[t] = token
                      /\ \A t \in Tabs : page[t] \in Guarded => token # NoUser
                      /\ token # NoUser => username = token)
<1> DEFINE InOrder == /\ \A t \in Tabs : page[t] = "entries" /\ shown[t] # NoUser => shown[t] = token
                      /\ \A t \in Tabs : page[t] \in Guarded => token # NoUser
                      /\ token # NoUser => username = token
<1>1. Init => Alone
  BY DEF Init, Alone
<1>2. SessionInv /\ Alone /\ [Next]_vars => Alone'
  BY AloneStep
<1>3. SessionInv /\ Alone => InOrder
  BY DEF Alone, SessionInv, PageIsOfItsAccount, SignedIn, NameIsOfItsAccount
<1> HIDE DEF InOrder
<1>4. Spec => []InOrder
  BY <1>1, <1>2, <1>3, SessionSafety, PTL DEF Spec
<1> QED
  BY <1>4 DEF InOrder
=============================================================================
