-------------------------------- MODULE Api ---------------------------------
(***************************************************************************)
(* The REST API as a page of src/frontend/src/pages sees it: calls of      *)
(* fetch that are under way, each with a life of its own, and the user's   *)
(* rows in the table Expenses.  What a call may come back with is what     *)
(* Backend gives: its answers when the link to MySQL is lost included.     *)
(***************************************************************************)
EXTENDS Naturals

CONSTANTS
    Ids,        \* the rows there may be
    NoId,       \* null
    Calls       \* as many calls as may be under way at once

ASSUME NoIdAssumption == NoId \notin Ids

Kinds == {"list", "savings", "post", "delete"}

\* What a page tells apart: 200 or 201, 401, another status, and a fetch that
\* rejects.  The last two are the same but to a deletion and to the savings.
Statuses == {"ok", "unauthorized", "failed", "network"}

\* A call, and what it came back with.
Call == [kind : Kinds, id : Ids \cup {NoId}, status : Statuses \cup {"sent"}, list : SUBSET Ids]
NoCall == [kind |-> "none", id |-> NoId, status |-> "none", list |-> {}]

VARIABLES
    rows,    \* the rows of the user in the table Expenses
    used,    \* the ids ever given: AUTO_INCREMENT gives none twice
    call     \* call[c]: a call under way, or NoCall

apiVars == <<rows, used, call>>

ApiTypeOK ==
    /\ rows \subseteq used
    /\ used \subseteq Ids
    /\ call \in [Calls -> Call \cup {NoCall}]
    /\ \A c \in Calls : call[c].kind = "delete" => call[c].id \in Ids

Sent(kind, id) == [kind |-> kind, id |-> id, status |-> "sent", list |-> {}]

\* The page has just been mounted: its first call is for the list.
ApiInit ==
    /\ rows \in SUBSET Ids
    /\ used = rows
    /\ \E c \in Calls : call = [d \in Calls |-> IF d = c THEN Sent("list", NoId) ELSE NoCall]

Back(c, kind) == call[c].kind = kind /\ call[c].status # "sent"

\* The call of c comes back, to the page that waits for it.
Return(c, status, list) ==
    call' = [call EXCEPT ![c].status = status, ![c].list = list]

-----------------------------------------------------------------------------

\* GET: the rows; the empty list, with the same 200, when the query failed; or
\* no list at all.
ServeList(c) ==
    /\ call[c].kind = "list"
    /\ \/ Return(c, "ok", rows)
       \/ Return(c, "ok", {})
       \/ \E s \in {"unauthorized", "failed"} : Return(c, s, {})
    /\ UNCHANGED <<rows, used>>

\* Any response is the same to the page.
ServeSavings(c) ==
    /\ call[c].kind = "savings"
    /\ \E s \in {"ok", "network"} : Return(c, s, {})
    /\ UNCHANGED <<rows, used>>

\* Mutant: a free id is one that no row has now.
ServePostReusing(c) ==
    /\ call[c].kind = "post"
    /\ \/ /\ \E x \in Ids \ rows : rows' = rows \cup {x} /\ used' = used \cup {x}
          /\ \E s \in {"ok", "failed"} : Return(c, s, {})
       \/ /\ \E s \in {"unauthorized", "failed"} : Return(c, s, {})
          /\ UNCHANGED <<rows, used>>

\* POST: a row more, and 201; an answer that was lost, or a link to MySQL lost
\* after the INSERT, leave the row there, too.
ServePost(c) ==
    /\ call[c].kind = "post"
    /\ \/ /\ \E x \in Ids \ used : rows' = rows \cup {x} /\ used' = used \cup {x}
          /\ \E s \in {"ok", "failed"} : Return(c, s, {})
       \/ /\ \E s \in {"unauthorized", "failed"} : Return(c, s, {})
          /\ UNCHANGED <<rows, used>>

\* Mutant: an exception of the query is caught, and 200 given all the same.
ServeDeleteSwallowing(c) ==
    /\ call[c].kind = "delete"
    /\ rows' \in {rows, rows \ {call[c].id}}
    /\ \E s \in Statuses : Return(c, s, {})
    /\ UNCHANGED used

\* DELETE: 200 means that there is no such row any more.
ServeDelete(c) ==
    /\ call[c].kind = "delete"
    /\ \/ /\ rows' = rows \ {call[c].id}
          /\ \E s \in {"ok", "failed", "network"} : Return(c, s, {})
       \/ /\ \E s \in Statuses \ {"ok"} : Return(c, s, {})
          /\ UNCHANGED rows
    /\ UNCHANGED used

Serve(c) ==
    /\ call[c].status = "sent"
    /\ ServeList(c) \/ ServeSavings(c) \/ ServePost(c) \/ ServeDelete(c)
=============================================================================
