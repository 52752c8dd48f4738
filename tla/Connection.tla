----------------------------- MODULE Connection -----------------------------
(***************************************************************************)
(* The one MYSQL* handle of DBManager: what libmariadb remembers of the    *)
(* dialogue, the statements on their way to the server and the packets on  *)
(* their way back.  The library is modelled from how db_manager.cpp uses   *)
(* it: mysql_query sends and reads the first reply, mysql_store_result     *)
(* reads the rows.  MYSQL_OPT_RECONNECT is never set: a connection that is *)
(* lost stays lost for the life of the process.                            *)
(***************************************************************************)
EXTENDS Database

\* A reply: "ok" or "err" to a command, "header" then "rows" to a SELECT.
Packet == [kind : {"ok", "err", "header", "rows"}, req : Requests]

VARIABLES
    link,     \* the socket: "up" or "down"
    status,   \* mysql->status: "ready", or "get_result" between header and rows
    fields,   \* mysql->fields: the columns of a pending result are known
    sent,     \* statements sent and not yet executed, by request
    stream,   \* packets written by the server and not yet read
    late      \* statements of lost connections that MySQL may still execute

connVars == <<link, status, fields, sent, stream, late>>

ConnTypeOK ==
    /\ link \in {"up", "down"}
    /\ status \in {"ready", "get_result"}
    /\ fields \in BOOLEAN
    /\ sent \in Seq(Requests)
    /\ stream \in Seq(Packet)
    /\ late \subseteq Requests

\* mysql_init and mysql_real_connect, done once, before the server starts.
ConnInit ==
    /\ link = "up"
    /\ status = "ready"
    /\ fields = FALSE
    /\ sent = <<>>
    /\ stream = <<>>
    /\ late = {}

\* A statement that has left the client may reach MySQL, and be executed, whether
\* or not there is still anybody to take its reply.
LeaveBehind ==
    /\ late' = late \cup {sent[m] : m \in DOMAIN sent}
    /\ sent' = <<>>

\* A new process has a new handle and a new socket.
Reconnected ==
    /\ LeaveBehind
    /\ link' = "up"
    /\ status' = "ready"
    /\ fields' = FALSE
    /\ stream' = <<>>

-----------------------------------------------------------------------------

\* Mutant: in sync or not.
CanSendOutOfSync == link = "up"

\* mysql_query sends only on a connection that is there and in sync.
CanSend == link = "up" /\ status = "ready"

\* Mutant: a retry that does not wait for the first attempt's reply.
SendTwice(r) ==
    /\ CanSend
    /\ sent' = sent \o <<r, r>>
    /\ fields' = FALSE
    /\ UNCHANGED <<link, status, stream, late>>

Send(r) ==
    /\ CanSend
    /\ sent' = Append(sent, r)
    /\ fields' = FALSE
    /\ UNCHANGED <<link, status, stream, late>>

\* CR_SERVER_GONE_ERROR or CR_COMMANDS_OUT_OF_SYNC.  The library may have
\* forgotten the columns of the pending result before it noticed.
SendFails ==
    /\ ~CanSend
    /\ fields' \in {fields, FALSE}
    /\ UNCHANGED <<link, status, sent, stream, late>>

\* What the server writes back for a statement.
ReplyTo(r, accepted, selects) ==
    IF ~accepted THEN <<[kind |-> "err", req |-> r]>>
    ELSE IF selects THEN <<[kind |-> "header", req |-> r], [kind |-> "rows", req |-> r]>>
    ELSE <<[kind |-> "ok", req |-> r]>>

HeadIs(kind) == stream # <<>> /\ Head(stream).kind = kind

\* There is nothing more to read, ever.
Gone == link = "down" /\ stream = <<>>

\* The three ways to read the first reply: OK, an error, the columns of a result.
TakeOk ==
    /\ fields' = FALSE
    /\ stream' = Tail(stream)
    /\ UNCHANGED <<link, status, sent, late>>

TakeError == TakeOk

TakeHeader ==
    /\ fields' = TRUE
    /\ status' = "get_result"
    /\ stream' = Tail(stream)
    /\ UNCHANGED <<link, sent, late>>

\* mysql_store_result has a result to read.
ResultPending == fields /\ status = "get_result"

\* It hands the columns over to the result and is ready for the next command.
TakeRows ==
    /\ fields' = FALSE
    /\ status' = "ready"
    /\ stream' = IF stream = <<>> THEN <<>> ELSE Tail(stream)
    /\ UNCHANGED <<link, sent, late>>

\* The connection is closed (wait_timeout, a server's shutdown, a packet it cannot
\* read, the network).  Any part of what the server had written may still arrive.
LoseLink ==
    /\ link = "up"
    /\ link' = "down"
    /\ LeaveBehind
    /\ \E n \in 0..Len(stream) : stream' = SubSeq(stream, 1, n)
    /\ UNCHANGED <<status, fields>>
=============================================================================
