------------------------------- MODULE Server -------------------------------
(***************************************************************************)
(* The TCP server of crates/bashfuldb-protocol: the accept loop with its   *)
(* limit on connections, a task per connection (banner, AUTH handshake,    *)
(* command loop), and shutdown.  Clients send whole values ahead of the    *)
(* replies, cut one short, and close at any time.                          *)
(*                                                                         *)
(* A step of a connection runs from one await to the next.  Writing fails  *)
(* only once the client has closed, and then need not.  The commands are   *)
(* those of the handler in handler.rs.  Lines over max_line_length are not *)
(* modelled.                                                               *)
(***************************************************************************)
EXTENDS Auth, Resp

CONSTANTS
  Parse(_),       \* parse_command, of the lines on the wire
  Encode(_),      \* the lines of a value
  Conn,           \* connections that clients make
  MaxConnections, \* max_connections
  MaxErrors       \* MAX_CONSECUTIVE_ERRORS

ASSUME ServerAssumption ==
  IsFiniteSet(Conn) /\ MaxConnections \in Nat

VARIABLES
  tls,     \* TLS is configured, fixed
  server,  \* "up", "draining" or "down"
  permits, \* permits of the semaphore
  conn     \* conn[c]: connection c and its task

serverVars == <<tls, server, permits, conn>>

Nobody == 0
NoToken == [kind |-> "none", key |-> 0]

\* wire, out: lines the server has still to read, lines it has written; sent: history:
\* the values sent.
NewConn == [pc |-> "none", closed |-> FALSE, wire |-> <<>>, out |-> <<>>, errors |-> 0,
            cmd |-> Null, token |-> NoToken, user |-> Nobody, executed |-> 0,
            sent |-> <<>>]

Live(c) == conn[c].pc \notin {"none", "pending", "refused", "ended"}

ServerInit ==
  /\ tls \in BOOLEAN
  /\ server = "up"
  /\ permits = MaxConnections
  /\ conn = [c \in Conn |-> NewConn]

Set(c, r) == conn' = [conn EXCEPT ![c] = r]

\* The task ends, its permit with it.
End(c) ==
  /\ Set(c, [conn[c] EXCEPT !.pc = "ended", !.cmd = Null])
  /\ permits' = permits + 1

\* A reply is written and flushed, and the task goes on; or the write fails.
Written(r, v) == [r EXCEPT !.out = @ \o Encode(v)]
Write(c, r, v) ==
  \/ Set(c, Written(r, v)) /\ UNCHANGED permits
  \/ conn[c].closed /\ End(c)

\* The same, where the result of the write is ignored: an error was counted.
WriteError(c, r, text) ==
  \E written \in {TRUE, ~conn[c].closed} :
    LET s == IF written THEN Written(r, Error(text)) ELSE r
    IN  IF r.errors > MaxErrors
        THEN Set(c, [s EXCEPT !.pc = "ended", !.cmd = Null]) /\ permits' = permits + 1
        ELSE Set(c, s) /\ UNCHANGED permits

-----------------------------------------------------------------------------
\* A client connects, sends a value, or closes, perhaps within a value.
Connect(c) ==
  /\ conn[c].pc = "none" /\ server = "up"
  /\ Set(c, [conn[c] EXCEPT !.pc = "pending"])
  /\ UNCHANGED <<tls, server, permits>>

Send(c, v) ==
  /\ conn[c].pc # "none" /\ ~conn[c].closed
  /\ Set(c, [conn[c] EXCEPT !.sent = Append(@, v), !.wire = @ \o Encode(v)])
  /\ UNCHANGED <<tls, server, permits>>

CloseClient(c, cut) ==
  /\ conn[c].pc # "none" /\ ~conn[c].closed
  /\ Set(c, [conn[c] EXCEPT !.closed = TRUE, !.wire = IF cut THEN Append(@, Line("*", "", 1)) ELSE @])
  /\ UNCHANGED <<tls, server, permits>>

\* The accept loop.
Accept(c) ==
  /\ server = "up" /\ conn[c].pc = "pending"
  /\ IF permits = 0
     THEN Set(c, Written([conn[c] EXCEPT !.pc = "refused"], Error("max connections reached")))
          /\ UNCHANGED permits
     ELSE /\ Set(c, [conn[c] EXCEPT !.pc = IF tls THEN "tls" ELSE "banner"])
          /\ permits' = permits - 1
  /\ UNCHANGED <<tls, server>>

\* Shutdown: the loop ends and the listener is dropped ...
Shutdown ==
  /\ server = "up"
  /\ server' = "draining"
  /\ conn' = [c \in Conn |-> IF conn[c].pc = "pending" THEN [conn[c] EXCEPT !.pc = "refused"]
                             ELSE conn[c]]
  /\ UNCHANGED <<tls, permits>>

\* ... and run returns when every task has been joined.
Drained ==
  /\ server = "draining" /\ \A c \in Conn : ~Live(c)
  /\ server' = "down"
  /\ UNCHANGED <<tls, permits, conn>>

-----------------------------------------------------------------------------
TlsHandshake(c) ==
  /\ conn[c].pc = "tls"
  /\ \/ Set(c, [conn[c] EXCEPT !.pc = "banner"]) /\ UNCHANGED permits
     \/ End(c)
  /\ UNCHANGED <<tls, server, authVars>>

WriteBanner(c) ==
  /\ conn[c].pc = "banner"
  /\ Write(c, [conn[c] EXCEPT !.pc = "auth"], Simple("BASHFULDB"))
  /\ UNCHANGED <<tls, server, authVars>>

\* What parse_command finds on the wire.  An end of the lines is the end of the
\* stream only if the client has closed; else the task waits for more.
Reading(c) ==
  {p \in {Parse(conn[c].wire)} : p.result \notin {"eof", "UnexpectedEof"} \/ conn[c].closed}

\* The connection after parse p, and after one that failed: an error more.
Consumed(c, p) == [conn[c] EXCEPT !.wire = p.rest]
Erred(c, p) == [Consumed(c, p) EXCEPT !.errors = @ + 1]

\* The user that "user" stands for in an AUTH command, and the token that "token" stands
\* for, which is of a session that was there at the start.
KnownUser == 2
ClientToken ==
  [kind |-> "access", sub |-> KnownUser, tenant |-> users[KnownUser].tenant,
   roles |-> users[KnownUser].roles, iat |-> 1, exp |-> 1 + AccessTtl,
   key |-> IF mode = "rs256" THEN 1 ELSE 0]

\* auth_handshake: one command, up to the call of the authenticator.
Handshake(c) ==
  /\ conn[c].pc = "auth"
  /\ \E p \in Reading(c) :
       \/ p.result = "eof" /\ End(c)
       \/ p.result \notin {"eof", "ok"} /\ WriteError(c, Erred(c, p), p.result)
       \/ p.result = "ok" /\ NameOf(p.value) # "AUTH" /\ WriteError(c, Erred(c, p), "NOAUTH")
       \/ /\ p.result = "ok" /\ NameOf(p.value) = "AUTH"
          /\ LET args == ArgumentsOf(p.value) IN
             IF Len(args) \notin {1, 2} THEN WriteError(c, Erred(c, p), "USAGE")
             ELSE IF \E i \in DOMAIN args : args[i] = "bytes" THEN End(c)
             ELSE Set(c, [Consumed(c, p) EXCEPT !.cmd = p.value,
                            !.pc = IF Len(args) = 1 THEN "verify" ELSE "login"])
                  /\ UNCHANGED permits
  /\ UNCHANGED <<tls, server, authVars>>

\* The user is known; OK is written and the command loop begins.
Authenticated(c, id) ==
  Write(c, [conn[c] EXCEPT !.pc = "loop", !.user = id, !.errors = 0, !.cmd = Null,
                           !.token = NoToken], Simple("OK"))

Rejected(c) == WriteError(c, [conn[c] EXCEPT !.pc = "auth", !.errors = @ + 1, !.cmd = Null], "WRONGPASS")

\* AUTH with a token.
VerifyToken(c) ==
  /\ conn[c].pc = "verify"
  /\ IF ArgumentsOf(conn[c].cmd)[1] = "token" /\ Verify(ClientToken) = "ok"
     THEN Authenticated(c, ClientToken.sub)
     ELSE Rejected(c)
  /\ UNCHANGED <<tls, server, authVars>>

\* AUTH with a name and a password: login, ...
LoginUser(c) ==
  LET args == ArgumentsOf(conn[c].cmd) IN
  /\ conn[c].pc = "login"
  /\ IF args = <<"user", "right">>
     THEN /\ Login(KnownUser)
          /\ Set(c, [conn[c] EXCEPT !.pc = "verify_issued", !.token = Session(KnownUser).access])
          /\ UNCHANGED permits
     ELSE Rejected(c) /\ UNCHANGED authVars
  /\ UNCHANGED <<tls, server>>

\* ... and then verify of the token that login gave: if it fails, the connection
\* ends without a reply.
VerifyIssued_Trusts(c) ==
  /\ conn[c].pc = "verify_issued"
  /\ Authenticated(c, conn[c].token.sub)
  /\ UNCHANGED <<tls, server, authVars>>

VerifyIssued(c) ==
  /\ conn[c].pc = "verify_issued"
  /\ IF Verify(conn[c].token) = "ok" THEN Authenticated(c, conn[c].token.sub) ELSE End(c)
  /\ UNCHANGED <<tls, server, authVars>>

\* The command loop: a command is read, ...
ReadCommand_IgnoresEof(c) ==
  /\ conn[c].pc = "loop"
  /\ \E p \in Reading(c) :
       \/ p.result = "eof" /\ UNCHANGED <<conn, permits>>
       \/ /\ p.result = "ok"
          /\ Set(c, [Consumed(c, p) EXCEPT !.errors = 0, !.cmd = p.value, !.pc = "handle"])
          /\ UNCHANGED permits
       \/ p.result \notin {"eof", "ok"} /\ WriteError(c, Erred(c, p), p.result)
  /\ UNCHANGED <<tls, server, authVars>>

ReadCommand(c) ==
  /\ conn[c].pc = "loop"
  /\ \E p \in Reading(c) :
       \/ p.result = "eof" /\ End(c)
       \/ /\ p.result = "ok"
          /\ Set(c, [Consumed(c, p) EXCEPT !.errors = 0, !.cmd = p.value, !.pc = "handle"])
          /\ UNCHANGED permits
       \/ p.result \notin {"eof", "ok"} /\ WriteError(c, Erred(c, p), p.result)
  /\ UNCHANGED <<tls, server, authVars>>

\* (external) The handler's reply.
Reply(v) ==
  LET args == ArgumentsOf(v) IN
  CASE NameOf(v) = "PING" -> Simple("PONG")
    [] NameOf(v) = "ECHO" -> IF args = <<>> THEN Error("arguments") ELSE Bulk(args[1])
    [] OTHER -> Error("unknown command")

\* ... handled, unless the handler panics, which ends the task, ...
Handle(c) ==
  /\ conn[c].pc = "handle"
  /\ \/ Set(c, [conn[c] EXCEPT !.pc = "reply", !.executed = @ + 1]) /\ UNCHANGED permits
     \/ End(c)
  /\ UNCHANGED <<tls, server, authVars>>

\* ... and answered.
WriteReply(c) ==
  /\ conn[c].pc = "reply"
  /\ Write(c, [conn[c] EXCEPT !.pc = "loop", !.cmd = Null], Reply(conn[c].cmd))
  /\ UNCHANGED <<tls, server, authVars>>

TaskStep(c) ==
  \/ TlsHandshake(c) \/ WriteBanner(c) \/ Handshake(c) \/ VerifyToken(c) \/ LoginUser(c)
  \/ VerifyIssued(c) \/ ReadCommand(c) \/ Handle(c) \/ WriteReply(c)

\* The senders among the clients send at most limit of the values each.
ServerNext(clients, senders, frames, limit, cuts) ==
  \/ \E c \in clients :
       \/ TaskStep(c)
       \/ (Connect(c) \/ Accept(c)) /\ UNCHANGED authVars
       \/ \E v \in frames : c \in senders /\ Len(conn[c].sent) < limit /\ Send(c, v)
                            /\ UNCHANGED authVars
       \/ \E cut \in cuts : CloseClient(c, cut) /\ UNCHANGED authVars
  \/ (Shutdown \/ Drained) /\ UNCHANGED authVars

ServerFairness ==
  /\ \A c \in Conn : WF_<<authVars, serverVars>>(conn[c].closed /\ TaskStep(c))
  /\ WF_<<authVars, serverVars>>(Drained /\ UNCHANGED authVars)

-----------------------------------------------------------------------------
\* What the connections and the server are to Sessions.
PhaseOf(pc) ==
  IF pc \in {"none", "pending", "refused"} THEN "away"
  ELSE IF pc \in {"loop", "handle", "reply"} THEN "entered"
  ELSE IF pc = "ended" THEN "gone"
  ELSE "open"

Phases == [c \in Conn |-> PhaseOf(conn[c].pc)]
Entrants == [c \in Conn |-> conn[c].user]
Executions == [c \in Conn |-> conn[c].executed]
Serving == IF server = "up" THEN "yes" ELSE IF server = "draining" THEN "closing" ELSE "no"

\* The users with an access token that verifies, and whose token or password the
\* connections that wait for verify have sent.
Valid == {s.access.sub : s \in {t \in sessions : Verify(t.access) = "ok"}}
Shown ==
  [c \in Conn |->
     IF \/ conn[c].pc = "verify" /\ ArgumentsOf(conn[c].cmd)[1] = "token"
        \/ conn[c].pc = "verify_issued" /\ ArgumentsOf(conn[c].cmd) = <<"user", "right">>
     THEN KnownUser ELSE Nobody]

Promised == INSTANCE Sessions WITH
  phase <- Phases, user <- Entrants, executed <- Executions, serving <- Serving,
  valid <- Valid, shown <- Shown

(* The server implements Sessions: whatever clients send, and however login,
   logout, expiry, panics and shutdown interleave, at most MaxConnections tasks
   are alive, commands are executed only on connections that entered for the user
   whose token or password they sent, while that user had an access token which
   verified, no task starts after shutdown, and run returns only when the last
   has ended.                                                                *)
KeepsPromise == Promised!Spec

(* After shutdown, once every client with a connection has closed it, the server
   ends.  Tasks are scheduled fairly; nothing makes a client close, and a server
   whose clients stay connected never ends: no step of a task has a timeout. *)
ShutdownDrains ==
  (server = "draining" /\ \A c \in Conn : Live(c) => conn[c].closed) ~> (server = "down")
=============================================================================
