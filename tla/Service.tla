------------------------------ MODULE Service -------------------------------
(***************************************************************************)
(* What a node offers to its clients: the accounts and tokens of Auth, the *)
(* RESP server of Server and the HTTP handlers of Api, which both verify   *)
(* their tokens with Auth, and the pages of Pagination.                    *)
(*                                                                         *)
(* A behaviour is about one of seven scenarios, chosen at the start: the   *)
(* parts that a scenario is not about stay as they are.                    *)
(***************************************************************************)
EXTENDS Server, Parser, Api, Pagination

VARIABLE scenario

serviceVars == <<scenario, authVars, serverVars, apiVars, pageVars>>

Scenario == {"users", "tokens", "framing", "connections", "keys", "objects", "pages"}

-----------------------------------------------------------------------------
Cmd(texts) == Array([i \in DOMAIN texts |-> Bulk(texts[i])])

\* Every answer of the handshake, then commands, what is not a command, and what cannot
\* be read: the last four leave a rest.
Frames ==
  {Cmd(<<"auth", "token">>), Cmd(<<"AUTH", "user", "right">>), Cmd(<<"AUTH", "user", "wrong">>),
   Cmd(<<"AUTH">>), Cmd(<<"PING">>), Array(<<Bulk("ECHO"), Null>>), Array(<<>>), Array(<<Null, Bulk("x")>>),
   Junk(""), Array(<<Bulk("ECHO"), Junk(":")>>), Array(<<Junk("$"), Bulk("x")>>),
   Cmd(<<"ECHO", "big">>), Cmd(<<"ECHO", "long">>), Array(<<Bulk("ECHO"), Array(<<Bulk("x")>>)>>)}

OneConn == {CHOOSE c \in Conn : TRUE}

Ask(op, id, key, payload, tag) ==
  [NewRequest EXCEPT !.op = op, !.id = id, !.key = key, !.payload = payload, !.tag = tag]

Keyed == {Ask("create", 0, k, p, NoTag) : k \in IdemKey, p \in Payload}
         \cup {Ask("upsert", 1, k, p, NoTag) : k \in IdemKey, p \in Payload}

\* Somebody asks once more when the others are through.
Retry == {Ask("create", 0, k, CHOOSE p \in Payload : TRUE, NoTag) : k \in IdemKey}

Tagged ==
  {Ask(op, 0, NoKey, Malformed, NoTag) : op \in {"list", "nodes"}}
  \cup {Ask("get", 1, NoKey, Malformed, NoTag)}
  \cup {Ask("delete", 1, NoKey, Malformed, tag) : tag \in {NoTag, 1}}
  \cup {Ask("upsert", 1, NoKey, p, tag) : p \in Payload, tag \in {AnyTag, 1}}
  \cup {Ask(op, IF op = "create" THEN 0 ELSE 1, NoKey, p, NoTag) :
          op \in {"create", "upsert"}, p \in {Malformed, NoObject}}

Init ==
  /\ scenario \in Scenario
  /\ IF scenario = "users" THEN AuthInit /\ mode = "hs256"
     ELSE /\ AuthReady
          /\ scenario # "tokens" => mode = "rs256"
          /\ sessions = IF scenario = "tokens" THEN {}
                        ELSE IF scenario = "objects" THEN {Session(1), Session(2)} ELSE {Session(2)}
  /\ ServerInit /\ (scenario # "framing" => ~tls)
  /\ ApiInit
  /\ IF scenario = "pages" THEN PageInit
     ELSE /\ listing = <<>> /\ limit = 0 /\ cursor = NoCursor /\ walking = FALSE /\ seen = <<>>
          /\ steady = {} /\ rewound = FALSE /\ edits = 0

AuthScenario ==
  /\ \/ scenario = "users" /\ UsersNext({NoId, 2})
     \/ scenario = "tokens" /\ TokensNext(CHOOSE k \in Caller : TRUE)
  /\ UNCHANGED <<serverVars, apiVars, pageVars>>

ServerScenario ==
  /\ \/ scenario = "framing" /\ ServerNext(OneConn, Conn, Frames, IF tls THEN 1 ELSE 3, BOOLEAN)
     \/ scenario = "connections"
        /\ \/ ServerNext(Conn, Conn \ OneConn, {Cmd(<<"AUTH", "user", "right">>)}, 1, {FALSE})
           \/ ((now = 1 /\ AuthTick) \/ \E s \in sessions : Logout(s)) /\ UNCHANGED serverVars
  /\ UNCHANGED <<apiVars, pageVars>>

ApiScenario ==
  /\ \/ scenario = "keys"
        /\ \/ ApiNext(2, Keyed, {"none"}) /\ UNCHANGED authVars
           \/ now = 2 /\ {1, 2} \subseteq Ended /\ ApiNext(3, Retry, {"none"}) /\ UNCHANGED authVars
           \/ now = 1 /\ AuthTick /\ UNCHANGED apiVars
           \/ now = 2 /\ Cardinality(sessions) = 1 /\ Login(2) /\ UNCHANGED apiVars
     \/ scenario = "objects" /\ ApiNext(2, Tagged, {"none", "path", "query"}) /\ UNCHANGED authVars
  /\ UNCHANGED <<serverVars, pageVars>>

PageScenario ==
  scenario = "pages" /\ PageNext /\ UNCHANGED <<authVars, serverVars, apiVars>>

Next == (AuthScenario \/ ServerScenario \/ ApiScenario \/ PageScenario) /\ UNCHANGED scenario

Spec == Init /\ [][Next]_serviceVars /\ ServerFairness

-----------------------------------------------------------------------------
\* The values in a sequence of lines, as a client reads them.
RECURSIVE Values(_)
Values(lines) ==
  With(ParseFrame(lines, 0), LAMBDA p :
    IF p.result = "ok" THEN <<p.value>> \o Values(p.rest) ELSE <<>>)

AllLines(vs) == FlattenSeq([i \in DOMAIN vs |-> Serialize(vs[i])])

Answers(r, v) ==
  IF ~IsCommand(v) THEN r = Error("Malformed")
  ELSE \/ r = Reply(v)
       \/ r = Error("NOAUTH") /\ NameOf(v) # "AUTH"
       \/ r \in {Simple("OK"), Error("WRONGPASS"), Error("USAGE")} /\ NameOf(v) = "AUTH"

\* What parse_frame cannot read, depth levels down, and what it does not read to the
\* end: it stops at the first header or payload that it cannot read.
RECURSIVE Unreadable(_, _), LeavesRest(_, _)
Unreadable(v, depth) ==
  \/ v.type = "junk" \/ (v.type = "bulk" /\ v.text \in {"big", "long"})
  \/ v.items # <<>> /\ (depth = MaxDepth \/ \E i \in DOMAIN v.items : Unreadable(v.items[i], depth + 1))
LeavesRest(v, depth) ==
  \/ v.type = "bulk" /\ v.text \in {"big", "long"}
  \/ v.items # <<>> /\ depth = MaxDepth
  \/ depth < MaxDepth /\ \E i \in DOMAIN v.items :
       IF i < Len(v.items) THEN Unreadable(v.items[i], depth + 1) ELSE LeavesRest(v.items[i], depth + 1)

(* Replies are to values in the order they were sent, one each, also when clients
   send ahead, and when a value is no command or cannot be read: it has then been
   read to its end before the error is answered, and everything written can be read
   back.  Only values that parse_frame leaves a rest of lose this order: after an
   error it goes on where it stopped, and takes the rest for further values. *)
RepliesInOrder ==
  \A c \in Conn :
    LET r == conn[c]
        replies == Values(r.out)
        busy == IF r.pc \in {"verify", "login", "verify_issued", "handle", "reply"} THEN 1 ELSE 0
    IN  Live(c) /\ r.pc \notin {"tls", "banner"} /\ ~r.closed
          /\ (\A i \in DOMAIN r.sent : ~LeavesRest(r.sent[i], 0)) =>
          \E k \in 0 .. Len(r.sent) :
            /\ r.wire = AllLines(SubSeq(r.sent, k + 1, Len(r.sent)))
            /\ Len(replies) = 1 + k - busy
            /\ \A i \in 2 .. Len(replies) : Answers(replies[i], r.sent[i - 1])
=============================================================================
