-------------------------------- MODULE Api ---------------------------------
(***************************************************************************)
(* The HTTP handlers of crates/bashfuldb-api: the token check in front of  *)
(* them, the object handlers with their idempotency cache and If-Match,    *)
(* the listing and admin handlers.                                         *)
(*                                                                         *)
(* A step of a request runs from one await to the next.  The coordinator   *)
(* is what its callers see: a register per object that a read returns or   *)
(* fails to return, a write that succeeds, or fails and may have happened  *)
(* nevertheless, and a cache of its own for idempotency keys.  An ETag is  *)
(* the version it was made from, a payload is its own hash, and the body   *)
(* of a response is the id in it.  A client that disconnects cancels its   *)
(* request where it is.                                                    *)
(***************************************************************************)
EXTENDS Auth, Integers

CONSTANTS
  MaxRequests,   \* bound: requests, numbered as they arrive
  Payload, Malformed, NoObject, \* bodies; one that is no JSON, one that is no JSON object
  IdemKey, NoKey,
  KeyRetention,  \* RETENTION and TTL of the two caches
  MaxObjects,    \* bound: object ids
  NoDoc

ASSUME ApiAssumption == KeyRetention \in Nat

VARIABLES
  req,      \* req[r]: request r
  objects,  \* objects[id]: the register of an object
  version,  \* the last version written
  cache,    \* the API's idempotency cache
  ccache    \* the coordinator's

Request == 1 .. MaxRequests

apiVars == <<req, objects, version, cache, ccache>>

NoTag == 0   \* no If-Match
AnyTag == -1 \* If-Match: *

\* before, blind, replaced, replayed: history: the requests that had ended when this
\* one began; its read failed, or another write came between its read and its write;
\* what its write replaced, see Current; the answer came from a cache.
NewRequest == [pc |-> "new", op |-> "none", id |-> 0, key |-> NoKey, payload |-> Malformed,
               tag |-> NoTag, is_new |-> FALSE, status |-> 0, at |-> 0,
               before |-> {}, blind |-> FALSE, replaced |-> 0, replayed |-> FALSE]

ApiInit ==
  /\ req = [r \in Request |-> NewRequest]
  /\ objects = [id \in 1 .. MaxObjects |->
       IF id = 1 THEN [doc |-> CHOOSE p \in Payload : TRUE, version |-> 1]
       ELSE [doc |-> NoDoc, version |-> 0]]
  /\ version = 1
  /\ cache = <<>> /\ ccache = <<>>

ActionOf == [list |-> "Read", get |-> "Read", create |-> "Create", upsert |-> "Update",
             delete |-> "Delete", nodes |-> "ManageCluster", ring |-> "ManageCluster"]

To(r, pc) == [req[r] EXCEPT !.pc = pc]
Answer(q, status) == [q EXCEPT !.pc = "done", !.status = status, !.at = now]
SetReq(r, q) == req' = [req EXCEPT ![r] = q]
Ended == {r \in Request : req[r].pc \in {"done", "cancelled"}}

\* auth_middleware; the names and ids in the path; the authorizer; for a listing, the
\* cursor and the filter, which must be an indexed field.
Refusal(token, flaw, op, tenant) ==
  IF Verify(token) # "ok" THEN 401
  ELSE IF flaw = "path" /\ op \notin {"nodes", "ring"} THEN 400
  ELSE IF ~Check(token, ActionOf[op], tenant) THEN 403
  ELSE IF flaw = "query" /\ op = "list" THEN 400
  ELSE 0

\* list_objects answers with an empty page, the admin handlers with empty lists.
Begin(r, q, token, flaw, tenant) ==
  LET refusal == Refusal(token, flaw, q.op, tenant) IN
  /\ req[r].pc = "new" /\ \A s \in 1 .. r - 1 : req[s].pc # "new"
  /\ SetReq(r, IF refusal # 0 THEN [Answer(q, refusal) EXCEPT !.before = Ended]
               ELSE IF q.op \in {"list", "nodes", "ring"} THEN [Answer(q, 200) EXCEPT !.before = Ended]
               ELSE [q EXCEPT !.before = Ended,
                              !.pc = IF q.op \in {"get", "delete"} THEN "read"
                                     ELSE IF q.key # NoKey THEN "lookup" ELSE "parse"])
  /\ UNCHANGED <<objects, version, cache, ccache>>

-----------------------------------------------------------------------------
\* Both caches drop what is too old before they look; what a key maps to.
Pruned(c) ==
  LET fresh == {k \in DOMAIN c : now - c[k].at < KeyRetention} IN [k \in fresh |-> c[k]]
Stored(c, key, entry) == [k \in DOMAIN c \cup {key} |-> IF k = key THEN entry ELSE c[k]]

\* IdempotencyCache::get: replay, conflict, or go on.
LookUp_KeyOnly(r) ==
  LET c == Pruned(cache)  q == req[r] IN
  /\ q.pc = "lookup"
  /\ cache' = c
  /\ SetReq(r, IF q.key \notin DOMAIN c THEN To(r, "parse")
               ELSE [Answer(q, c[q.key].status) EXCEPT !.id = c[q.key].id, !.replayed = TRUE])
  /\ UNCHANGED <<objects, version, ccache>>

LookUp(r) ==
  LET c == Pruned(cache)  q == req[r] IN
  /\ q.pc = "lookup"
  /\ cache' = c
  /\ SetReq(r, IF q.key \notin DOMAIN c THEN To(r, "parse")
               ELSE IF c[q.key].payload # q.payload THEN Answer(q, 409)
               ELSE [Answer(q, c[q.key].status) EXCEPT !.id = c[q.key].id, !.replayed = TRUE])
  /\ UNCHANGED <<objects, version, ccache>>

Unused == {id \in 1 .. MaxObjects : objects[id].version = 0 /\ \A r \in Request : req[r].id # id}

\* The body; create_object takes a random id (one that is not used stands for all),
\* upsert_object reads the object first.
ParseBody(r) ==
  LET q == req[r] IN
  /\ q.pc = "parse"
  /\ IF q.payload = Malformed THEN SetReq(r, Answer(q, 400))
     ELSE IF q.op = "upsert" THEN SetReq(r, To(r, "read"))
     ELSE IF q.payload = NoObject THEN SetReq(r, Answer(q, 400))
     ELSE /\ Unused # {}
          /\ SetReq(r, [To(r, IF q.key = NoKey THEN "write" ELSE "check") EXCEPT
                          !.id = CHOOSE id \in Unused : TRUE, !.is_new = TRUE])
  /\ UNCHANGED <<objects, version, cache, ccache>>

\* check_if_match.
Matches_Always(tag, current) == TRUE
Matches(tag, current) == tag \in {NoTag, AnyTag, current}

\* What follows a quorum_read of a request: get_object, upsert_object (which takes a
\* read that failed for an object that does not exist, and does not look at If-Match
\* for one that does not exist) and delete_object.
AfterRead(r, ok) ==
  LET q == req[r]
      found == ok /\ objects[q.id].doc # NoDoc
      next == IF q.op = "upsert" /\ q.payload = NoObject THEN Answer(q, 400)
              ELSE To(r, IF q.op = "delete" \/ q.key = NoKey THEN "write" ELSE "check")
  IN
  IF q.op = "upsert" /\ ~found THEN [next EXCEPT !.is_new = TRUE, !.blind = ~ok]
  ELSE IF ~ok THEN Answer(q, 504)
  ELSE IF ~found THEN Answer(q, 404)
  ELSE IF q.op = "get" THEN Answer(q, 200)
  ELSE IF ~Matches(q.tag, objects[q.id].version) THEN Answer(q, 412)
  ELSE next

ReadObject(r) ==
  /\ req[r].pc = "read"
  /\ \E ok \in BOOLEAN : SetReq(r, AfterRead(r, ok))
  /\ UNCHANGED <<objects, version, cache, ccache>>

\* quorum_write looks in the coordinator's cache, which compares id and payload.
CheckKey(r) ==
  LET c == Pruned(ccache)  q == req[r] IN
  /\ q.pc = "check"
  /\ ccache' = c
  /\ SetReq(r, IF q.key \notin DOMAIN c THEN To(r, "write")
               ELSE IF c[q.key].id # q.id \/ c[q.key].payload # q.payload THEN Answer(q, 409)
               ELSE [To(r, "store") EXCEPT !.replayed = TRUE])
  /\ UNCHANGED <<objects, version, cache>>

\* The version of an object, none if it does not exist.
Current(object) == IF object.doc = NoDoc THEN 0 ELSE object.version

SuccessOf(q) == IF q.op = "delete" THEN 204 ELSE IF q.is_new THEN 201 ELSE 200

\* The write itself: whoever has read the object and not yet written is overtaken.
Applied(r) ==
  LET q == req[r] IN
  /\ version' = version + 1
  /\ objects' = [objects EXCEPT ![q.id] =
       [doc |-> IF q.op = "delete" THEN NoDoc ELSE q.payload, version |-> version + 1]]

Overtaken(r) ==
  [s \in Request |-> [req[s] EXCEPT !.blind =
     @ \/ (s # r /\ req[s].id = req[r].id /\ req[s].pc \in {"check", "write"})]]

WriteObject(r) ==
  LET q == req[r]
      done == [q EXCEPT !.replaced = Current(objects[q.id])]
  IN
  /\ q.pc = "write"
  /\ \/ /\ Applied(r)
        /\ req' = [Overtaken(r) EXCEPT ![r] =
             IF q.key = NoKey THEN Answer(done, SuccessOf(q)) ELSE [done EXCEPT !.pc = "store"]]
        /\ ccache' = IF q.key = NoKey THEN ccache
                     ELSE Stored(Pruned(ccache), q.key, [id |-> q.id, payload |-> q.payload, at |-> now])
     \/ Applied(r) /\ req' = [Overtaken(r) EXCEPT ![r] = Answer(q, 504)] /\ UNCHANGED ccache
     \/ SetReq(r, Answer(q, 504)) /\ UNCHANGED <<objects, version, ccache>>
  /\ UNCHANGED cache

\* IdempotencyCache::store, and the response.
StoreAnswer(r) ==
  LET q == req[r] IN
  /\ q.pc = "store"
  /\ cache' = Stored(cache, q.key, [payload |-> q.payload, id |-> q.id,
                                    status |-> SuccessOf(q), at |-> now])
  /\ SetReq(r, Answer(q, SuccessOf(q)))
  /\ UNCHANGED <<objects, version, ccache>>

Cancel(r) ==
  /\ req[r].pc \notin {"new", "done", "cancelled"}
  /\ SetReq(r, To(r, "cancelled"))
  /\ UNCHANGED <<objects, version, cache, ccache>>

RequestStep(r) ==
  LookUp(r) \/ ParseBody(r) \/ ReadObject(r) \/ CheckKey(r) \/ WriteObject(r) \/ StoreAnswer(r) \/ Cancel(r)

\* At most max requests, of the given kinds, with any session's token.
ApiNext(max, kinds, flaws) ==
  \E r \in Request :
    \/ RequestStep(r)
    \/ r <= max /\ \E q \in kinds, s \in sessions, flaw \in flaws :
         \E t \in IF q.op \in {"nodes", "ring"} THEN {NoTenant} ELSE Tenant :
           Begin(r, q, s.access, flaw, t)

-----------------------------------------------------------------------------
Apart(r, s) == r \in req[s].before \/ s \in req[r].before
SameKey(r, s) == r # s /\ req[r].key = req[s].key /\ req[r].key # NoKey

(* A request that repeats one with its key, after that one was answered 201 and
   within the retention, and that is answered 201 itself, had the same payload and
   is given the same object; and 409 is answered only if some request had the key
   with another payload.  The exception is requests with the key that overlapped,
   or one that was cancelled: the cache is looked up and filled under two
   different locks, and the coordinator, whose cache is filled first, compares the
   random id that every attempt of create_object makes anew.                 *)
RepeatsAgree ==
  \A q \in Request : req[q].pc = "done" /\ req[q].op = "create"
                     /\ (\A r \in Request : SameKey(q, r) => Apart(q, r) /\ req[r].pc # "cancelled") =>
    /\ \A r \in Request :
         /\ SameKey(q, r) /\ r \in req[q].before /\ req[r].op = "create"
         /\ req[r].status = 201 /\ ~req[r].replayed /\ req[q].status = 201
         /\ req[q].at < req[r].at + KeyRetention
         /\ \A s \in Request : SameKey(r, s) => Apart(r, s)
         => req[q].id = req[r].id /\ req[q].payload = req[r].payload
    /\ req[q].status = 409 => \E r \in Request : SameKey(q, r) /\ req[r].payload # req[q].payload

(* An update or a delete with If-Match that succeeds has replaced the version the
   client named, or has created the object, with 201, where there was none:
   upsert_object does not compare If-Match with an object that does not exist.
   The exceptions are a request whose read failed, since upsert_object takes that for
   an object that does not exist as well, and one that another write overtook, since
   the check and the write are two calls of the coordinator.                 *)
ConditionalWrite ==
  \A r \in Request :
    LET q == req[r] IN
    q.status \in {200, 201, 204} /\ q.op \in {"upsert", "delete"} /\ q.tag > 0
      /\ ~q.replayed /\ ~q.blind
      => q.replaced = q.tag \/ (q.status = 201 /\ q.replaced = 0)
=============================================================================
