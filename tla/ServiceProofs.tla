---------------------------- MODULE ServiceProofs ---------------------------
(***************************************************************************)
(* What a node offers to its clients, for any number of requests, objects, *)
(* payloads, keys, users, tokens and connections.                          *)
(*                                                                         *)
(* If-Match: what a request has compared stays true up to its write unless *)
(* another write overtakes it, whatever the authenticator does meanwhile.  *)
(* Idempotency keys: what the two caches hold, and what a request that     *)
(* found nothing in the first may find in the second.  Accounts and        *)
(* tokens: what the calls of the authenticator keep between their locks.   *)
(* Connections: what follows from Sessions, and so for the TCP server      *)
(* wherever it implements Sessions.                                        *)
(***************************************************************************)
EXTENDS Api, Sessions, FiniteSetTheorems, TLAPS

Op == {"list", "get", "create", "upsert", "delete", "nodes", "ring"}
Ids == 1 .. MaxObjects

RequestType ==
  [pc : {"new", "lookup", "parse", "read", "check", "write", "store", "done", "cancelled"},
   op : Op \cup {"none"}, id : Ids \cup {0}, key : IdemKey \cup {NoKey},
   payload : Payload \cup {Malformed, NoObject}, tag : Int, is_new : BOOLEAN, status : Nat,
   at : Nat, before : SUBSET Request, blind : BOOLEAN, replaced : Int, replayed : BOOLEAN]

\* What clients may ask for: a request as NewRequest has it, with its input filled in;
\* only create_object and upsert_object look at an Idempotency-Key.
Asked ==
  {q \in RequestType :
     /\ q.pc = "new" /\ q.op # "none" /\ (q.op \in {"get", "upsert", "delete"} => q.id \in Ids)
     /\ q.status = 0 /\ ~q.is_new /\ ~q.blind /\ ~q.replayed
     /\ q.key # NoKey => q.op \in {"create", "upsert"}}

ApiStep == ApiNext(MaxRequests, Asked, {"none", "path", "query"}) /\ UNCHANGED authVars
OtherStep == now' \in Nat /\ UNCHANGED apiVars
allVars == <<authVars, apiVars>>
ApiSpec == ApiInit /\ now \in Nat /\ [][ApiStep \/ OtherStep]_allVars

\* A request with If-Match that may still succeed, or has, under its condition.
Conditional(q) ==
  q.op \in {"upsert", "delete"} /\ q.tag > 0 /\ ~q.blind /\ ~q.replayed

\* Where a request of each kind can be.
Placed(q) ==
  /\ q.pc \in {"lookup", "parse"} => q.op \in {"create", "upsert"} /\ (q.op = "upsert" => q.id \in Ids)
  /\ q.pc \in {"read", "check", "write", "store"} => q.id \in Ids
  /\ q.pc # "done" => q.status = 0
  /\ q.op = "delete" => ~q.is_new
  /\ q.op = "upsert" /\ q.is_new /\ q.status \in {200, 201, 204} /\ ~q.replayed => q.status = 201

\* Up to its write the version is the one it asked for, or there is no object and the
\* request creates one; from then on that is what it has replaced.
Fits(q, v) == v = q.tag \/ (q.is_new /\ v = 0)

Sound(q, objs) ==
  /\ Conditional(q) /\ q.pc \in {"check", "write"} => Fits(q, Current(objs[q.id]))
  /\ Conditional(q) /\ (q.pc = "store" \/ q.status \in {200, 201, 204}) => Fits(q, q.replaced)

Stores ==
  /\ now \in Nat
  /\ version \in Int
  /\ objects = [id \in Ids |-> objects[id]] /\ \A id \in Ids : objects[id].version \in Int
  /\ \A k \in DOMAIN cache : cache[k].id \in Ids /\ cache[k].status \in Nat

IInv ==
  /\ Stores
  /\ req = [r \in Request |-> req[r]]
  /\ \A r \in Request : req[r] \in RequestType /\ Placed(req[r]) /\ Sound(req[r], objects)

\* Sound, for a request that is between its read and its write, has written, or neither.
LEMMA SoundWhile ==
  ASSUME NEW q, NEW objs, q.status = 0
  PROVE  /\ q.pc \in {"check", "write"} /\ (Conditional(q) => Fits(q, Current(objs[q.id])))
              => Sound(q, objs)
         /\ q.pc = "store" /\ (Conditional(q) => Fits(q, q.replaced)) => Sound(q, objs)
         /\ q.pc \notin {"check", "write", "store"} => Sound(q, objs)
<1>1. 0 \notin {200, 201, 204}
  OBVIOUS
<1>2. q.pc = "store" => q.pc \notin {"check", "write"}
  OBVIOUS
<1>3. q.pc \in {"check", "write"} => q.pc # "store"
  OBVIOUS
<1> QED
  BY <1>1, <1>2, <1>3, Zenon DEF Sound

\* A step of one request that writes no object.
LEMMA OneRequest ==
  ASSUME IInv, NEW r \in Request, NEW q \in RequestType, Placed(q), Sound(q, objects),
         SetReq(r, q), UNCHANGED objects, Stores'
  PROVE  IInv'
<1>1. req' = [s \in Request |-> req'[s]] /\ req'[r] = q /\ \A s \in Request \ {r} : req'[s] = req[s]
  BY DEF IInv, SetReq
<1>2. \A s \in Request : req'[s] \in RequestType /\ Placed(req'[s]) /\ Sound(req'[s], objects')
  BY <1>1, Zenon DEF IInv
<1> QED
  BY <1>1, <1>2, Zenon DEF IInv

\* Before the first request the caches are empty.
LEMMA ApiStarts == ApiInit /\ now \in Nat => IInv
<1> SUFFICES ASSUME ApiInit, now \in Nat PROVE IInv
  OBVIOUS
<1>1. NewRequest \in RequestType /\ Placed(NewRequest) /\ Sound(NewRequest, objects)
  BY DEF NewRequest, RequestType, Placed, Sound, Conditional, NoTag
<1>2. Stores
  BY DEF ApiInit, Stores, Ids
<1> QED
  BY <1>1, <1>2, Zenon DEF ApiInit, IInv

\* A request refused, or answered with anything but the success of a write.
LEMMA Refused ==
  ASSUME NEW q \in RequestType, Placed(q), NEW status \in Nat, now \in Nat, NEW objs,
         status \notin {200, 201, 204} \/ q.op \notin {"upsert", "delete"}
  PROVE  /\ Answer(q, status) \in RequestType
         /\ Placed(Answer(q, status)) /\ Sound(Answer(q, status), objs)
<1> DEFINE a == Answer(q, status)
<1>1. a \in RequestType
  BY Zenon DEF Answer, RequestType
<1>2. /\ a.pc = "done" /\ a.status = status /\ a.op = q.op /\ a.is_new = q.is_new
      /\ a.replayed = q.replayed
  BY DEF Answer, RequestType
<1> HIDE DEF a
<1>3. Placed(a)
  BY <1>2 DEF Placed
<1>4. Sound(a, objs)
  BY <1>2 DEF Sound, Conditional
<1> QED
  BY <1>1, <1>3, <1>4 DEF a

\* An error answer of a handler claims nothing about the objects.
LEMMA Failed ==
  ASSUME NEW q \in RequestType, Placed(q), now \in Nat, NEW objs,
         NEW status \in {400, 401, 403, 404, 409, 412, 504}
  PROVE  /\ Answer(q, status) \in RequestType
         /\ Placed(Answer(q, status)) /\ Sound(Answer(q, status), objs)
<1>1. status \in Nat
  OBVIOUS
<1>2. status \notin {200, 201, 204} \/ q.op \notin {"upsert", "delete"}
  OBVIOUS
<1> QED
  BY <1>1, <1>2, Refused, SMT

\* Both caches keep entries only; pruning and storing keep their types.
LEMMA PrunedIsPart ==
  ASSUME NEW c
  PROVE  DOMAIN Pruned(c) \subseteq DOMAIN c /\ \A k \in DOMAIN Pruned(c) : Pruned(c)[k] = c[k]
BY DEF Pruned

\* A request arrives, and is authorised or refused.
LEMMA BeginKeeps ==
  ASSUME IInv, NEW r \in Request, NEW q \in Asked, NEW token, NEW flaw, NEW tenant,
         Begin(r, q, token, flaw, tenant), UNCHANGED authVars
  PROVE  IInv'
<1> DEFINE refusal == Refusal(token, flaw, q.op, tenant)
           next == IF q.op \in {"get", "delete"} THEN "read"
                   ELSE IF q.key # NoKey THEN "lookup" ELSE "parse"
           answered(status) == [Answer(q, status) EXCEPT !.before = Ended]
           begun == [q EXCEPT !.before = Ended, !.pc = next]
<1>1. q \in RequestType /\ Placed(q) /\ now \in Nat /\ Ended \in SUBSET Request
  BY DEF Asked, Placed, IInv, Stores, Ended
<1>2. Stores'
  BY DEF Begin, IInv, Stores, authVars
<1>3. refusal \in {0, 400, 401, 403}
  BY DEF Refusal
<1>4. ASSUME NEW status \in Nat, status \notin {200, 201, 204} \/ q.op \notin {"upsert", "delete"}
      PROVE  /\ answered(status) \in RequestType /\ Placed(answered(status))
             /\ Sound(answered(status), objects)
  <2>1. Answer(q, status) \in RequestType /\ Placed(Answer(q, status)) /\ Sound(Answer(q, status), objects)
    BY <1>1, <1>4, Refused, Zenon
  <2>2. ASSUME NEW a \in RequestType, Placed(a), Sound(a, objects)
        PROVE  LET b == [a EXCEPT !.before = Ended] IN
               b \in RequestType /\ Placed(b) /\ Sound(b, objects)
    <3> DEFINE b == [a EXCEPT !.before = Ended]
    <3>1. b \in RequestType
      BY <1>1, <2>2, Zenon DEF RequestType
    <3>2. /\ b.pc = a.pc /\ b.op = a.op /\ b.id = a.id /\ b.tag = a.tag /\ b.is_new = a.is_new
          /\ b.status = a.status /\ b.blind = a.blind /\ b.replaced = a.replaced
          /\ b.replayed = a.replayed
      BY <2>2, Zenon DEF RequestType
    <3> HIDE DEF b
    <3>3. Placed(b)
      BY <2>2, <3>2, ZenonT(40) DEF Placed
    <3>4. Sound(b, objects)
      BY <2>2, <3>2, ZenonT(40) DEF Sound, Conditional, Fits
    <3> QED
      BY <3>1, <3>3, <3>4, Zenon DEF b
  <2> QED
    BY <2>1, <2>2, Zenon
<1>5. q.op \notin {"list", "nodes", "ring"} =>
        begun \in RequestType /\ Placed(begun) /\ Sound(begun, objects)
  <2>1. begun \in RequestType
    <3>1. PICK e, pc : e = Ended /\ pc = next
      BY Zenon
    <3>2. e \in SUBSET Request /\ pc \in {"read", "lookup", "parse"}
      BY <1>1, <3>1
    <3>3. PICK p : p = [q EXCEPT !.before = e]
      BY Zenon
    <3>4. p \in RequestType
      BY <1>1, <3>2, <3>3 DEF RequestType
    <3>5. [p EXCEPT !.pc = pc] \in RequestType
      BY <3>2, <3>4 DEF RequestType
    <3>6. begun = [p EXCEPT !.pc = pc]
      BY <3>1, <3>3, Zenon
    <3> QED BY <3>5, <3>6, Zenon
  <2>2. /\ begun.pc = next /\ begun.op = q.op /\ begun.id = q.id /\ begun.status = 0
        /\ begun.is_new = FALSE
    BY <1>1 DEF Asked, RequestType
  <2>3. q.op \in Op /\ (q.op \in {"get", "upsert", "delete"} => q.id \in Ids)
    BY <1>1 DEF Asked, RequestType
  <2> HIDE DEF begun
  <2>4. q.op \notin {"list", "nodes", "ring"} => Placed(begun)
    BY <2>2, <2>3 DEF Placed, Op
  <2>5. Sound(begun, objects)
    BY <2>2 DEF Sound
  <2> QED
    BY <2>1, <2>4, <2>5
<1>6. /\ UNCHANGED objects
      /\ \/ refusal # 0 /\ SetReq(r, answered(refusal))
         \/ refusal = 0 /\ q.op \in {"list", "nodes", "ring"} /\ SetReq(r, answered(200))
         \/ refusal = 0 /\ q.op \notin {"list", "nodes", "ring"} /\ SetReq(r, begun)
  BY DEF Begin
<1> HIDE DEF refusal, answered, begun
<1>7. CASE refusal # 0 /\ SetReq(r, answered(refusal))
  <2>1. refusal \in Nat /\ refusal \notin {200, 201, 204}
    BY <1>3
  <2> QED
    BY <1>2, <1>4, <1>6, <1>7, <2>1, OneRequest, Zenon
<1>8. CASE q.op \in {"list", "nodes", "ring"} /\ SetReq(r, answered(200))
  <2>1. q.op \notin {"upsert", "delete"} /\ 200 \in Nat
    BY <1>8
  <2> QED
    BY <1>2, <1>4, <1>6, <1>8, <2>1, OneRequest, Zenon
<1>9. CASE q.op \notin {"list", "nodes", "ring"} /\ SetReq(r, begun)
  BY <1>2, <1>5, <1>6, <1>9, OneRequest, Zenon
<1> QED
  BY <1>6, <1>7, <1>8, <1>9

\* The look-up in the idempotency cache of the handler.
LEMMA LookUpKeeps ==
  ASSUME IInv, NEW r \in Request, LookUp(r), UNCHANGED authVars
  PROVE  IInv'
<1> DEFINE q == req[r]
           c == Pruned(cache)
           replay == [Answer(q, c[q.key].status) EXCEPT !.id = c[q.key].id, !.replayed = TRUE]
<1>1. q \in RequestType /\ Placed(q) /\ Sound(q, objects) /\ now \in Nat /\ q.pc = "lookup"
  BY DEF IInv, Stores, LookUp
<1>2. \A k \in DOMAIN c : c[k].id \in Ids /\ c[k].status \in Nat
  BY PrunedIsPart DEF IInv, Stores
<1>3. Stores'
  BY <1>2 DEF LookUp, IInv, Stores, authVars
<1>4. To(r, "parse") \in RequestType /\ Placed(To(r, "parse")) /\ Sound(To(r, "parse"), objects)
  BY <1>1 DEF To, RequestType, Placed, Sound, Conditional
<1>5. Answer(q, 409) \in RequestType /\ Placed(Answer(q, 409)) /\ Sound(Answer(q, 409), objects)
  BY <1>1, Failed, SMT
<1>6. q.key \in DOMAIN c => replay \in RequestType /\ Placed(replay) /\ Sound(replay, objects)
  BY <1>1, <1>2, Zenon DEF Answer, RequestType, Placed, Sound, Conditional
<1>7. /\ UNCHANGED objects
      /\ \/ SetReq(r, To(r, "parse"))
         \/ SetReq(r, Answer(q, 409))
         \/ q.key \in DOMAIN c /\ SetReq(r, replay)
  BY DEF LookUp
<1> HIDE DEF q, c, replay
<1>8. CASE SetReq(r, To(r, "parse"))
  BY <1>3, <1>4, <1>7, <1>8, OneRequest, Zenon
<1>9. CASE SetReq(r, Answer(q, 409))
  BY <1>3, <1>5, <1>7, <1>9, OneRequest, ZenonT(40)
<1>10. CASE q.key \in DOMAIN c /\ SetReq(r, replay)
  BY <1>3, <1>6, <1>7, <1>10, OneRequest, Zenon
<1> QED
  BY <1>7, <1>8, <1>9, <1>10, Zenon

\* The handler parses the body; create_object makes a new id.
LEMMA ParseBodyKeeps ==
  ASSUME IInv, NEW r \in Request, ParseBody(r), UNCHANGED authVars
  PROVE  IInv'
<1> DEFINE q == req[r]
           fresh == CHOOSE id \in Unused : TRUE
           next == IF q.key = NoKey THEN "write" ELSE "check"
           made == [To(r, next) EXCEPT !.id = fresh, !.is_new = TRUE]
<1>1. q \in RequestType /\ Placed(q) /\ Sound(q, objects) /\ now \in Nat /\ q.pc = "parse"
  BY DEF IInv, Stores, ParseBody
<1>2. Stores'
  BY DEF ParseBody, IInv, Stores, authVars
<1>3. Answer(q, 400) \in RequestType /\ Placed(Answer(q, 400)) /\ Sound(Answer(q, 400), objects)
  BY <1>1, Failed, SMT
<1>4. q.op = "upsert" =>
        To(r, "read") \in RequestType /\ Placed(To(r, "read")) /\ Sound(To(r, "read"), objects)
  BY <1>1 DEF To, RequestType, Placed, Sound, Conditional
<1>5. Unused # {} => fresh \in Ids
  BY DEF Unused, Ids
<1>6. ASSUME q.op # "upsert", fresh \in Ids
      PROVE  made \in RequestType /\ Placed(made) /\ Sound(made, objects)
  <2>1. q.op = "create"
    BY <1>1, <1>6 DEF Placed
  <2>2. made \in RequestType
    BY <1>1, <1>6, Zenon DEF To, RequestType
  <2>3. /\ made.pc = next /\ made.op = "create" /\ made.id = fresh /\ made.status = 0
    BY <1>1, <2>1 DEF To, RequestType, Placed
  <2> HIDE DEF made
  <2> QED
    BY <1>6, <2>2, <2>3 DEF Placed, Sound, Conditional
<1>7. /\ UNCHANGED objects
      /\ \/ SetReq(r, Answer(q, 400))
         \/ q.op = "upsert" /\ SetReq(r, To(r, "read"))
         \/ q.op # "upsert" /\ Unused # {} /\ SetReq(r, made)
  BY DEF ParseBody
<1> HIDE DEF q, made, fresh
<1> QED
  BY <1>2, <1>3, <1>4, <1>5, <1>6, <1>7, OneRequest, SMT

\* After the read the version is the one that If-Match names, if it names one.
LEMMA ReadKeeps ==
  ASSUME IInv, NEW r \in Request, ReadObject(r), UNCHANGED authVars
  PROVE  IInv'
<1> DEFINE q == req[r]
           to == IF q.op = "delete" \/ q.key = NoKey THEN "write" ELSE "check"
           went == To(r, to)
           wentNew(ok) == [went EXCEPT !.is_new = TRUE, !.blind = ~ok]
           failedNew(ok) == [Answer(q, 400) EXCEPT !.is_new = TRUE, !.blind = ~ok]
<1>1. /\ q \in RequestType /\ Placed(q) /\ Sound(q, objects) /\ now \in Nat
      /\ q.pc = "read" /\ q.id \in Ids /\ q.status = 0
  BY DEF IInv, Stores, ReadObject, Placed
<1>2. Stores'
  BY DEF ReadObject, IInv, Stores, authVars
<1>3. ASSUME NEW status \in {400, 404, 412, 504}
      PROVE  Answer(q, status) \in RequestType /\ Placed(Answer(q, status)) /\ Sound(Answer(q, status), objects)
  BY <1>1, <1>3, Failed, SMT
<1>4. q.op = "get" =>
        Answer(q, 200) \in RequestType /\ Placed(Answer(q, 200)) /\ Sound(Answer(q, 200), objects)
  <2>1. ASSUME q.op = "get" PROVE 200 \notin {200, 201, 204} \/ q.op \notin {"upsert", "delete"}
    BY <2>1
  <2> QED
    BY <1>1, <2>1, Refused, SMT
<1>5. ASSUME Matches(q.tag, objects[q.id].version), objects[q.id].doc # NoDoc
      PROVE  went \in RequestType /\ Placed(went) /\ Sound(went, objects)
  <2>1. went \in RequestType
    BY <1>1 DEF To, RequestType
  <2>2. /\ went.pc = to /\ went.id = q.id /\ went.tag = q.tag /\ went.status = 0
        /\ went.op = q.op /\ went.is_new = q.is_new
    BY <1>1 DEF To, RequestType
  <2>3. q.tag \in Int /\ (q.tag > 0 => Current(objects[q.id]) = q.tag)
    BY <1>1, <1>5, SMTT(30) DEF RequestType, Matches, NoTag, AnyTag, Current
  <2> HIDE DEF went
  <2>4. Placed(went)
    BY <1>1, <2>2 DEF Placed
  <2>5. Sound(went, objects)
    <3>1. went.pc \in {"check", "write"}
      BY <2>2
    <3>2. Conditional(went) => Fits(went, Current(objects[went.id]))
      BY <2>2, <2>3, Zenon DEF Conditional, Fits
    <3> QED
      BY <2>2, <3>1, <3>2, SoundWhile, Zenon
  <2> QED
    BY <2>1, <2>4, <2>5
<1>6. ASSUME NEW ok \in BOOLEAN, q.op = "upsert", ok => objects[q.id].doc = NoDoc
      PROVE  wentNew(ok) \in RequestType /\ Placed(wentNew(ok)) /\ Sound(wentNew(ok), objects)
  <2> DEFINE new == wentNew(ok)
  <2>1. new \in RequestType
    <3>1. went \in RequestType
      BY <1>1 DEF To, RequestType
    <3>2. ASSUME NEW a \in RequestType PROVE [a EXCEPT !.is_new = TRUE, !.blind = ~ok] \in RequestType
      BY ZenonT(40) DEF RequestType
    <3> QED
      BY <3>1, <3>2, Zenon
  <2>2. /\ new.pc = to /\ new.id = q.id /\ new.status = 0
        /\ new.op = "upsert" /\ new.is_new = TRUE /\ new.blind = ~ok
    BY <1>1, <1>6, SMTT(30) DEF To, RequestType
  <2>3. ok => Current(objects[q.id]) = 0
    BY <1>6, Zenon DEF Current
  <2> HIDE DEF new
  <2>4. Placed(new)
    BY <1>1, <2>2 DEF Placed
  <2>5. Sound(new, objects)
    <3>1. new.pc \in {"check", "write"}
      BY <2>2
    <3>2. Conditional(new) => Fits(new, Current(objects[new.id]))
      BY <2>2, <2>3, Zenon DEF Conditional, Fits
    <3> QED
      BY <2>2, <3>1, <3>2, SoundWhile, Zenon
  <2> QED
    BY <2>1, <2>4, <2>5, Zenon DEF new
<1>7. ASSUME NEW ok \in BOOLEAN, q.op = "upsert"
      PROVE  failedNew(ok) \in RequestType /\ Placed(failedNew(ok)) /\ Sound(failedNew(ok), objects)
  <2> DEFINE new == failedNew(ok)
  <2>1. new \in RequestType
    <3>1. Answer(q, 400) \in RequestType
      BY <1>3, SMT
    <3>2. ASSUME NEW a \in RequestType PROVE [a EXCEPT !.is_new = TRUE, !.blind = ~ok] \in RequestType
      BY ZenonT(40) DEF RequestType
    <3> QED
      BY <3>1, <3>2, ZenonT(40)
  <2>2. /\ new.pc = "done" /\ new.status = 400 /\ new.op = "upsert"
    BY SMTT(30), <1>1, <1>7 DEF Answer, RequestType
  <2> HIDE DEF new
  <2>3. Placed(new) /\ Sound(new, objects)
    BY <2>2, SMTT(30) DEF Placed, Sound
  <2> QED
    BY <2>1, <2>3, Zenon DEF new
<1>8. /\ UNCHANGED objects
      /\ \/ \E status \in {400, 404, 412, 504} : SetReq(r, Answer(q, status))
         \/ q.op = "get" /\ SetReq(r, Answer(q, 200))
         \/ q.op = "upsert" /\ \E ok \in BOOLEAN : SetReq(r, failedNew(ok))
         \/ q.op = "upsert" /\ \E ok \in BOOLEAN :
              (ok => objects[q.id].doc = NoDoc) /\ SetReq(r, wentNew(ok))
         \/ /\ Matches(q.tag, objects[q.id].version) /\ objects[q.id].doc # NoDoc
            /\ SetReq(r, went)
  <2>1. PICK ok \in BOOLEAN : SetReq(r, AfterRead(r, ok))
    BY DEF ReadObject
  <2> DEFINE found == ok /\ objects[q.id].doc # NoDoc
             unfit == q.op = "upsert" /\ q.payload = NoObject
  <2>2. CASE q.op = "upsert" /\ ~found
    <3>1. AfterRead(r, ok) = IF unfit THEN failedNew(ok) ELSE wentNew(ok)
      BY <2>2, ZenonT(40) DEF AfterRead
    <3>2. ok => objects[q.id].doc = NoDoc
      BY <2>2
    <3>3. UNCHANGED objects
      BY DEF ReadObject
    <3>0. q.op = "upsert"
      BY <2>2, Zenon
    <3> HIDE DEF q, went, wentNew, failedNew, unfit, found
    <3>4. CASE unfit
      <4>1. SetReq(r, failedNew(ok))
        BY <2>1, <3>1, <3>4, Zenon
      <4>2. \E b \in BOOLEAN : SetReq(r, failedNew(b))
        BY <4>1, Zenon
      <4> QED BY <3>0, <3>3, <4>2, ZenonT(40)
    <3>5. CASE ~unfit
      <4>1. SetReq(r, wentNew(ok))
        BY <2>1, <3>1, <3>5, Zenon
      <4>2. \E b \in BOOLEAN : (b => objects[q.id].doc = NoDoc) /\ SetReq(r, wentNew(b))
        BY <3>2, <4>1, Zenon
      <4> QED BY <3>0, <3>3, <4>2, ZenonT(40)
    <3> QED BY <3>4, <3>5, Zenon
  <2>3. CASE ~(q.op = "upsert" /\ ~found) /\ (~ok \/ ~found)
    <3>1. AfterRead(r, ok) = Answer(q, IF ~ok THEN 504 ELSE 404)
      BY <2>3 DEF AfterRead
    <3>2. UNCHANGED objects
      BY DEF ReadObject
    <3> HIDE DEF q, went, wentNew, failedNew, unfit, found
    <3>3. \E status \in {400, 404, 412, 504} : SetReq(r, Answer(q, status))
      BY <2>1, <3>1, SMTT(30)
    <3> QED
      BY <3>2, <3>3, ZenonT(40)
  <2>4. CASE ok /\ found /\ q.op = "get"
    <3>1. AfterRead(r, ok) = Answer(q, 200)
      BY <2>4 DEF AfterRead
    <3> QED
      BY <2>1, <2>4, <3>1, ZenonT(40) DEF ReadObject
  <2>5. CASE ok /\ found /\ q.op # "get"
    <3>1. AfterRead(r, ok) = IF ~Matches(q.tag, objects[q.id].version) THEN Answer(q, 412)
                             ELSE IF unfit THEN Answer(q, 400) ELSE went
      BY <2>5 DEF AfterRead
    <3>2. UNCHANGED objects /\ objects[q.id].doc # NoDoc
      BY <2>5 DEF ReadObject
    <3> HIDE DEF q, went, wentNew, failedNew, unfit, found
    <3>3. \/ \E status \in {400, 404, 412, 504} : SetReq(r, Answer(q, status))
          \/ Matches(q.tag, objects[q.id].version) /\ SetReq(r, went)
      BY <2>1, <3>1, SMTT(30)
    <3> QED
      BY <3>2, <3>3, ZenonT(40)
  <2> QED
    BY <2>2, <2>3, <2>4, <2>5
<1> HIDE DEF q, went, wentNew, failedNew
<1> QED
  BY <1>2, <1>3, <1>4, <1>5, <1>6, <1>7, <1>8, OneRequest, SMTT(30)

\* The coordinator looks the key up in its own cache.
LEMMA CheckKeyKeeps ==
  ASSUME IInv, NEW r \in Request, CheckKey(r), UNCHANGED authVars
  PROVE  IInv'
<1> DEFINE q == req[r]
           replayed == [To(r, "store") EXCEPT !.replayed = TRUE]
<1>1. /\ q \in RequestType /\ Placed(q) /\ Sound(q, objects) /\ now \in Nat
      /\ q.pc = "check" /\ q.id \in Ids /\ q.status = 0
  BY Zenon DEF IInv, Stores, CheckKey, Placed
<1>2. Stores'
  BY DEF CheckKey, IInv, Stores, authVars
<1>3. Answer(q, 409) \in RequestType /\ Placed(Answer(q, 409)) /\ Sound(Answer(q, 409), objects)
  BY <1>1, Failed, SMT
<1>4. To(r, "write") \in RequestType /\ Placed(To(r, "write")) /\ Sound(To(r, "write"), objects)
  <2>1. To(r, "write") \in RequestType /\ Placed(To(r, "write"))
    BY <1>1 DEF To, RequestType, Placed
  <2>2. Sound(To(r, "write"), objects)
    <3> DEFINE new == To(r, "write")
    <3>1. /\ new.pc = "write" /\ new.status = q.status /\ new.op = q.op /\ new.tag = q.tag
          /\ new.blind = q.blind /\ new.replayed = q.replayed /\ new.id = q.id
          /\ new.is_new = q.is_new /\ new.replaced = q.replaced
      BY <1>1, SMTT(30) DEF To, RequestType
    <3> HIDE DEF new, q
    <3>2. Conditional(new) <=> Conditional(q)
      BY <3>1, Zenon DEF Conditional
    <3>3. Fits(new, Current(objects[new.id])) <=> Fits(q, Current(objects[q.id]))
      BY <3>1, Zenon DEF Fits
    <3>4. ~(new.pc = "store" \/ new.status \in {200, 201, 204})
      BY <1>1, <3>1, SMTT(30)
    <3> QED BY <1>1, <3>2, <3>3, <3>4, Zenon DEF Sound, new
  <2> QED
    BY <2>1, <2>2
<1>5. replayed \in RequestType /\ Placed(replayed) /\ Sound(replayed, objects)
  BY <1>1, ZenonT(40) DEF To, RequestType, Placed, Sound, Conditional
<1>6. /\ UNCHANGED objects
      /\ SetReq(r, Answer(q, 409)) \/ SetReq(r, To(r, "write")) \/ SetReq(r, replayed)
  BY DEF CheckKey
<1> HIDE DEF q, replayed
<1> QED
  BY <1>2, <1>3, <1>4, <1>5, <1>6, OneRequest, SMT

\* The handler stores its answer in the cache.
LEMMA StoreKeeps ==
  ASSUME IInv, NEW r \in Request, StoreAnswer(r), UNCHANGED authVars
  PROVE  IInv'
<1> DEFINE q == req[r]
           answer == Answer(q, SuccessOf(q))
<1>1. /\ q \in RequestType /\ Placed(q) /\ Sound(q, objects) /\ now \in Nat
      /\ q.pc = "store" /\ q.id \in Ids /\ q.status = 0
  BY SMTT(30) DEF IInv, Stores, StoreAnswer, Placed
<1>2. SuccessOf(q) \in {200, 201, 204}
  BY DEF SuccessOf
<1>3. Stores'
  <2> DEFINE entry == [payload |-> q.payload, id |-> q.id, status |-> SuccessOf(q), at |-> now]
  <2>1. cache' = Stored(cache, q.key, entry) /\ entry.id \in Ids /\ entry.status \in Nat
    BY <1>1, <1>2 DEF StoreAnswer
  <2> HIDE DEF entry
  <2>2. \A k \in DOMAIN cache' : cache'[k].id \in Ids /\ cache'[k].status \in Nat
    BY <2>1 DEF Stored, IInv, Stores
  <2> QED
    BY <2>2, SMTT(30) DEF StoreAnswer, IInv, Stores, authVars
<1>4. answer \in RequestType
  <2>1. SuccessOf(q) \in Nat
    BY <1>2
  <2> QED
    BY <1>1, <2>1, Zenon DEF Answer, RequestType
<1>5. /\ answer.pc = "done" /\ answer.status = SuccessOf(q) /\ answer.op = q.op
      /\ answer.is_new = q.is_new /\ answer.tag = q.tag /\ answer.blind = q.blind
      /\ answer.replayed = q.replayed /\ answer.replaced = q.replaced
  BY <1>1 DEF Answer, RequestType
<1>6. UNCHANGED objects /\ SetReq(r, answer)
  BY DEF StoreAnswer
<1> HIDE DEF answer
<1>7. Placed(answer)
  BY SMTT(30), <1>1, <1>5 DEF Placed, SuccessOf
<1>8. Sound(answer, objects)
  <2>1. Conditional(answer) => Fits(answer, answer.replaced)
    BY <1>1, <1>5, Zenon DEF Sound, Conditional, Fits
  <2>2. answer.pc \notin {"check", "write"}
    BY <1>5
  <2> QED
    BY <2>1, <2>2, Zenon DEF Sound
<1> QED
  BY <1>3, <1>4, <1>6, <1>7, <1>8, OneRequest, Zenon

\* A client goes away and the handler is dropped at an await.
LEMMA CancelKeeps ==
  ASSUME IInv, NEW r \in Request, Cancel(r), UNCHANGED authVars
  PROVE  IInv'
<1> DEFINE q == req[r]
<1>1. q \in RequestType /\ Placed(q) /\ q.pc # "done"
  BY DEF IInv, Cancel
<1>2. Stores' /\ UNCHANGED objects /\ SetReq(r, To(r, "cancelled"))
  BY DEF Cancel, IInv, Stores, authVars
<1>3. /\ To(r, "cancelled") \in RequestType /\ Placed(To(r, "cancelled"))
      /\ Sound(To(r, "cancelled"), objects)
  BY <1>1 DEF To, RequestType, Placed, Sound, Conditional
<1> QED
  BY <1>2, <1>3, OneRequest, Zenon

\* A write that reaches the objects: the others keep their version, or are overtaken.
LEMMA Written ==
  ASSUME IInv, NEW r \in Request, req[r].pc = "write", Applied(r),
         NEW q \in RequestType, Placed(q), Sound(q, objects'),
         req' = [Overtaken(r) EXCEPT ![r] = q], UNCHANGED <<cache, now>>
  PROVE  IInv'
<1>1. req[r].id \in Ids
  BY DEF IInv, Placed
<1>2. Stores'
  BY <1>1 DEF IInv, Stores, Applied
<1>3. req' = [s \in Request |-> req'[s]] /\ req'[r] = q
      /\ \A s \in Request \ {r} : req'[s] = Overtaken(r)[s]
  BY Zenon DEF Overtaken
<1>4. ASSUME NEW s \in Request \ {r}
      PROVE  LET o == Overtaken(r)[s] IN o \in RequestType /\ Placed(o) /\ Sound(o, objects')
  <2> DEFINE o == Overtaken(r)[s]
             p == req[s]
             hit == p.id = req[r].id /\ p.pc \in {"check", "write"}
  <2>1. p \in RequestType /\ Placed(p) /\ Sound(p, objects)
    BY DEF IInv
  <2>2. o = [p EXCEPT !.blind = p.blind \/ hit]
    BY <2>1 DEF Overtaken, RequestType
  <2>3. /\ o \in RequestType /\ o.pc = p.pc /\ o.op = p.op /\ o.id = p.id /\ o.tag = p.tag
        /\ o.is_new = p.is_new /\ o.status = p.status /\ o.replaced = p.replaced
        /\ o.replayed = p.replayed /\ o.blind = (p.blind \/ hit)
    BY <2>1, <2>2, Zenon DEF RequestType
  <2>4. hit \/ p.pc \notin {"check", "write"} \/ objects'[p.id] = objects[p.id]
    BY <2>1, <1>1 DEF Applied, IInv, Stores, Placed
  <2> HIDE DEF o, p, hit
  <2>5. Placed(o)
    BY <2>1, <2>3, ZenonT(40) DEF Placed
  <2>6. Sound(o, objects')
    BY <2>1, <2>3, <2>4, ZenonT(40) DEF Sound, Conditional, Fits
  <2> QED
    BY <2>3, <2>5, <2>6 DEF o
<1>5. \A s \in Request : req'[s] \in RequestType /\ Placed(req'[s]) /\ Sound(req'[s], objects')
  BY <1>3, <1>4, Zenon
<1> QED
  BY <1>2, <1>3, <1>5, Zenon DEF IInv

\* The quorum write or delete of a handler, and its failure.
LEMMA WriteKeeps ==
  ASSUME IInv, NEW r \in Request, WriteObject(r), UNCHANGED authVars
  PROVE  IInv'
<1> DEFINE q == req[r]
           done == [q EXCEPT !.replaced = Current(objects[q.id])]
           answer == Answer(done, SuccessOf(q))
           stored == [done EXCEPT !.pc = "store"]
           failed == Answer(q, 504)
<1>1. /\ q \in RequestType /\ Placed(q) /\ Sound(q, objects) /\ now \in Nat
      /\ q.pc = "write" /\ q.id \in Ids /\ q.status = 0
      /\ Current(objects[q.id]) \in Int
  <2>1. objects[q.id].version \in Int => Current(objects[q.id]) \in Int
    BY DEF Current
  <2> QED
    BY <2>1, Zenon DEF IInv, Stores, WriteObject, Placed
<1>2. UNCHANGED <<cache, now>>
  BY DEF WriteObject, authVars
<1>3. /\ done \in RequestType /\ done.pc = q.pc /\ done.op = q.op /\ done.tag = q.tag /\ done.id = q.id
      /\ done.is_new = q.is_new /\ done.blind = q.blind /\ done.replayed = q.replayed
      /\ done.status = 0 /\ done.replaced = Current(objects[q.id])
  BY <1>1 DEF RequestType
<1>4. Conditional(q) => Fits(q, Current(objects[q.id]))
  BY <1>1 DEF Sound
<1>5. failed \in RequestType /\ Placed(failed) /\ Sound(failed, objects)
      /\ Sound(failed, objects')
  BY <1>1, Failed, SMT
<1>6. SuccessOf(q) \in Nat /\ SuccessOf(q) = (IF q.op = "delete" THEN 204 ELSE IF q.is_new THEN 201 ELSE 200)
  BY DEF SuccessOf
<1>7. answer \in RequestType /\ Placed(answer) /\ Sound(answer, objects')
  <2> HIDE DEF done
  <2>1. answer \in RequestType
    BY <1>1, <1>3, <1>6, ZenonT(40) DEF Answer, RequestType
  <2>2. /\ answer.pc = "done" /\ answer.status = SuccessOf(q) /\ answer.op = q.op
        /\ answer.tag = q.tag /\ answer.is_new = q.is_new /\ answer.blind = q.blind
        /\ answer.replayed = q.replayed /\ answer.replaced = Current(objects[q.id])
    BY <1>3 DEF Answer, RequestType
  <2> HIDE DEF answer
  <2>3. Placed(answer)
    BY <1>1, <1>6, <2>2 DEF Placed
  <2>4. Sound(answer, objects')
    BY <1>4, <2>2, ZenonT(40) DEF Sound, Conditional, Fits
  <2> QED
    BY <2>1, <2>3, <2>4
<1>8. stored \in RequestType /\ Placed(stored) /\ Sound(stored, objects')
  <2> HIDE DEF done
  <2>1. /\ stored \in RequestType /\ stored.pc = "store" /\ stored.op = q.op /\ stored.tag = q.tag
        /\ stored.is_new = q.is_new /\ stored.blind = q.blind /\ stored.id = q.id
        /\ stored.replayed = q.replayed /\ stored.replaced = Current(objects[q.id]) /\ stored.status = 0
    BY <1>3 DEF RequestType
  <2> HIDE DEF stored
  <2>2. Placed(stored)
    BY <1>1, <2>1 DEF Placed
  <2>3. Sound(stored, objects')
    BY <1>4, <2>1, Zenon DEF Sound, Conditional, Fits
  <2> QED
    BY <2>1, <2>2, <2>3
<1>9. \/ /\ Applied(r)
         /\ \/ req' = [Overtaken(r) EXCEPT ![r] = answer]
            \/ req' = [Overtaken(r) EXCEPT ![r] = stored]
            \/ req' = [Overtaken(r) EXCEPT ![r] = failed]
      \/ SetReq(r, failed) /\ UNCHANGED <<objects, version>>
  BY DEF WriteObject
<1>10. UNCHANGED <<objects, version>> => Stores'
  BY <1>2 DEF IInv, Stores
<1>11. req[r].pc = "write"
  BY <1>1
<1> HIDE DEF q, done, answer, stored, failed
<1>12. CASE SetReq(r, failed) /\ UNCHANGED <<objects, version>>
  BY <1>5, <1>10, <1>12, OneRequest, SMT
<1>13. CASE Applied(r)
  <2>1. ASSUME NEW new \in RequestType, Placed(new), Sound(new, objects'),
               req' = [Overtaken(r) EXCEPT ![r] = new]
        PROVE  IInv'
    BY <1>2, <1>11, <1>13, <2>1, Written, Zenon
  <2> QED
    BY <1>5, <1>7, <1>8, <1>9, <1>12, <2>1
<1> QED
  BY <1>9, <1>12, <1>13, Zenon

\* Every step of the API or around it keeps IInv.
LEMMA StepKeeps == IInv /\ [ApiStep \/ OtherStep]_allVars => IInv'
<1> SUFFICES ASSUME IInv, [ApiStep \/ OtherStep]_allVars PROVE IInv'
  OBVIOUS
<1>1. CASE ApiStep
  <2>1. PICK r \in Request :
          \/ RequestStep(r)
          \/ \E q \in Asked, s \in sessions, flaw \in {"none", "path", "query"} :
               \E t \in IF q.op \in {"nodes", "ring"} THEN {NoTenant} ELSE Tenant :
                 Begin(r, q, s.access, flaw, t)
    BY <1>1, Zenon DEF ApiStep, ApiNext
  <2>2. UNCHANGED authVars
    BY <1>1, Zenon DEF ApiStep
  <2>3. CASE RequestStep(r)
    BY <2>2, <2>3, LookUpKeeps, ParseBodyKeeps, ReadKeeps, CheckKeyKeeps, WriteKeeps, StoreKeeps,
       CancelKeeps, Zenon DEF RequestStep
  <2>4. ASSUME NEW q \in Asked, NEW s \in sessions, NEW flaw \in {"none", "path", "query"},
               NEW t, Begin(r, q, s.access, flaw, t)
        PROVE  IInv'
    BY <2>2, <2>4, BeginKeeps, Zenon
  <2> QED
    BY <2>1, <2>3, <2>4, Zenon
<1>2. CASE OtherStep
  BY <1>2 DEF OtherStep, apiVars, IInv, Stores
<1>3. CASE UNCHANGED allVars
  BY <1>3 DEF allVars, authVars, apiVars, IInv, Stores
<1> QED
  BY <1>1, <1>2, <1>3, Zenon

(* A PUT or a DELETE with If-Match that succeeds has replaced the version the client
   named, or has created the object where there was none, unless its read failed or
   another write came between its read and its write: for any interleaving of any
   requests, whether keyed, cancelled or partly failed.                      *)
THEOREM ConditionalWriteHolds == ApiSpec => []ConditionalWrite
<1>1. IInv => ConditionalWrite
  <2> SUFFICES ASSUME IInv, NEW r \in Request,
                      req[r].status \in {200, 201, 204}, req[r].op \in {"upsert", "delete"}, req[r].tag > 0,
                      ~req[r].replayed, ~req[r].blind
               PROVE  req[r].replaced = req[r].tag \/ (req[r].status = 201 /\ req[r].replaced = 0)
    BY Zenon DEF ConditionalWrite
  <2>1. req[r] \in RequestType /\ Placed(req[r]) /\ Sound(req[r], objects)
    BY DEF IInv
  <2>2. req[r].is_new => req[r].status = 201
    BY <2>1 DEF Placed
  <2> QED
    BY <2>1, <2>2, Zenon DEF Sound, Conditional, Fits
<1> QED
  BY <1>1, ApiStarts, StepKeeps, PTL DEF ApiSpec

-----------------------------------------------------------------------------
(* Idempotency keys.                                                       *)

\* Time passes, and does not go back.
ClockStep == now' \in Nat /\ now <= now' /\ UNCHANGED apiVars
RepeatSpec == ApiInit /\ now \in Nat /\ [][ApiStep \/ ClockStep]_allVars

Fresh(entry) == now - entry.at < KeyRetention
HasWritten(r) == req[r].pc \in {"store", "done", "cancelled"}

\* r created an object under its key while nobody else used the key.
Created(r) ==
  /\ req[r].pc = "done" /\ req[r].status = 201 /\ ~req[r].replayed /\ req[r].key # NoKey
  /\ \A s \in Request : SameKey(r, s) => Apart(r, s)

\* While the answer of r is remembered, later requests with its key get no further
\* than the cache, and those that are answered 201 are answered what r was.
Remembered(r) ==
  /\ now < req[r].at + KeyRetention =>
       /\ req[r].key \in DOMAIN cache
       /\ cache[req[r].key] = [payload |-> req[r].payload, id |-> req[r].id, status |-> 201,
                               at |-> req[r].at]
       /\ \A s \in Request : SameKey(r, s) /\ r \in req[s].before =>
            req[s].pc \in {"lookup", "done", "cancelled"}
  /\ \A s \in Request :
       /\ SameKey(r, s) /\ r \in req[s].before /\ req[s].pc = "done" /\ req[s].status = 201
       /\ req[s].at < req[r].at + KeyRetention
       => req[s].id = req[r].id /\ req[s].payload = req[r].payload

\* The API's cache was filled by requests that were answered.
CacheFilled(k) ==
  /\ cache[k].at \in Nat /\ cache[k].at <= now /\ cache[k].status # 409
  /\ \E r \in Request : /\ req[r].key = k /\ req[r].payload = cache[k].payload
                        /\ req[r].pc = "done"

\* The coordinator's cache was filled by requests that wrote; when such a request is
\* answered, the API's cache has an entry that is not older.
WrittenFirst(k) ==
  /\ ccache[k].at \in Nat /\ ccache[k].at <= now
  /\ \E r \in Request :
       /\ req[r].key = k /\ HasWritten(r)
       /\ req[r].pc = "done" /\ Fresh(ccache[k]) => k \in DOMAIN cache /\ cache[k].at >= ccache[k].at

\* A request that has found nothing in the API's cache finds something in the
\* coordinator's only if another request with its key overlaps it or was cancelled.
FoundNothing(q) ==
  req[q].pc \in {"parse", "read", "check"} /\ req[q].key # NoKey
  /\ req[q].key \in DOMAIN ccache /\ Fresh(ccache[req[q].key]) =>
    \E r \in Request : /\ SameKey(q, r) /\ HasWritten(r)
                       /\ req[r].pc = "cancelled" \/ r \notin req[q].before

\* 409 has a reason: another payload, an overlap or a cancelled request.
Disputed(q) ==
  \E r \in Request : /\ SameKey(q, r)
                     /\ \/ req[r].payload # req[q].payload
                        \/ ~Apart(q, r)
                        \/ req[r].pc = "cancelled"

RepeatInv ==
  /\ \A r \in Request :
       /\ req[r].pc = "new" => req[r].key = NoKey /\ req[r].before = {}
       /\ req[r].before \subseteq Ended
       /\ req[r].pc \in {"lookup", "check", "store"} => req[r].key # NoKey
  /\ \A k \in DOMAIN cache : CacheFilled(k)
  /\ \A k \in DOMAIN ccache : WrittenFirst(k)
  /\ \A q \in Request : FoundNothing(q)
  /\ \A q \in Request : req[q].pc = "done" /\ req[q].status = 409 => Disputed(q)
  /\ \A r \in Request : Created(r) => Remembered(r)

\* What the requests see of each other.
SameAsked(p, q) == p.op = q.op /\ p.key = q.key /\ p.payload = q.payload /\ p.before = q.before
SameState(p, q) ==
  /\ SameAsked(p, q) /\ p.pc = q.pc /\ p.id = q.id /\ p.status = q.status /\ p.at = q.at
  /\ p.replayed = q.replayed

\* A step of r, whichever it is: who moves where ...
Moves(r) ==
  /\ \A s \in Request \ {r} : SameState(req'[s], req[s])
  /\ req[r].pc \notin {"done", "cancelled"} /\ req'[r].pc # "new"
  /\ req[r].pc # "new" => SameAsked(req'[r], req[r])
  /\ req[r].pc = "new" => /\ req'[r].before = Ended
                          /\ req'[r].pc \in {"lookup", "done"} \/ req'[r].key = NoKey
  /\ req[r].pc = "lookup" => req'[r].pc \in {"parse", "done", "cancelled"}
  /\ req[r].pc = "store" => req'[r].pc \in {"done", "cancelled"}
  /\ req'[r].pc \in {"lookup", "check", "store"} => req'[r].key # NoKey
  /\ req'[r].pc \in {"parse", "read", "check"} =>
       \/ req[r].pc \in {"parse", "read"}
       \/ req'[r].key = NoKey
       \/ req[r].pc = "lookup" /\ (req[r].key \in DOMAIN cache => ~Fresh(cache[req[r].key]))

\* ... what it may be answered ...
StoresAnswer(r) == req[r].pc = "store" /\ req'[r].pc = "done"
Answered(r) ==
  /\ req'[r].pc = "done" => req'[r].at = now
  /\ ~StoresAnswer(r) /\ req'[r].pc = "done" /\ req'[r].status = 201 /\ req'[r].key # NoKey =>
       /\ req[r].pc = "lookup" /\ req[r].key \in DOMAIN cache /\ req'[r].replayed
       /\ req'[r].id = cache[req[r].key].id /\ req[r].payload = cache[req[r].key].payload
  /\ StoresAnswer(r) => req'[r].status # 409
  /\ ~StoresAnswer(r) /\ req'[r].pc = "done" /\ req'[r].status = 409 =>
       \/ /\ req[r].pc = "lookup" /\ req[r].key \in DOMAIN cache
          /\ cache[req[r].key].payload # req[r].payload \/ cache[req[r].key].status = 409
       \/ req[r].pc = "check" /\ req[r].key \in DOMAIN ccache /\ Fresh(ccache[req[r].key])

\* ... and what becomes of the caches.
CachesStep(r) ==
  /\ StoresAnswer(r) =>
       /\ req[r].key \in DOMAIN cache'
       /\ cache'[req[r].key] = [payload |-> req[r].payload, id |-> req'[r].id,
                                status |-> req'[r].status, at |-> now]
  /\ \A k \in DOMAIN cache' : \/ k \in DOMAIN cache /\ cache'[k] = cache[k]
                              \/ k = req[r].key /\ StoresAnswer(r)
  /\ \A k \in DOMAIN cache : Fresh(cache[k]) => k \in DOMAIN cache'
  /\ \A k \in DOMAIN ccache' :
       \/ k \in DOMAIN ccache /\ ccache'[k] = ccache[k]
       \/ k = req[r].key /\ req[r].pc = "write" /\ req'[r].pc = "store" /\ ccache'[k].at = now

RepeatStep(r) == Moves(r) /\ Answered(r) /\ CachesStep(r) /\ UNCHANGED now

\* Who has the same key, and who overlaps, does not change once both have begun.
LEMMA BegunStays ==
  ASSUME RepeatInv, NEW r \in Request, RepeatStep(r), NEW s \in Request, NEW t \in Request,
         req[s].key # NoKey, req[t].key # NoKey
  PROVE  /\ SameAsked(req'[s], req[s]) /\ SameAsked(req'[t], req[t])
         /\ SameKey(s, t)' <=> SameKey(s, t)
         /\ Apart(s, t)' <=> Apart(s, t)
<1>1. ASSUME NEW u \in Request, req[u].key # NoKey PROVE SameAsked(req'[u], req[u])
  <2>1. req[u].pc # "new"
    BY Zenon, <1>1 DEF RepeatInv
  <2> QED BY Zenon, <2>1 DEF RepeatStep, Moves, SameState
<1> QED BY Zenon, <1>1 DEF SameAsked, SameKey, Apart

\* Each request names as earlier only ones that have ended.
LEMMA BegunKeeps ==
  ASSUME RepeatInv, NEW r \in Request, RepeatStep(r), NEW s \in Request
  PROVE  /\ req'[s].pc = "new" => req'[s].key = NoKey /\ req'[s].before = {}
         /\ req'[s].before \subseteq Ended'
         /\ req'[s].pc \in {"lookup", "check", "store"} => req'[s].key # NoKey
<1>1. Ended \subseteq Ended'
  BY Zenon DEF Ended, RepeatStep, Moves, SameState
<1>2. CASE s = r
  BY Zenon, <1>1, <1>2 DEF RepeatInv, RepeatStep, Moves, SameAsked
<1>3. CASE s # r
  <2>1. SameState(req'[s], req[s])
    BY Zenon, <1>3 DEF RepeatStep, Moves
  <2>2. req'[s].pc = req[s].pc /\ req'[s].key = req[s].key /\ req'[s].before = req[s].before
    BY Zenon, <2>1 DEF SameState, SameAsked
  <2>3. /\ req[s].pc = "new" => req[s].key = NoKey /\ req[s].before = {}
        /\ req[s].before \subseteq Ended
        /\ req[s].pc \in {"lookup", "check", "store"} => req[s].key # NoKey
    BY Zenon DEF RepeatInv
  <2> QED BY Zenon, <1>1, <2>2, <2>3
<1> QED BY <1>2, <1>3

\* Once there is a reason for a 409 it stays.
LEMMA DisputeStays ==
  ASSUME RepeatInv, NEW r \in Request, RepeatStep(r), NEW q \in Request, Disputed(q)
  PROVE  Disputed(q)'
<1>1. PICK t \in Request : /\ SameKey(q, t)
                           /\ \/ req[t].payload # req[q].payload
                              \/ ~Apart(q, t)
                              \/ req[t].pc = "cancelled"
  BY Zenon DEF Disputed
<1>2. req[q].key # NoKey /\ req[t].key # NoKey
  BY Zenon, <1>1 DEF SameKey
<1>3. /\ SameAsked(req'[q], req[q]) /\ SameAsked(req'[t], req[t])
      /\ SameKey(q, t)' /\ (Apart(q, t)' <=> Apart(q, t))
  BY Zenon, <1>1, <1>2, BegunStays
<1>4. req[t].pc = "cancelled" => req'[t].pc = "cancelled"
  BY Zenon DEF RepeatStep, Moves, SameState
<1>5. req'[t].payload = req[t].payload /\ req'[q].payload = req[q].payload
  BY Zenon, <1>3 DEF SameAsked
<1>6. SameKey(q, t)' /\ (req'[t].payload # req'[q].payload \/ ~Apart(q, t)' \/ req'[t].pc = "cancelled")
  BY Zenon, <1>1, <1>3, <1>4, <1>5
<1> QED BY Zenon, <1>6 DEF Disputed

\* An entry of the cache after a step comes from a request that has been answered.
LEMMA CacheFilledKeeps ==
  ASSUME RepeatInv, now \in Nat, NEW r \in Request, RepeatStep(r), NEW k \in DOMAIN cache'
  PROVE  CacheFilled(k)'
<1>1. CASE k \in DOMAIN cache /\ cache'[k] = cache[k]
  <2>1. CacheFilled(k)
    BY Zenon, <1>1 DEF RepeatInv
  <2>2. PICK t \in Request : req[t].key = k /\ req[t].payload = cache[k].payload /\ req[t].pc = "done"
    BY Zenon, <2>1 DEF CacheFilled
  <2>3. SameState(req'[t], req[t])
    BY Zenon, <2>2 DEF RepeatStep, Moves
  <2>4. /\ req'[t].key = k /\ req'[t].payload = cache'[k].payload /\ req'[t].pc = "done" /\ now' = now
        /\ cache'[k].at \in Nat /\ cache'[k].at <= now /\ cache'[k].status # 409
    <3>1. /\ cache[k].at \in Nat /\ cache[k].at <= now /\ cache[k].status # 409 /\ now' = now
      BY Zenon, <2>1 DEF CacheFilled, RepeatStep
    <3>2. req'[t].key = req[t].key /\ req'[t].payload = req[t].payload /\ req'[t].pc = req[t].pc
      BY Zenon, <2>3 DEF SameState, SameAsked
    <3> QED BY <1>1, <2>2, <3>1, <3>2
  <2> QED BY Zenon, <2>4 DEF CacheFilled
<1>2. CASE k = req[r].key /\ StoresAnswer(r)
  <2>1. cache'[k] = [payload |-> req[r].payload, id |-> req'[r].id, status |-> req'[r].status, at |-> now]
    BY Zenon, <1>2 DEF RepeatStep, CachesStep
  <2>2. /\ cache'[k].payload = req[r].payload /\ cache'[k].status = req'[r].status
        /\ cache'[k].at = now /\ now <= now
    BY <2>1
  <2>3. SameAsked(req'[r], req[r]) /\ req'[r].pc = "done" /\ req'[r].status # 409 /\ now' = now
    <3>1. req[r].pc # "new"
      BY SMTT(30), <1>2 DEF StoresAnswer
    <3> QED BY Zenon, <1>2, <3>1 DEF RepeatStep, Moves, Answered, StoresAnswer
  <2>4. /\ req'[r].key = k /\ req'[r].payload = cache'[k].payload /\ req'[r].pc = "done" /\ now' = now
        /\ cache'[k].at \in Nat /\ cache'[k].at <= now /\ cache'[k].status # 409
    BY <1>2, <2>2, <2>3 DEF SameAsked
  <2> QED BY Zenon, <2>4 DEF CacheFilled
<1> QED BY Zenon, <1>1, <1>2 DEF RepeatStep, CachesStep

\* A request that has written, and is answered, has filled the API's cache later.
LEMMA WrittenFirstKeeps ==
  ASSUME RepeatInv, now \in Nat, NEW r \in Request, RepeatStep(r), NEW k \in DOMAIN ccache'
  PROVE  WrittenFirst(k)'
<1>0. now' = now
  BY Zenon DEF RepeatStep
<1>1. CASE k \in DOMAIN ccache /\ ccache'[k] = ccache[k]
  <2>1. WrittenFirst(k)
    BY Zenon, <1>1 DEF RepeatInv
  <2>2. PICK t \in Request :
          /\ req[t].key = k /\ HasWritten(t)
          /\ req[t].pc = "done" /\ Fresh(ccache[k]) => k \in DOMAIN cache /\ cache[k].at >= ccache[k].at
    BY Zenon, <2>1 DEF WrittenFirst
  <2>3. ccache[k].at \in Nat /\ ccache[k].at <= now
    BY Zenon, <2>1 DEF WrittenFirst
  <2>4. req[t].pc # "new" /\ (req[t].pc = "store" \/ t # r)
    BY <2>2 DEF HasWritten, RepeatStep, Moves
  <2>5. req'[t].key = k
    BY Zenon, <2>2, <2>4 DEF RepeatStep, Moves, SameState, SameAsked
  <2>6. HasWritten(t)'
    <3>1. CASE t = r
      <4>1. req'[t].pc \in {"done", "cancelled"}
        BY Zenon, <2>4, <3>1 DEF RepeatStep, Moves
      <4> QED BY <4>1 DEF HasWritten
    <3>2. CASE t # r
      BY Zenon, <2>2, <3>2 DEF RepeatStep, Moves, SameState, HasWritten
    <3> QED BY <3>1, <3>2
  <2>7. ASSUME req'[t].pc = "done", Fresh(ccache[k])
        PROVE  k \in DOMAIN cache' /\ cache'[k].at >= ccache[k].at
    <3>1. ASSUME k = req[r].key, StoresAnswer(r) PROVE k \in DOMAIN cache' /\ cache'[k].at = now
      <4>1. /\ k \in DOMAIN cache'
            /\ cache'[k] = [payload |-> req[r].payload, id |-> req'[r].id,
                            status |-> req'[r].status, at |-> now]
        BY Zenon, <3>1 DEF RepeatStep, CachesStep
      <4> QED BY <4>1
    <3>2. CASE t = r
      <4>1. StoresAnswer(r) /\ k = req[r].key
        BY Zenon, <2>2, <2>4, <2>7, <3>2 DEF StoresAnswer
      <4> QED BY <2>3, <3>1, <4>1
    <3>3. CASE t # r
      <4>1. req[t].pc = "done"
        BY Zenon, <2>7, <3>3 DEF RepeatStep, Moves, SameState
      <4>2. k \in DOMAIN cache /\ cache[k].at >= ccache[k].at
        BY Zenon, <2>2, <2>7, <4>1
      <4>3. cache[k].at \in Nat
        BY ZenonT(40), <4>2 DEF RepeatInv, CacheFilled
      <4>4. Fresh(cache[k])
        BY <2>3, <2>7, <4>2, <4>3, ApiAssumption DEF Fresh
      <4>5. k \in DOMAIN cache' /\ (cache'[k] = cache[k] \/ (k = req[r].key /\ StoresAnswer(r)))
        BY Zenon, <4>2, <4>4 DEF RepeatStep, CachesStep
      <4>6. CASE cache'[k] = cache[k]
        BY Zenon, <4>2, <4>5, <4>6
      <4>7. CASE k = req[r].key /\ StoresAnswer(r)
        BY <2>3, <3>1, <4>7
      <4> QED BY Zenon, <4>5, <4>6, <4>7
    <3> QED BY SMTT(30), <3>2, <3>3
  <2>8. Fresh(ccache[k])' => Fresh(ccache[k])
    BY Zenon, <1>0, <1>1 DEF Fresh
  <2> QED BY Zenon, <1>0, <1>1, <2>3, <2>5, <2>6, <2>7, <2>8 DEF WrittenFirst
<1>2. CASE k = req[r].key /\ req[r].pc = "write" /\ req'[r].pc = "store" /\ ccache'[k].at = now
  <2>1. req[r].pc # "new" /\ req'[r].pc # "done" /\ HasWritten(r)' /\ now <= now
    BY <1>2 DEF HasWritten
  <2>2. req'[r].key = k
    BY Zenon, <1>2, <2>1 DEF RepeatStep, Moves, SameAsked
  <2> QED BY Zenon, <1>0, <1>2, <2>1, <2>2 DEF WrittenFirst
<1> QED BY Zenon, <1>1, <1>2 DEF RepeatStep, CachesStep

\* What the coordinator's cache holds that the API's did not comes from a request that
\* was under way or is cancelled.
LEMMA FoundNothingKeeps ==
  ASSUME RepeatInv, now \in Nat, NEW r \in Request, RepeatStep(r), NEW q \in Request
  PROVE  FoundNothing(q)'
<1> DEFINE k == req'[q].key
<1> SUFFICES ASSUME req'[q].pc \in {"parse", "read", "check"}, k # NoKey, k \in DOMAIN ccache',
                    Fresh(ccache[req[q].key])'
             PROVE  \E t \in Request : /\ SameKey(q, t)' /\ HasWritten(t)'
                                       /\ req'[t].pc = "cancelled" \/ t \notin req'[q].before
  BY Zenon DEF FoundNothing
<1>0. now' = now /\ \A s \in Request : req[s].pc \in {"write", "store"} => \A u \in Request : s \notin req[u].before
  <2>1. \A s \in Request : req[s].pc \in {"write", "store"} => s \notin Ended
    BY DEF Ended
  <2> QED BY Zenon, <2>1 DEF RepeatStep, RepeatInv
<1>1. CASE k = req[r].key /\ req[r].pc = "write" /\ req'[r].pc = "store"
  <2>1. q # r /\ req[r].pc # "new" /\ HasWritten(r)'
    BY <1>1 DEF HasWritten
  <2>2. req'[r].key = k /\ req'[q].before = req[q].before
    BY Zenon, <1>1, <2>1 DEF RepeatStep, Moves, SameAsked, SameState
  <2>3. SameKey(q, r)'
    BY Zenon, <2>1, <2>2 DEF SameKey
  <2>4. r \notin req'[q].before
    BY Zenon, <1>0, <1>1, <2>2
  <2> QED BY Zenon, <2>1, <2>3, <2>4
<1>2. CASE k \in DOMAIN ccache /\ ccache'[k] = ccache[k]
  <2>1. Fresh(ccache[k])
    BY Zenon, <1>0, <1>2 DEF Fresh
  <2>2. CASE req[q].pc \in {"parse", "read", "check"}
    <3>1. req[q].pc # "new"
      BY <2>2
    <3>2. SameAsked(req'[q], req[q]) /\ req[q].key = k
      BY Zenon, <3>1 DEF RepeatStep, Moves, SameState, SameAsked
    <3>3. FoundNothing(q)
      BY Zenon DEF RepeatInv
    <3>4. PICK t \in Request : /\ SameKey(q, t) /\ HasWritten(t)
                               /\ req[t].pc = "cancelled" \/ t \notin req[q].before
      BY Zenon, <1>2, <2>1, <2>2, <3>2, <3>3 DEF FoundNothing
    <3>5. req[q].key # NoKey /\ req[t].key # NoKey
      BY Zenon, <3>2, <3>4 DEF SameKey
    <3>6. SameKey(q, t)'
      BY Zenon, <3>4, <3>5, BegunStays
    <3>7. req[t].pc = "cancelled" => req'[t].pc = "cancelled"
      BY Zenon DEF RepeatStep, Moves, SameState
    <3>8. HasWritten(t)'
      <4>1. CASE t = r
        <5>1. req[t].pc = "store"
          BY Zenon, <3>4, <4>1 DEF HasWritten, RepeatStep, Moves
        <5>2. req'[t].pc \in {"done", "cancelled"}
          BY Zenon, <4>1, <5>1 DEF RepeatStep, Moves
        <5> QED BY <5>2 DEF HasWritten
      <4>2. CASE t # r
        BY Zenon, <3>4, <4>2 DEF HasWritten, RepeatStep, Moves, SameState
      <4> QED BY <4>1, <4>2
    <3> QED BY Zenon, <3>2, <3>4, <3>6, <3>7, <3>8 DEF SameAsked
  <2>3. CASE req[q].pc \notin {"parse", "read", "check"}
    <3>1. q = r
      BY Zenon, <2>3 DEF RepeatStep, Moves, SameState
    <3>2. req[r].pc = "lookup" /\ (req[r].key \in DOMAIN cache => ~Fresh(cache[req[r].key]))
      BY Zenon, <2>3, <3>1 DEF RepeatStep, Moves
    <3>3. SameAsked(req'[r], req[r]) /\ req[r].key = k
      <4>1. req[r].pc # "new"
        BY <3>2
      <4> QED BY Zenon, <3>1, <4>1 DEF RepeatStep, Moves, SameAsked
    <3>4. WrittenFirst(k)
      BY Zenon, <1>2 DEF RepeatInv
    <3>5. ccache[k].at \in Nat /\ ccache[k].at <= now
      BY Zenon, <3>4 DEF WrittenFirst
    <3>6. PICK t \in Request :
            /\ req[t].key = k /\ HasWritten(t)
            /\ req[t].pc = "done" /\ Fresh(ccache[k]) => k \in DOMAIN cache /\ cache[k].at >= ccache[k].at
      BY Zenon, <3>4 DEF WrittenFirst
    <3>7. req[t].pc # "done"
      <4> SUFFICES ASSUME req[t].pc = "done" PROVE FALSE
        BY Zenon
      <4>1. k \in DOMAIN cache /\ cache[k].at >= ccache[k].at
        BY Zenon, <2>1, <3>6
      <4>2. cache[k].at \in Nat
        BY Zenon, <4>1 DEF RepeatInv, CacheFilled
      <4>3. Fresh(cache[k])
        BY SMTT(30), <2>1, <3>5, <4>1, <4>2, ApiAssumption DEF Fresh
      <4> QED BY Zenon, <3>2, <3>3, <4>1, <4>3
    <3>8. t # r /\ (req[t].pc = "store" \/ req[t].pc = "cancelled")
      BY <3>2, <3>6, <3>7 DEF HasWritten
    <3>9. SameState(req'[t], req[t])
      BY Zenon, <3>8 DEF RepeatStep, Moves
    <3>10. SameKey(q, t)' /\ HasWritten(t)'
      BY Zenon, <3>1, <3>3, <3>6, <3>8, <3>9 DEF SameKey, HasWritten, SameState, SameAsked
    <3>11. req'[t].pc = "cancelled" \/ t \notin req'[q].before
      BY Zenon, <1>0, <3>1, <3>3, <3>8, <3>9 DEF SameState, SameAsked
    <3> QED BY Zenon, <3>10, <3>11
  <2> QED BY <2>2, <2>3
<1> QED BY Zenon, <1>1, <1>2 DEF RepeatStep, CachesStep

\* A 409 is answered with a reason.
LEMMA DisputedKeeps ==
  ASSUME RepeatInv, NEW r \in Request, RepeatStep(r), NEW q \in Request,
         req'[q].pc = "done", req'[q].status = 409
  PROVE  Disputed(q)'
<1>1. CASE q # r
  <2>a. SameState(req'[q], req[q])
    BY ZenonT(40), <1>1 DEF RepeatStep, Moves
  <2>1. req[q].pc = "done" /\ req[q].status = 409
    BY <2>a DEF SameState
  <2> QED BY ZenonT(40), <2>1, DisputeStays DEF RepeatInv
<1>2. CASE q = r
  <2>1. ~StoresAnswer(r)
    BY Zenon, <1>2 DEF RepeatStep, Answered
  <2>2. CASE /\ req[r].pc = "lookup" /\ req[r].key \in DOMAIN cache
             /\ cache[req[r].key].payload # req[r].payload \/ cache[req[r].key].status = 409
    <3>1. CacheFilled(req[r].key) /\ req[r].key # NoKey
      BY ZenonT(40), <2>2 DEF RepeatInv
    <3>2. PICK t \in Request : req[t].key = req[r].key /\ req[t].payload # req[r].payload
      BY ZenonT(40), <2>2, <3>1 DEF CacheFilled
    <3>3. SameKey(r, t)
      BY Zenon, <3>1, <3>2 DEF SameKey
    <3>4. Disputed(r)
      BY Zenon, <3>2, <3>3 DEF Disputed
    <3> QED BY Zenon, <1>2, <3>4, DisputeStays
  <2>3. CASE req[r].pc = "check" /\ req[r].key \in DOMAIN ccache /\ Fresh(ccache[req[r].key])
    <3>1. FoundNothing(r) /\ req[r].key # NoKey
      BY ZenonT(40), <2>3 DEF RepeatInv
    <3>2. PICK t \in Request : SameKey(r, t) /\ (req[t].pc = "cancelled" \/ t \notin req[r].before)
      BY Zenon, <2>3, <3>1 DEF FoundNothing
    <3>3. r \notin Ended
      BY <2>3 DEF Ended
    <3>4. r \notin req[t].before
      BY Zenon, <3>3 DEF RepeatInv
    <3>5. Disputed(r)
      BY ZenonT(40), <3>2, <3>4 DEF Disputed, Apart
    <3> QED BY Zenon, <1>2, <3>5, DisputeStays
  <2> QED BY Zenon, <1>2, <2>1, <2>2, <2>3 DEF RepeatStep, Answered
<1> QED BY <1>1, <1>2

\* The request that creates the object is remembered from its answer on ...
LEMMA NewlyRemembered ==
  ASSUME RepeatInv, NEW r \in Request, RepeatStep(r), Created(r)'
  PROVE  Remembered(r)'
<1>1. /\ req'[r].pc = "done" /\ req'[r].status = 201 /\ ~req'[r].replayed /\ req'[r].key # NoKey
  BY Zenon DEF Created
<1>2. StoresAnswer(r)
  BY Zenon, <1>1 DEF RepeatStep, Answered
<1>3. req[r].pc = "store" /\ req[r].pc # "new" /\ r \notin Ended
  BY <1>2 DEF StoresAnswer, Ended
<1>4. SameAsked(req'[r], req[r])
  BY Zenon, <1>3 DEF RepeatStep, Moves
<1>5. /\ req'[r].key \in DOMAIN cache'
      /\ cache'[req'[r].key] = [payload |-> req'[r].payload, id |-> req'[r].id, status |-> 201,
                                at |-> req'[r].at]
  <2>1. /\ req[r].key \in DOMAIN cache'
        /\ cache'[req[r].key] = [payload |-> req[r].payload, id |-> req'[r].id,
                                 status |-> req'[r].status, at |-> now]
    BY Zenon, <1>2 DEF RepeatStep, CachesStep
  <2>2. req'[r].key = req[r].key /\ req'[r].payload = req[r].payload
    BY Zenon, <1>4 DEF SameAsked
  <2>3. req'[r].at = now
    BY Zenon, <1>1 DEF RepeatStep, Answered
  <2> QED BY Zenon, <1>1, <2>1, <2>2, <2>3
<1>6. ASSUME NEW s \in Request, SameKey(r, s)' PROVE r \notin req'[s].before
  <2>1. s # r
    BY Zenon, <1>6 DEF SameKey
  <2>2. req'[s].before = req[s].before
    BY Zenon, <2>1 DEF RepeatStep, Moves, SameState, SameAsked
  <2> QED BY Zenon, <1>3, <2>2 DEF RepeatInv
<1> QED BY Zenon, <1>5, <1>6 DEF Remembered

\* ... and stays so: later requests with its key do not get past the cache.
LEMMA StillRemembered ==
  ASSUME RepeatInv, now \in Nat, NEW r \in Request, RepeatStep(r), NEW t \in Request, t # r,
         req[t].at \in Nat, Created(t)'
  PROVE  Remembered(t)'
<1>0. now' = now /\ SameState(req'[t], req[t])
  BY Zenon DEF RepeatStep, Moves
<1>1. /\ req'[t].key = req[t].key /\ req'[t].payload = req[t].payload /\ req'[t].id = req[t].id
      /\ req'[t].at = req[t].at /\ req'[t].before = req[t].before /\ req[t].key # NoKey
  BY Zenon, <1>0 DEF SameState, SameAsked, Created
<1>2. Created(t)
  <2>1. ASSUME NEW s \in Request, SameKey(t, s) PROVE Apart(t, s)
    <3>1. req[s].key # NoKey
      BY Zenon, <2>1 DEF SameKey
    <3>2. (SameKey(t, s)' <=> SameKey(t, s)) /\ (Apart(t, s)' <=> Apart(t, s))
      BY Zenon, <1>1, <3>1, BegunStays
    <3> QED BY Zenon, <2>1, <3>2 DEF Created
  <2> QED BY Zenon, <1>0, <1>1, <2>1 DEF Created, SameState
<1>3. Remembered(t)
  BY Zenon, <1>2 DEF RepeatInv
<1> DEFINE k == req[t].key
<1>4. ASSUME now < req[t].at + KeyRetention
      PROVE  /\ k \in DOMAIN cache
             /\ cache[k] = [payload |-> req[t].payload, id |-> req[t].id, status |-> 201, at |-> req[t].at]
             /\ Fresh(cache[k])
             /\ \A s \in Request : SameKey(t, s) /\ t \in req[s].before =>
                  req[s].pc \in {"lookup", "done", "cancelled"}
  <2>1. /\ k \in DOMAIN cache
        /\ cache[k] = [payload |-> req[t].payload, id |-> req[t].id, status |-> 201, at |-> req[t].at]
        /\ \A s \in Request : SameKey(t, s) /\ t \in req[s].before =>
             req[s].pc \in {"lookup", "done", "cancelled"}
    BY ZenonT(40), <1>3, <1>4 DEF Remembered
  <2>2. cache[k].at = req[t].at
    BY SMTT(30), <2>1
  <2>3. Fresh(cache[k])
    BY <1>4, <2>2, ApiAssumption DEF Fresh
  <2> QED BY Zenon, <2>1, <2>3
<1>5. ASSUME SameKey(t, r), now < req[t].at + KeyRetention, req[r].pc # "new" PROVE req[r].pc # "store"
  <2> SUFFICES ASSUME req[r].pc = "store" PROVE FALSE
    BY Zenon
  <2>1. Apart(t, r)
    BY Zenon, <1>2, <1>5 DEF Created
  <2>2. r \notin Ended
    BY DEF Ended
  <2>3. r \notin req[t].before
    BY Zenon, <2>2 DEF RepeatInv
  <2>4. t \in req[r].before
    BY Zenon, <2>1, <2>3 DEF Apart
  <2>5. req[r].pc \in {"lookup", "done", "cancelled"}
    BY Zenon, <1>4, <1>5, <2>4
  <2> QED BY <2>5
<1>6. ASSUME now < req[t].at + KeyRetention PROVE k \in DOMAIN cache' /\ cache'[k] = cache[k]
  <2>1. ~(k = req[r].key /\ StoresAnswer(r))
    <3> SUFFICES ASSUME k = req[r].key, req[r].pc = "store" PROVE FALSE
      BY Zenon DEF StoresAnswer
    <3>1. SameKey(t, r) /\ req[r].pc # "new"
      BY <1>1 DEF SameKey
    <3> QED BY Zenon, <1>5, <1>6, <3>1
  <2> QED BY Zenon, <1>4, <1>6, <2>1 DEF RepeatStep, CachesStep
<1>7. ASSUME NEW s \in Request, SameKey(t, s)', t \in req'[s].before, now < req[t].at + KeyRetention
      PROVE  /\ req'[s].pc \in {"lookup", "done", "cancelled"}
             /\ req'[s].pc = "done" /\ req'[s].status = 201 /\ s = r =>
                  req'[s].id = req[t].id /\ req'[s].payload = req[t].payload
  <2>1. CASE s # r
    <3>1. SameState(req'[s], req[s])
      BY Zenon, <2>1 DEF RepeatStep, Moves
    <3>2. SameKey(t, s) /\ t \in req[s].before /\ req'[s].pc = req[s].pc
      BY Zenon, <1>1, <1>7, <3>1 DEF SameKey, SameState, SameAsked
    <3> QED BY Zenon, <1>4, <1>7, <2>1, <3>2
  <2>2. CASE s = r /\ req[r].pc = "new"
    <3>1. req'[r].key # NoKey
      BY Zenon, <1>7, <2>2 DEF SameKey
    <3>2. req'[r].pc \in {"lookup", "done"}
      BY Zenon, <2>2, <3>1 DEF RepeatStep, Moves
    <3>3. req[r].pc # "lookup" /\ req[r].pc # "store"
      BY <2>2
    <3>4. ~(req'[r].pc = "done" /\ req'[r].status = 201)
      BY Zenon, <3>1, <3>3 DEF RepeatStep, Answered, StoresAnswer
    <3> QED BY Zenon, <2>2, <3>2, <3>4
  <2>3. CASE s = r /\ req[r].pc # "new"
    <3>1. SameAsked(req'[r], req[r])
      BY Zenon, <2>3 DEF RepeatStep, Moves
    <3>2. SameKey(t, r) /\ t \in req[r].before /\ req[r].key = k /\ req'[r].key = k
      BY Zenon, <1>1, <1>7, <2>3, <3>1 DEF SameKey, SameAsked
    <3>3. req[r].pc = "lookup"
      BY Zenon, <1>4, <1>7, <3>2 DEF RepeatStep, Moves
    <3>4. req'[r].pc # "parse"
      <4> SUFFICES ASSUME req'[r].pc = "parse" PROVE FALSE
        BY Zenon
      <4>1. req[r].pc \notin {"parse", "read"}
        BY <3>3
      <4> QED BY Zenon, <1>1, <1>4, <1>7, <3>2, <4>1 DEF RepeatStep, Moves
    <3>5. req'[r].pc \in {"done", "cancelled"}
      BY Zenon, <3>3, <3>4 DEF RepeatStep, Moves
    <3>6. ~StoresAnswer(r)
      BY <3>3 DEF StoresAnswer
    <3>7. ASSUME req'[r].pc = "done", req'[r].status = 201
          PROVE  req'[r].id = cache[k].id /\ req'[r].payload = cache[k].payload
      <4>1. req'[r].key # NoKey
        BY Zenon, <1>1, <3>2
      <4>2. req'[r].id = cache[req[r].key].id /\ req[r].payload = cache[req[r].key].payload
        BY Zenon, <3>6, <3>7, <4>1 DEF RepeatStep, Answered
      <4>3. req'[r].payload = req[r].payload
        BY Zenon, <3>1 DEF SameAsked
      <4> QED BY Zenon, <3>2, <4>2, <4>3
    <3>8. cache[k].id = req[t].id /\ cache[k].payload = req[t].payload
      BY SMTT(30), <1>4, <1>7
    <3> QED BY Zenon, <2>3, <3>5, <3>7, <3>8
  <2> QED BY Zenon, <2>1, <2>2, <2>3
<1>8. ASSUME NEW s \in Request, SameKey(t, s)', t \in req'[s].before, req'[s].pc = "done",
             req'[s].status = 201, req'[s].at < req[t].at + KeyRetention
      PROVE  req'[s].id = req[t].id /\ req'[s].payload = req[t].payload
  <2>1. CASE s = r
    <3>1. req'[s].at = now
      BY Zenon, <1>8, <2>1 DEF RepeatStep, Answered
    <3> QED BY Zenon, <1>7, <1>8, <2>1, <3>1
  <2>2. CASE s # r
    <3>1. SameState(req'[s], req[s])
      BY Zenon, <2>2 DEF RepeatStep, Moves
    <3>2. /\ SameKey(t, s) /\ t \in req[s].before /\ req[s].pc = "done" /\ req[s].status = 201
          /\ req[s].at < req[t].at + KeyRetention
          /\ req'[s].id = req[s].id /\ req'[s].payload = req[s].payload
      BY ZenonT(40), <1>1, <1>8, <3>1 DEF SameKey, SameState, SameAsked
    <3> QED BY Zenon, <1>3, <3>2 DEF Remembered
  <2> QED BY <2>1, <2>2
<1> QED BY ZenonT(40), <1>0, <1>1, <1>4, <1>6, <1>7, <1>8 DEF Remembered

\* Whatever a request does, the invariant holds after it.
LEMMA RepeatStepKeeps ==
  ASSUME IInv, RepeatInv, NEW r \in Request, RepeatStep(r)
  PROVE  RepeatInv'
<1>1. now \in Nat /\ \A s \in Request : req[s].at \in Nat
  <2>1. now \in Nat /\ \A s \in Request : req[s] \in RequestType
    BY Zenon DEF IInv, Stores
  <2> QED BY <2>1 DEF RequestType
<1>2. \A t \in Request : Created(t)' => Remembered(t)'
  BY Zenon, <1>1, NewlyRemembered, StillRemembered
<1>3. \A q \in Request : req'[q].pc = "done" /\ req'[q].status = 409 => Disputed(q)'
  BY Zenon, DisputedKeeps
<1>4. (\A q \in Request : FoundNothing(q)') /\ (\A k \in DOMAIN cache' : CacheFilled(k)')
      /\ \A k \in DOMAIN ccache' : WrittenFirst(k)'
  BY Zenon, <1>1, FoundNothingKeeps, CacheFilledKeeps, WrittenFirstKeeps
<1>5. \A s \in Request :
        /\ req'[s].pc = "new" => req'[s].key = NoKey /\ req'[s].before = {}
        /\ req'[s].before \subseteq Ended'
        /\ req'[s].pc \in {"lookup", "check", "store"} => req'[s].key # NoKey
  BY Zenon, BegunKeeps
<1> QED BY Zenon, <1>2, <1>3, <1>4, <1>5 DEF RepeatInv

\* The fields of a request that is answered, and of one that goes on.
LEMMA AnswerFields ==
  ASSUME NEW q \in RequestType, NEW status
  PROVE  /\ Answer(q, status).pc = "done" /\ Answer(q, status).status = status
         /\ Answer(q, status).at = now /\ SameAsked(Answer(q, status), q)
         /\ DOMAIN Answer(q, status) = DOMAIN q
BY DEF Answer, SameAsked, RequestType

\* A request that goes on to its next await keeps what it asked.
LEMMA ToFields ==
  ASSUME NEW r, req[r] \in RequestType, NEW pc
  PROVE  To(r, pc).pc = pc /\ SameAsked(To(r, pc), req[r]) /\ DOMAIN To(r, pc) = DOMAIN req[r]
BY DEF To, SameAsked, RequestType

\* A step of one handler leaves the other requests alone.
LEMMA OthersStay ==
  ASSUME IInv, NEW r \in Request, NEW q, SetReq(r, q)
  PROVE  req'[r] = q /\ \A s \in Request \ {r} : SameState(req'[s], req[s])
BY Zenon DEF IInv, SetReq, SameState, SameAsked

\* The steps of a request that touch no cache, and a cancellation.
LEMMA PlainStep ==
  ASSUME RepeatInv, NEW r \in Request, \A s \in Request \ {r} : SameState(req'[s], req[s]),
         SameAsked(req'[r], req[r]), UNCHANGED <<cache, ccache, now>>,
         \/ req'[r].pc = "cancelled" /\ req[r].pc \notin {"new", "done", "cancelled"}
         \/ /\ req[r].pc \in {"parse", "read", "write"}
            /\ req'[r].pc = "done" /\ req'[r].at = now
            /\ req'[r].status # 409 /\ (req'[r].status = 201 => req[r].key = NoKey)
         \/ /\ req[r].pc \in {"parse", "read"}
            /\ \/ req'[r].pc \in {"read", "write"}
               \/ req'[r].pc = "check" /\ req[r].key # NoKey
  PROVE  RepeatStep(r)
<1>1. ~StoresAnswer(r) /\ req[r].pc \notin {"new", "done", "cancelled"} /\ req'[r].pc # "new"
  BY DEF StoresAnswer
<1>2. req'[r].key = req[r].key
  BY Zenon DEF SameAsked
<1>3. /\ req[r].pc = "lookup" => req'[r].pc \in {"parse", "done", "cancelled"}
      /\ req[r].pc = "store" => req'[r].pc \in {"done", "cancelled"}
      /\ req'[r].pc \in {"lookup", "check", "store"} => req[r].key # NoKey
      /\ req'[r].pc \in {"parse", "read", "check"} => req[r].pc \in {"parse", "read"}
      /\ req'[r].pc = "done" => /\ req'[r].at = now /\ req'[r].status # 409
                                /\ req'[r].status = 201 => req[r].key = NoKey
  BY SMTT(30)
<1>4. req[r].pc # "new" /\ req[r].pc \notin {"done", "cancelled"}
  BY <1>1
<1>5. Moves(r)
  BY ZenonT(40), <1>1, <1>2, <1>3, <1>4 DEF Moves
<1>6. Answered(r)
  BY ZenonT(40), <1>1, <1>2, <1>3 DEF Answered
<1>7. CachesStep(r)
  BY Zenon, <1>1 DEF CachesStep
<1> QED BY ZenonT(40), <1>5, <1>6, <1>7 DEF RepeatStep

\* A cancellation is a step on which repeated creates agree.
LEMMA CancelRepeat ==
  ASSUME IInv, RepeatInv, NEW r \in Request, Cancel(r), UNCHANGED now
  PROVE  RepeatStep(r)
<1>1. req[r] \in RequestType
  BY Zenon DEF IInv
<1>2. req'[r].pc = "cancelled" /\ SameAsked(req'[r], req[r])
      /\ \A s \in Request \ {r} : SameState(req'[s], req[s])
  BY ZenonT(40), <1>1, ToFields, OthersStay DEF Cancel
<1> QED BY Zenon, <1>2, PlainStep DEF Cancel

\* So is the parsing of the body.
LEMMA ParseRepeat ==
  ASSUME IInv, RepeatInv, NEW r \in Request, ParseBody(r), UNCHANGED now
  PROVE  RepeatStep(r)
<1>0. req[r] \in RequestType /\ req[r].pc = "parse" /\ UNCHANGED <<cache, ccache, now>>
  BY Zenon DEF IInv, ParseBody
<1>1. CASE SetReq(r, Answer(req[r], 400))
  <2>1. /\ req'[r].pc = "done" /\ req'[r].at = now /\ req'[r].status = 400 /\ SameAsked(req'[r], req[r])
        /\ \A s \in Request \ {r} : SameState(req'[s], req[s])
    <3>1. /\ Answer(req[r], 400).pc = "done" /\ Answer(req[r], 400).status = 400
          /\ Answer(req[r], 400).at = now /\ SameAsked(Answer(req[r], 400), req[r])
      BY <1>0, AnswerFields
    <3>2. req'[r] = Answer(req[r], 400) /\ \A s \in Request \ {r} : SameState(req'[s], req[s])
      BY ZenonT(40), <1>1, OthersStay
    <3> QED BY ZenonT(40), <3>1, <3>2
  <2>2. req'[r].status # 409 /\ req'[r].status # 201
    BY <2>1
  <2> QED BY ZenonT(40), <1>0, <2>1, <2>2, PlainStep
<1>2. CASE SetReq(r, To(r, "read"))
  <2>1. /\ req'[r].pc = "read" /\ SameAsked(req'[r], req[r])
        /\ \A s \in Request \ {r} : SameState(req'[s], req[s])
    BY ZenonT(40), <1>0, <1>2, ToFields, OthersStay
  <2> QED BY Zenon, <1>0, <2>1, PlainStep
<1>3. ASSUME NEW id, SetReq(r, [To(r, IF req[r].key = NoKey THEN "write" ELSE "check") EXCEPT
                                  !.id = id, !.is_new = TRUE])
      PROVE  RepeatStep(r)
  <2> DEFINE pc == IF req[r].key = NoKey THEN "write" ELSE "check"
             q == [To(r, pc) EXCEPT !.id = id, !.is_new = TRUE]
  <2>1. req'[r] = q /\ \A s \in Request \ {r} : SameState(req'[s], req[s])
    BY Zenon, <1>3, OthersStay
  <2>2. q.pc = pc /\ SameAsked(q, req[r])
    BY <1>0 DEF To, SameAsked, RequestType
  <2>3. pc = "write" \/ (pc = "check" /\ req[r].key # NoKey)
    OBVIOUS
  <2> HIDE DEF q, pc
  <2>4. SameAsked(req'[r], req[r]) /\ (req'[r].pc = "write" \/ (req'[r].pc = "check" /\ req[r].key # NoKey))
    BY Zenon, <2>1, <2>2, <2>3
  <2> QED BY Zenon, <1>0, <2>1, <2>4, PlainStep
<1> QED BY Zenon, <1>1, <1>2, <1>3 DEF ParseBody

\* So is the read of an object, for If-Match or for the client.
LEMMA ReadRepeat ==
  ASSUME IInv, RepeatInv, NEW r \in Request, ReadObject(r), UNCHANGED now
  PROVE  RepeatStep(r)
<1>0. req[r] \in RequestType /\ req[r].pc = "read" /\ UNCHANGED <<cache, ccache, now>>
  BY Zenon DEF IInv, ReadObject
<1> DEFINE next == IF req[r].op = "upsert" /\ req[r].payload = NoObject THEN Answer(req[r], 400)
                   ELSE To(r, IF req[r].op = "delete" \/ req[r].key = NoKey THEN "write" ELSE "check")
           Fine(q) == /\ SameAsked(q, req[r])
                      /\ \/ q.pc = "done" /\ q.at = now /\ q.status # 409 /\ q.status # 201
                         \/ q.pc = "write"
                         \/ q.pc = "check" /\ req[r].key # NoKey
<1>1. ASSUME NEW status \in {200, 400, 404, 412, 504} PROVE Fine(Answer(req[r], status))
  <2>1. status # 409 /\ status # 201
    BY <1>1
  <2> QED BY <1>0, <2>1, AnswerFields
<1>2. Fine(next)
  <2>1. ASSUME NEW pc, pc = "write" \/ (pc = "check" /\ req[r].key # NoKey) PROVE Fine(To(r, pc))
    <3>1. To(r, pc).pc = pc /\ SameAsked(To(r, pc), req[r])
      BY SMTT(30), <1>0, ToFields
    <3> QED BY ZenonT(40), <2>1, <3>1
  <2>2. Fine(Answer(req[r], 400))
    BY <1>1
  <2> HIDE DEF Fine
  <2> QED BY Zenon, <2>1, <2>2
<1>3. ASSUME NEW b PROVE Fine([next EXCEPT !.is_new = TRUE, !.blind = b])
  <2>1. DOMAIN next = DOMAIN req[r]
    <3>1. ASSUME NEW pc PROVE DOMAIN To(r, pc) = DOMAIN req[r]
      BY SMTT(30), <1>0, ToFields
    <3>2. DOMAIN Answer(req[r], 400) = DOMAIN req[r]
      BY <1>0, AnswerFields
    <3> QED BY Zenon, <3>1, <3>2
  <2>2. next.pc = [next EXCEPT !.is_new = TRUE, !.blind = b].pc /\ next.at = [next EXCEPT !.is_new = TRUE, !.blind = b].at
        /\ next.status = [next EXCEPT !.is_new = TRUE, !.blind = b].status
        /\ SameAsked([next EXCEPT !.is_new = TRUE, !.blind = b], next)
    <3> HIDE DEF next
    <3>1. {"pc", "at", "status", "op", "key", "payload", "before"} \subseteq DOMAIN next
      BY <1>0, <2>1 DEF RequestType
    <3> QED BY <3>1 DEF SameAsked
  <2> HIDE DEF next
  <2> QED BY <1>2, <2>2 DEF SameAsked
<1>4. PICK ok \in BOOLEAN : SetReq(r, AfterRead(r, ok))
  BY Zenon DEF ReadObject
<1>5. Fine(AfterRead(r, ok))
  <2> HIDE DEF Fine
  <2>1. /\ Fine(Answer(req[r], 504)) /\ Fine(Answer(req[r], 404)) /\ Fine(Answer(req[r], 200))
        /\ Fine(Answer(req[r], 412))
    BY <1>1
  <2> QED BY ZenonT(40), <1>2, <1>3, <2>1 DEF AfterRead
<1>6. Fine(req'[r]) /\ \A s \in Request \ {r} : SameState(req'[s], req[s])
  <2> HIDE DEF Fine
  <2> QED BY Zenon, <1>4, <1>5, OthersStay
<1> QED BY ZenonT(40), <1>0, <1>6, PlainStep

\* What is dropped from a cache is not fresh.
LEMMA PrunedFresh ==
  ASSUME NEW c, NEW k
  PROVE  /\ k \in DOMAIN Pruned(c) <=> k \in DOMAIN c /\ Fresh(c[k])
         /\ k \in DOMAIN Pruned(c) => Pruned(c)[k] = c[k]
BY Zenon DEF Pruned, Fresh

\* So is the look-up in the idempotency cache of the handler.
LEMMA LookUpRepeat ==
  ASSUME IInv, RepeatInv, NEW r \in Request, LookUp(r), UNCHANGED now
  PROVE  RepeatStep(r)
<1> DEFINE k == req[r].key
           hit == [Answer(req[r], Pruned(cache)[k].status) EXCEPT
                     !.id = Pruned(cache)[k].id, !.replayed = TRUE]
<1>0. /\ req[r] \in RequestType /\ req[r].pc = "lookup" /\ cache' = Pruned(cache) /\ ccache' = ccache
      /\ k # NoKey
  BY Zenon DEF IInv, LookUp, RepeatInv
<1>1. ~StoresAnswer(r) /\ req[r].pc \notin {"new", "done", "cancelled", "store", "parse", "read", "check"}
  BY SMTT(30), <1>0 DEF StoresAnswer
<1>2. /\ k \in DOMAIN Pruned(cache) <=> k \in DOMAIN cache /\ Fresh(cache[k])
      /\ k \in DOMAIN Pruned(cache) => Pruned(cache)[k] = cache[k]
  BY PrunedFresh
<1>3. CachesStep(r)
  BY Zenon, <1>0, <1>1, PrunedFresh DEF CachesStep
<1>4. /\ hit.pc = "done" /\ hit.status = Pruned(cache)[k].status /\ hit.at = now
      /\ SameAsked(hit, req[r]) /\ hit.id = Pruned(cache)[k].id
  BY <1>0 DEF Answer, SameAsked, RequestType
<1>5. hit.replayed
  <2>1. "replayed" \in DOMAIN Answer(req[r], Pruned(cache)[k].status)
    BY SMTT(30), <1>0 DEF Answer, RequestType
  <2> QED BY Zenon, <2>1
<1>6. /\ Answer(req[r], 409).pc = "done" /\ Answer(req[r], 409).status = 409
      /\ Answer(req[r], 409).at = now /\ SameAsked(Answer(req[r], 409), req[r])
      /\ To(r, "parse").pc = "parse" /\ SameAsked(To(r, "parse"), req[r])
  BY <1>0, AnswerFields, ToFields
<1> HIDE DEF hit
<1>7. CASE SetReq(r, To(r, "parse")) /\ k \notin DOMAIN Pruned(cache)
  <2>1. req'[r] = To(r, "parse") /\ \A s \in Request \ {r} : SameState(req'[s], req[s])
    BY Zenon, <1>7, OthersStay
  <2>2. SameAsked(req'[r], req[r]) /\ req'[r].pc = "parse"
    BY SMTT(30), <1>6, <2>1
  <2>3. req'[r].pc \notin {"done", "lookup", "check", "store", "new"}
    BY <2>2
  <2>4. Moves(r)
    BY Zenon, <1>0, <1>1, <1>2, <1>7, <2>1, <2>2, <2>3 DEF Moves
  <2>5. Answered(r)
    BY Zenon, <1>1, <2>3 DEF Answered, StoresAnswer
  <2> QED BY Zenon, <1>3, <2>4, <2>5 DEF RepeatStep
<1>8. ASSUME NEW q, SetReq(r, q), k \in DOMAIN Pruned(cache),
             q.pc = "done", q.at = now, SameAsked(q, req[r]),
             q.status = 201 => q.replayed /\ q.id = cache[k].id /\ req[r].payload = cache[k].payload,
             q.status = 409 => cache[k].payload # req[r].payload \/ cache[k].status = 409
      PROVE  RepeatStep(r)
  <2>1. req'[r] = q /\ \A s \in Request \ {r} : SameState(req'[s], req[s])
    BY Zenon, <1>8, OthersStay
  <2>2. q.pc \notin {"lookup", "check", "store", "new", "parse", "read"}
    BY <1>8
  <2>3. Moves(r)
    BY Zenon, <1>0, <1>1, <1>8, <2>1, <2>2 DEF Moves
  <2>4. Answered(r)
    BY ZenonT(40), <1>0, <1>1, <1>2, <1>8, <2>1 DEF Answered
  <2> QED BY Zenon, <1>3, <2>3, <2>4 DEF RepeatStep
<1>9. CASE SetReq(r, Answer(req[r], 409)) /\ k \in DOMAIN Pruned(cache) /\ cache[k].payload # req[r].payload
  <2>1. PICK q : q = Answer(req[r], 409)
    BY ZenonT(40)
  <2>2. SetReq(r, q) /\ q.pc = "done" /\ q.at = now /\ SameAsked(q, req[r]) /\ q.status # 201
    BY <1>6, <1>9, <2>1
  <2> QED BY Zenon, <1>8, <1>9, <2>2
<1>10. CASE SetReq(r, hit) /\ k \in DOMAIN Pruned(cache) /\ cache[k].payload = req[r].payload
  <2>1. PICK q : q = hit
    BY Zenon
  <2>2. /\ SetReq(r, q) /\ q.pc = "done" /\ q.at = now /\ SameAsked(q, req[r]) /\ q.replayed
        /\ q.id = cache[k].id /\ q.status = cache[k].status
    BY Zenon, <1>2, <1>4, <1>5, <1>10, <2>1
  <2> QED BY ZenonT(40), <1>8, <1>10, <2>2
<1> QED BY Zenon, <1>2, <1>7, <1>9, <1>10 DEF LookUp, hit

\* So is the storing of an answer in that cache.
LEMMA StoreRepeat ==
  ASSUME IInv, RepeatInv, NEW r \in Request, StoreAnswer(r), UNCHANGED now
  PROVE  RepeatStep(r)
<1> DEFINE k == req[r].key
           q == Answer(req[r], SuccessOf(req[r]))
           entry == [payload |-> req[r].payload, id |-> req[r].id, status |-> SuccessOf(req[r]), at |-> now]
<1>0. /\ req[r] \in RequestType /\ req[r].pc = "store" /\ cache' = Stored(cache, k, entry)
      /\ ccache' = ccache /\ SetReq(r, q)
  BY Zenon DEF IInv, StoreAnswer
<1>1. req'[r] = q /\ \A s \in Request \ {r} : SameState(req'[s], req[s])
  BY Zenon, <1>0, OthersStay
<1>2. /\ q.pc = "done" /\ q.status = SuccessOf(req[r]) /\ q.at = now /\ SameAsked(q, req[r])
      /\ q.id = req[r].id
  BY <1>0 DEF Answer, SameAsked, RequestType
<1>3. SuccessOf(req[r]) # 409
  BY SMTT(30) DEF SuccessOf
<1> HIDE DEF q
<1>4. StoresAnswer(r) /\ req[r].pc \notin {"new", "lookup", "done", "cancelled"}
      /\ q.pc \notin {"new", "lookup", "check", "store", "parse", "read"}
  BY <1>0, <1>1, <1>2 DEF StoresAnswer
<1>5. Moves(r)
  BY Zenon, <1>1, <1>2, <1>4 DEF Moves
<1>6. Answered(r)
  BY ZenonT(40), <1>1, <1>2, <1>3, <1>4 DEF Answered
<1>7. /\ DOMAIN cache' = DOMAIN cache \cup {k} /\ cache'[k] = entry
      /\ \A j \in DOMAIN cache' \ {k} : cache'[j] = cache[j]
  <2> HIDE DEF k, entry
  <2> QED BY Zenon, <1>0 DEF Stored
<1>8. CachesStep(r)
  <2>1. entry = [payload |-> req[r].payload, id |-> req'[r].id, status |-> req'[r].status, at |-> now]
    BY ZenonT(40), <1>1, <1>2
  <2>2. req[r].pc # "write"
    BY <1>0
  <2> HIDE DEF entry
  <2> QED BY Zenon, <1>0, <1>4, <1>7, <2>1, <2>2 DEF CachesStep
<1> QED BY Zenon, <1>5, <1>6, <1>8 DEF RepeatStep

\* So is the look-up in the coordinator's cache.
LEMMA CheckRepeat ==
  ASSUME IInv, RepeatInv, NEW r \in Request, CheckKey(r), UNCHANGED now
  PROVE  RepeatStep(r)
<1> DEFINE k == req[r].key
           again == [To(r, "store") EXCEPT !.replayed = TRUE]
<1>0. /\ req[r] \in RequestType /\ req[r].pc = "check" /\ ccache' = Pruned(ccache) /\ cache' = cache
      /\ k # NoKey
  BY Zenon DEF IInv, CheckKey, RepeatInv
<1>1. ~StoresAnswer(r) /\ req[r].pc \notin {"new", "lookup", "store", "done", "cancelled"}
  BY <1>0 DEF StoresAnswer
<1>2. CachesStep(r)
  BY Zenon, <1>0, <1>1, PrunedFresh DEF CachesStep
<1>3. /\ again.pc = "store" /\ SameAsked(again, req[r])
      /\ To(r, "write").pc = "write" /\ SameAsked(To(r, "write"), req[r])
  BY SMTT(30), <1>0 DEF To, SameAsked, RequestType
<1>4. /\ Answer(req[r], 409).pc = "done" /\ Answer(req[r], 409).status = 409
      /\ Answer(req[r], 409).at = now /\ SameAsked(Answer(req[r], 409), req[r])
  BY <1>0, AnswerFields, SMTT(30)
<1> HIDE DEF again
<1>5. ASSUME NEW q, SetReq(r, q), SameAsked(q, req[r]),
             \/ q.pc \in {"store", "write"}
             \/ /\ q.pc = "done" /\ q.at = now /\ q.status = 409
                /\ k \in DOMAIN ccache /\ Fresh(ccache[k])
      PROVE  RepeatStep(r)
  <2>1. req'[r] = q /\ \A s \in Request \ {r} : SameState(req'[s], req[s])
    BY ZenonT(40), <1>5, OthersStay
  <2>2. q.pc \notin {"lookup", "check", "new", "parse", "read"}
    BY <1>5
  <2>3. q.key # NoKey
    BY Zenon, <1>0, <1>5 DEF SameAsked
  <2>4. Moves(r)
    BY ZenonT(40), <1>1, <1>5, <2>1, <2>2, <2>3 DEF Moves
  <2>5. q.pc = "done" => q.at = now /\ q.status # 201 /\ k \in DOMAIN ccache /\ Fresh(ccache[k])
    BY <1>5
  <2>6. Answered(r)
    BY ZenonT(40), <1>0, <1>1, <2>1, <2>5 DEF Answered
  <2> QED BY Zenon, <1>2, <2>4, <2>6 DEF RepeatStep
<1>6. CASE SetReq(r, To(r, "write"))
  <2>1. PICK q : q = To(r, "write")
    BY Zenon
  <2> QED BY <1>3, <1>5, <1>6, <2>1
<1>7. CASE SetReq(r, again)
  <2>1. PICK q : q = again
    BY Zenon
  <2> QED BY SMTT(30), <1>3, <1>5, <1>7, <2>1
<1>8. CASE SetReq(r, Answer(req[r], 409)) /\ k \in DOMAIN Pruned(ccache)
  <2>1. PICK q : q = Answer(req[r], 409)
    BY Zenon
  <2>2. k \in DOMAIN ccache /\ Fresh(ccache[k])
    BY <1>8, PrunedFresh
  <2> QED BY SMTT(30), <1>4, <1>5, <1>8, <2>1, <2>2
<1> QED BY Zenon, <1>6, <1>7, <1>8 DEF CheckKey, again

\* The three outcomes of a write; other requests only learn that they were overtaken.
LEMMA WriteRepeat ==
  ASSUME IInv, RepeatInv, NEW r \in Request, WriteObject(r), UNCHANGED now
  PROVE  RepeatStep(r)
<1> DEFINE k == req[r].key
           done == [req[r] EXCEPT !.replaced = Current(objects[req[r].id])]
<1>0. req[r] \in RequestType /\ req[r].pc = "write" /\ cache' = cache
  BY Zenon DEF IInv, WriteObject
<1>1. ASSUME NEW q, req' = [Overtaken(r) EXCEPT ![r] = q]
      PROVE  req'[r] = q /\ \A s \in Request \ {r} : SameState(req'[s], req[s])
  <2>1. req'[r] = q /\ \A s \in Request \ {r} : req'[s] = Overtaken(r)[s]
    BY Zenon, <1>1 DEF Overtaken
  <2>2. ASSUME NEW s \in Request PROVE SameState(Overtaken(r)[s], req[s])
    <3>1. req[s] \in RequestType
      BY Zenon DEF IInv
    <3>2. PICK b : Overtaken(r)[s] = [req[s] EXCEPT !.blind = b]
      BY Zenon DEF Overtaken
    <3>3. ASSUME NEW p \in RequestType PROVE SameState([p EXCEPT !.blind = b], p)
      BY SMTT(30) DEF RequestType, SameState, SameAsked
    <3> QED BY Zenon, <3>1, <3>2, <3>3
  <2> QED BY Zenon, <2>1, <2>2
<1>2. /\ Answer(req[r], 504).pc = "done" /\ Answer(req[r], 504).status = 504
      /\ Answer(req[r], 504).at = now /\ SameAsked(Answer(req[r], 504), req[r])
  BY <1>0, AnswerFields
<1>3. ASSUME req' = [Overtaken(r) EXCEPT ![r] = Answer(req[r], 504)] \/ SetReq(r, Answer(req[r], 504)),
             UNCHANGED ccache
      PROVE  RepeatStep(r)
  <2>1. req'[r] = Answer(req[r], 504) /\ \A s \in Request \ {r} : SameState(req'[s], req[s])
    BY ZenonT(40), <1>1, <1>3, OthersStay
  <2>2. /\ req'[r].pc = "done" /\ req'[r].at = now /\ SameAsked(req'[r], req[r])
        /\ req'[r].status # 409 /\ req'[r].status # 201
    BY <1>2, <2>1
  <2> QED BY ZenonT(40), <1>0, <1>3, <2>1, <2>2, PlainStep
<1>4. /\ DOMAIN done = DOMAIN req[r] /\ SameAsked(done, req[r])
      /\ Answer(done, SuccessOf(req[r])).pc = "done"
      /\ Answer(done, SuccessOf(req[r])).status = SuccessOf(req[r])
      /\ Answer(done, SuccessOf(req[r])).at = now
      /\ SameAsked(Answer(done, SuccessOf(req[r])), req[r])
      /\ [done EXCEPT !.pc = "store"].pc = "store"
      /\ SameAsked([done EXCEPT !.pc = "store"], req[r])
  BY <1>0 DEF Answer, SameAsked, RequestType
<1>5. SuccessOf(req[r]) # 409
  BY DEF SuccessOf
<1> HIDE DEF done
<1>6. ASSUME k = NoKey, UNCHANGED ccache,
             req' = [Overtaken(r) EXCEPT ![r] = Answer(done, SuccessOf(req[r]))]
      PROVE  RepeatStep(r)
  <2>1. /\ req'[r] = Answer(done, SuccessOf(req[r]))
        /\ \A s \in Request \ {r} : SameState(req'[s], req[s])
    BY Zenon, <1>1, <1>6
  <2>2. /\ req'[r].pc = "done" /\ req'[r].at = now /\ SameAsked(req'[r], req[r])
        /\ req'[r].status # 409
    BY ZenonT(40), <1>4, <1>5, <2>1
  <2> QED BY Zenon, <1>0, <1>6, <2>1, <2>2, PlainStep
<1>7. ASSUME k # NoKey, req' = [Overtaken(r) EXCEPT ![r] = [done EXCEPT !.pc = "store"]],
             ccache' = Stored(Pruned(ccache), k, [id |-> req[r].id, payload |-> req[r].payload, at |-> now])
      PROVE  RepeatStep(r)
  <2>1. /\ req'[r] = [done EXCEPT !.pc = "store"]
        /\ \A s \in Request \ {r} : SameState(req'[s], req[s])
    BY Zenon, <1>1, <1>7
  <2>2. req'[r].pc = "store" /\ SameAsked(req'[r], req[r])
    BY Zenon, <1>4, <2>1
  <2>3. /\ req[r].pc \notin {"new", "lookup", "store", "done", "cancelled"}
        /\ req'[r].pc \notin {"new", "parse", "read", "check", "done"}
    BY <1>0, <2>2
  <2>4. req'[r].key # NoKey
    BY Zenon, <1>7, <2>2 DEF SameAsked
  <2>5. Moves(r)
    BY Zenon, <2>1, <2>2, <2>3, <2>4 DEF Moves
  <2>6. Answered(r) /\ ~StoresAnswer(r)
    BY Zenon, <2>3 DEF Answered, StoresAnswer
  <2>7. ASSUME NEW j \in DOMAIN ccache'
        PROVE  \/ j \in DOMAIN ccache /\ ccache'[j] = ccache[j]
               \/ j = k /\ ccache'[j].at = now
    <3> DEFINE entry == [id |-> req[r].id, payload |-> req[r].payload, at |-> now]
    <3>1. entry.at = now
      OBVIOUS
    <3> HIDE DEF entry, k
    <3>2. j \in DOMAIN Pruned(ccache) \cup {k} /\ ccache'[j] = IF j = k THEN entry ELSE Pruned(ccache)[j]
      BY Zenon, <1>7, <2>7 DEF Stored, entry
    <3> QED BY Zenon, <3>1, <3>2, PrunedFresh
  <2>8. CachesStep(r)
    BY Zenon, <1>0, <2>2, <2>6, <2>7 DEF CachesStep
  <2> QED BY Zenon, <2>5, <2>6, <2>8 DEF RepeatStep
<1> QED BY ZenonT(40), <1>3, <1>6, <1>7 DEF WriteObject, done

\* A request that begins is refused, answered, or goes on with or without a key.
LEMMA BeginRepeat ==
  ASSUME IInv, RepeatInv, NEW r \in Request, NEW q \in Asked, NEW token, NEW flaw, NEW tenant,
         Begin(r, q, token, flaw, tenant), UNCHANGED now
  PROVE  RepeatStep(r)
<1> DEFINE refusal == Refusal(token, flaw, q.op, tenant)
           next == IF q.op \in {"get", "delete"} THEN "read"
                   ELSE IF q.key # NoKey THEN "lookup" ELSE "parse"
           answered(status) == [Answer(q, status) EXCEPT !.before = Ended]
           begun == [q EXCEPT !.before = Ended, !.pc = next]
<1>0. q \in RequestType /\ req[r].pc = "new" /\ UNCHANGED <<cache, ccache, now>>
  BY Zenon DEF Asked, Begin
<1>1. req[r].pc \notin {"lookup", "store", "done", "cancelled"} /\ ~StoresAnswer(r)
  BY <1>0 DEF StoresAnswer
<1>2. ASSUME NEW p, SetReq(r, p), p.before = Ended,
             \/ p.pc = "done" /\ p.at = now /\ p.status # 201 /\ p.status # 409
             \/ p.pc = "lookup" /\ p.key # NoKey
             \/ p.pc \in {"read", "parse"} /\ p.key = NoKey
      PROVE  RepeatStep(r)
  <2>1. req'[r] = p /\ \A s \in Request \ {r} : SameState(req'[s], req[s])
    BY Zenon, <1>2, OthersStay
  <2>2. /\ p.pc # "new" /\ (p.pc \in {"lookup", "done"} \/ p.key = NoKey)
        /\ p.pc \in {"lookup", "check", "store"} => p.key # NoKey
        /\ p.pc \in {"parse", "read", "check"} => p.key = NoKey
        /\ p.pc = "done" => p.at = now /\ p.status # 201 /\ p.status # 409
    BY <1>2
  <2>3. Moves(r)
    BY Zenon, <1>0, <1>1, <1>2, <2>1, <2>2 DEF Moves
  <2>4. Answered(r)
    BY Zenon, <1>1, <2>1, <2>2 DEF Answered
  <2>5. CachesStep(r)
    BY Zenon, <1>0, <1>1 DEF CachesStep
  <2> QED BY Zenon, <1>0, <2>3, <2>4, <2>5 DEF RepeatStep
<1>3. ASSUME NEW status \in {200, 400, 401, 403}, SetReq(r, answered(status)) PROVE RepeatStep(r)
  <2>1. PICK p : p = answered(status)
    BY Zenon
  <2>2. p.before = Ended /\ p.pc = "done" /\ p.at = now /\ p.status = status
    BY <1>0, <2>1 DEF Answer, RequestType
  <2>3. p.status # 201 /\ p.status # 409
    BY <1>3, <2>2
  <2> QED BY ZenonT(40), <1>2, <1>3, <2>1, <2>2, <2>3
<1>4. ASSUME SetReq(r, begun) PROVE RepeatStep(r)
  <2>1. PICK p : p = begun
    BY Zenon
  <2>2. p.before = Ended /\ p.pc = next /\ p.key = q.key
    BY <1>0, <2>1 DEF RequestType
  <2>3. q.key # NoKey => q.op \in {"create", "upsert"}
    BY Zenon DEF Asked
  <2>4. (next = "lookup" /\ q.key # NoKey) \/ (next \in {"read", "parse"} /\ q.key = NoKey)
    BY <2>3
  <2> HIDE DEF next
  <2>5. (p.pc = "lookup" /\ p.key # NoKey) \/ (p.pc \in {"read", "parse"} /\ p.key = NoKey)
    BY Zenon, <2>2, <2>4
  <2> QED BY Zenon, <1>2, <1>4, <2>1, <2>2, <2>5
<1>5. refusal # 0 => refusal \in {200, 400, 401, 403}
  BY DEF Refusal
<1>6. 200 \in {200, 400, 401, 403}
  OBVIOUS
<1>7. \/ refusal # 0 /\ SetReq(r, answered(refusal))
      \/ SetReq(r, answered(200))
      \/ SetReq(r, begun)
  BY Zenon DEF Begin
<1> HIDE DEF refusal, answered, begun
<1>8. CASE refusal # 0 /\ SetReq(r, answered(refusal))
  <2>1. PICK code : code = refusal
    BY Zenon
  <2>2. code \in {200, 400, 401, 403}
    BY Zenon, <1>5, <1>8, <2>1
  <2>3. SetReq(r, answered(code))
    BY Zenon, <1>8, <2>1
  <2> QED BY <1>3, <2>2, <2>3
<1>9. CASE SetReq(r, answered(200))
  BY ZenonT(40), <1>3, <1>6, <1>9
<1> QED BY Zenon, <1>4, <1>7, <1>8, <1>9

\* Time only makes entries older.
LEMMA ClockRepeat ==
  ASSUME IInv, RepeatInv, UNCHANGED apiVars, now' \in Nat, now <= now'
  PROVE  RepeatInv'
<1>1. now \in Nat /\ \A s \in Request : req[s].at \in Nat
  <2>1. now \in Nat /\ \A s \in Request : req[s] \in RequestType
    BY Zenon DEF IInv, Stores
  <2> QED BY <2>1 DEF RequestType
<1>2. UNCHANGED <<req, cache, ccache>> /\ Ended' = Ended
  BY Zenon DEF apiVars, Ended
<1>3. ASSUME NEW k \in DOMAIN cache PROVE CacheFilled(k)'
  <2>1. CacheFilled(k)
    BY Zenon DEF RepeatInv
  <2>2. cache[k].at <= now'
    BY SMTT(30), <1>1, <2>1 DEF CacheFilled
  <2> QED BY ZenonT(40), <1>2, <2>1, <2>2 DEF CacheFilled
<1>4. ASSUME NEW k \in DOMAIN ccache
      PROVE  ccache[k].at \in Nat /\ ccache[k].at <= now' /\ (Fresh(ccache[k])' => Fresh(ccache[k]))
  <2>1. ccache[k].at \in Nat /\ ccache[k].at <= now
    BY Zenon DEF RepeatInv, WrittenFirst
  <2>2. ccache'[k].at = ccache[k].at
    BY Zenon, <1>2
  <2> QED BY SMTT(30), <1>1, <2>1, <2>2, ApiAssumption DEF Fresh
<1>5. ASSUME NEW k \in DOMAIN ccache PROVE WrittenFirst(k)'
  <2>1. WrittenFirst(k)
    BY Zenon DEF RepeatInv
  <2>2. ccache[k].at \in Nat /\ ccache[k].at <= now' /\ (Fresh(ccache[k])' => Fresh(ccache[k]))
    BY Zenon, <1>4
  <2> QED BY Zenon, <1>2, <2>1, <2>2 DEF WrittenFirst, HasWritten
<1>6. ASSUME NEW q \in Request PROVE FoundNothing(q)'
  <2>1. FoundNothing(q)
    BY Zenon DEF RepeatInv
  <2> SUFFICES ASSUME req[q].pc \in {"parse", "read", "check"}, req[q].key # NoKey,
                      req[q].key \in DOMAIN ccache, Fresh(ccache[req[q].key])'
               PROVE  \E r \in Request : /\ SameKey(q, r) /\ HasWritten(r)
                                         /\ req[r].pc = "cancelled" \/ r \notin req[q].before
    BY Zenon, <1>2 DEF FoundNothing, SameKey, HasWritten
  <2>2. PICK k : k = req[q].key
    BY Zenon
  <2>3. Fresh(ccache[k])'
    BY Zenon, <1>2, <2>2 DEF Fresh
  <2>4. Fresh(ccache[k])
    BY Zenon, <1>4, <2>2, <2>3
  <2> QED BY Zenon, <2>1, <2>2, <2>4 DEF FoundNothing
<1>7. ASSUME NEW q \in Request, Disputed(q) PROVE Disputed(q)'
  BY Zenon, <1>2, <1>7 DEF Disputed, SameKey, Apart
<1>8. ASSUME NEW r \in Request, Created(r)' PROVE Remembered(r)'
  <2>1. Created(r)
    BY Zenon, <1>2, <1>8 DEF Created, SameKey, Apart
  <2>2. Remembered(r)
    BY Zenon, <2>1 DEF RepeatInv
  <2>3. now' < req[r].at + KeyRetention => now < req[r].at + KeyRetention
    BY <1>1, ApiAssumption
  <2> QED BY ZenonT(40), <1>2, <2>2, <2>3 DEF Remembered, SameKey
<1>9. \A r \in Request :
        /\ req'[r].pc = "new" => req'[r].key = NoKey /\ req'[r].before = {}
        /\ req'[r].before \subseteq Ended'
        /\ req'[r].pc \in {"lookup", "check", "store"} => req'[r].key # NoKey
  BY Zenon, <1>2 DEF RepeatInv
<1>10. \A q \in Request : req'[q].pc = "done" /\ req'[q].status = 409 => Disputed(q)'
  BY Zenon, <1>2, <1>7 DEF RepeatInv
<1> QED BY Zenon, <1>2, <1>3, <1>5, <1>6, <1>8, <1>9, <1>10 DEF RepeatInv

\* Before the first request no create can be repeated.
LEMMA RepeatStarts == ApiInit => RepeatInv
<1> SUFFICES ASSUME ApiInit PROVE RepeatInv
  OBVIOUS
<1>1. /\ NewRequest.pc = "new" /\ NewRequest.key = NoKey /\ NewRequest.before = {}
  BY DEF NewRequest
<1>2. \A r \in Request : req[r].pc = "new" /\ req[r].key = NoKey /\ req[r].before = {}
  BY Zenon, <1>1 DEF ApiInit
<1>3. DOMAIN cache = {} /\ DOMAIN ccache = {}
  BY SMTT(30) DEF ApiInit
<1>4. \A r \in Request : req[r].pc \notin {"lookup", "check", "store", "parse", "read", "done"}
  BY <1>2
<1> QED BY ZenonT(40), <1>2, <1>3, <1>4 DEF RepeatInv, FoundNothing, Created

\* Every step of the API and of time keeps both invariants.
LEMMA RepeatKeeps == IInv /\ RepeatInv /\ [ApiStep \/ ClockStep]_allVars => IInv' /\ RepeatInv'
<1> SUFFICES ASSUME IInv, RepeatInv, [ApiStep \/ ClockStep]_allVars PROVE IInv' /\ RepeatInv'
  OBVIOUS
<1>0. now \in Nat /\ now <= now
  <2>1. now \in Nat
    BY Zenon DEF IInv, Stores
  <2> QED BY <2>1
<1>1. IInv'
  BY Zenon, StepKeeps DEF ClockStep, OtherStep
<1>2. CASE ApiStep
  <2>1. UNCHANGED now
    BY Zenon, <1>2 DEF ApiStep, authVars
  <2>2. PICK r \in Request :
          \/ RequestStep(r)
          \/ \E q \in Asked, s \in sessions, flaw \in {"none", "path", "query"} :
               \E t \in IF q.op \in {"nodes", "ring"} THEN {NoTenant} ELSE Tenant :
                 Begin(r, q, s.access, flaw, t)
    BY <1>2, Zenon DEF ApiStep, ApiNext
  <2>3. CASE RequestStep(r)
    <3>1. RepeatStep(r)
      BY Zenon, <2>1, <2>3, LookUpRepeat, ParseRepeat, ReadRepeat, CheckRepeat, WriteRepeat,
         StoreRepeat, CancelRepeat DEF RequestStep
    <3> QED BY Zenon, <1>1, <3>1, RepeatStepKeeps
  <2>4. ASSUME NEW q \in Asked, NEW s \in sessions, NEW flaw \in {"none", "path", "query"},
               NEW t, Begin(r, q, s.access, flaw, t)
        PROVE  RepeatInv'
    BY Zenon, <2>1, <2>4, BeginRepeat, RepeatStepKeeps
  <2> QED
    BY Zenon, <1>1, <2>2, <2>3, <2>4
<1>3. CASE ClockStep
  BY Zenon, <1>1, <1>3, ClockRepeat DEF ClockStep
<1>4. CASE UNCHANGED allVars
  <2>1. UNCHANGED apiVars /\ UNCHANGED now
    BY Zenon, <1>4 DEF allVars, authVars
  <2> QED BY Zenon, <1>0, <1>1, <2>1, ClockRepeat
<1> QED BY Zenon, <1>2, <1>3, <1>4

(* A repeated create is answered with the object of the first, and 409 only answers
   another payload, unless requests with the key overlapped or were cancelled: for
   any requests, payloads, keys and retention, however the clock moves on.   *)
THEOREM RepeatsAreAnswered == RepeatSpec => []RepeatsAgree
<1>1. RepeatInv => RepeatsAgree
  <2> SUFFICES ASSUME RepeatInv, NEW q \in Request, req[q].pc = "done",
                      \A r \in Request : SameKey(q, r) => Apart(q, r) /\ req[r].pc # "cancelled"
               PROVE  /\ \A r \in Request :
                           /\ SameKey(q, r) /\ r \in req[q].before /\ req[r].op = "create"
                           /\ req[r].status = 201 /\ ~req[r].replayed /\ req[q].status = 201
                           /\ req[q].at < req[r].at + KeyRetention
                           /\ \A s \in Request : SameKey(r, s) => Apart(r, s)
                           => req[q].id = req[r].id /\ req[q].payload = req[r].payload
                      /\ req[q].status = 409 =>
                           \E r \in Request : SameKey(q, r) /\ req[r].payload # req[q].payload
    BY ZenonT(40) DEF RepeatsAgree
  <2>1. ASSUME NEW r \in Request, SameKey(q, r), r \in req[q].before, req[r].status = 201,
               ~req[r].replayed, req[q].status = 201, req[q].at < req[r].at + KeyRetention,
               \A s \in Request : SameKey(r, s) => Apart(r, s)
        PROVE  req[q].id = req[r].id /\ req[q].payload = req[r].payload
    <3>1. req[r].pc = "done"
      BY Zenon, <2>1 DEF RepeatInv, Ended
    <3>2. SameKey(r, q) /\ req[r].key # NoKey
      BY Zenon, <2>1 DEF SameKey
    <3>3. Remembered(r)
      BY Zenon, <2>1, <3>1, <3>2 DEF RepeatInv, Created
    <3> QED BY Zenon, <2>1, <3>2, <3>3 DEF Remembered
  <2>2. ASSUME req[q].status = 409
        PROVE  \E r \in Request : SameKey(q, r) /\ req[r].payload # req[q].payload
    <3>1. Disputed(q)
      BY Zenon, <2>2 DEF RepeatInv
    <3> QED BY Zenon, <3>1 DEF Disputed
  <2> QED BY Zenon, <2>1, <2>2
<1> QED
  BY <1>1, ApiStarts, RepeatStarts, RepeatKeeps, PTL DEF RepeatSpec

-----------------------------------------------------------------------------
(* Accounts.                                                               *)

\* The service with any number of users, callers, sessions and restarts.
AuthNext == UsersNext(0 .. MaxUsers) \/ \E k \in Caller : TokensNext(k)
AuthSpec == AuthInit /\ [][AuthNext]_authVars

SameTenant(u, v) == u.tenant = v.tenant /\ "ServerAdmin" \notin u.roles \cup v.roles

\* A call of create_user has compared its user with those that were stored when it
\* began and are still there, as far as it has come.
Compared(c) ==
  /\ DOMAIN c = {"pc", "id", "user", "found", "before"}
  /\ c.before \subseteq DOMAIN users
  /\ c.pc = "roles" => \A i \in c.before : users[i].tenant = c.user.tenant => i \in c.found
  /\ c.pc \in {"name", "persist"} => \A i \in c.before : ~SameTenant(users[i], c.user)
  /\ c.pc = "persist" => \A i \in c.before : users[i].username # c.user.username

AccountInv ==
  /\ DOMAIN before = DOMAIN users
  /\ DOMAIN calls = Caller
  /\ \A k \in Caller : Compared(calls[k])
  /\ AccountsUnique

\* persist_user_and_roles stores one user, new or in the place of another, and changes
\* no other.
LEMMA Persisted ==
  ASSUME DOMAIN before = DOMAIN users, NEW id, NEW account, NEW stored, Persist(id, account, stored)
  PROVE  /\ DOMAIN users' = DOMAIN users \cup {id} /\ DOMAIN before' = DOMAIN users'
         /\ users'[id] = account /\ before'[id] = stored \ {id}
         /\ \A i \in DOMAIN users \ {id} : users'[i] = users[i] /\ before'[i] = before[i] \ {id}
<1>1. /\ users' = [i \in DOMAIN users \cup {id} |-> IF i = id THEN account ELSE users[i]]
      /\ before' = [i \in DOMAIN users \cup {id} |-> (IF i = id THEN stored ELSE before[i]) \ {id}]
  BY Zenon DEF Persist
<1> QED BY <1>1

\* The user that is stored differs from all that its call has seen.
LEMMA UserStored ==
  ASSUME AccountInv, NEW id, NEW account, NEW stored, Persist(id, account, stored),
         stored \subseteq DOMAIN users,
         \A i \in stored : ~SameTenant(users[i], account) /\ users[i].username # account.username
  PROVE  /\ DOMAIN users' = DOMAIN users \cup {id} /\ DOMAIN before' = DOMAIN users'
         /\ \A i \in DOMAIN users \ {id} : users'[i] = users[i]
         /\ AccountsUnique'
<1>1. /\ DOMAIN users' = DOMAIN users \cup {id} /\ DOMAIN before' = DOMAIN users'
      /\ users'[id] = account /\ before'[id] = stored \ {id}
      /\ \A i \in DOMAIN users \ {id} : users'[i] = users[i] /\ before'[i] = before[i] \ {id}
  BY Zenon, Persisted DEF AccountInv
<1>2. ASSUME NEW i \in DOMAIN users \ {id}
      PROVE  /\ id \notin before'[i]
             /\ i \in before'[id] =>
                  ~SameTenant(users'[i], users'[id]) /\ users'[i].username # users'[id].username
  BY Zenon, <1>1
<1>3. AccountsUnique'
  <2> SUFFICES ASSUME NEW i \in DOMAIN users', NEW j \in DOMAIN users', i # j,
                      \/ users'[i].username = users'[j].username
                      \/ SameTenant(users'[i], users'[j])
               PROVE  i \notin before'[j] /\ j \notin before'[i]
    BY Zenon DEF AccountsUnique, SameTenant
  <2>1. CASE i # id /\ j # id
    <3>1. i \in DOMAIN users \ {id} /\ j \in DOMAIN users \ {id}
      BY Zenon, <1>1, <2>1
    <3>2. users[i].username = users[j].username \/ SameTenant(users[i], users[j])
      BY Zenon, <1>1, <3>1
    <3>3. i \notin before[j] /\ j \notin before[i]
      BY Zenon, <3>1, <3>2 DEF AccountInv, AccountsUnique, SameTenant
    <3> QED BY Zenon, <1>1, <3>1, <3>3
  <2>2. CASE j = id
    BY Zenon, <1>1, <1>2, <2>2
  <2>3. CASE i = id
    <3>1. users'[j].username = users'[i].username \/ SameTenant(users'[j], users'[i])
      BY Zenon DEF SameTenant
    <3> QED BY Zenon, <1>1, <1>2, <2>3, <3>1
  <2> QED BY Zenon, <2>1, <2>2, <2>3
<1> QED BY Zenon, <1>1, <1>3

\* A step of one call that stores nothing.
LEMMA CallGoesOn ==
  ASSUME AccountInv, NEW k \in Caller, NEW c, SetCall(k, c), Compared(c), UNCHANGED <<users, before>>
  PROVE  AccountInv'
<1>1. Compared(c)'
  BY Zenon DEF Compared
<1>2. DOMAIN calls' = Caller /\ calls'[k] = c /\ \A l \in Caller \ {k} : calls'[l] = calls[l]
  BY Zenon DEF AccountInv, SetCall
<1>3. ASSUME NEW l \in Caller PROVE Compared(calls[l])'
  <2>1. CASE l = k
    BY Zenon, <1>1, <1>2, <2>1 DEF Compared
  <2>2. CASE l # k
    BY Zenon, <1>2, <2>2 DEF AccountInv, Compared
  <2> QED BY <2>1, <2>2
<1> QED BY ZenonT(40), <1>2, <1>3 DEF AccountInv, AccountsUnique

\* A call that has compared nothing.
LEMMA CallBegins ==
  ASSUME NEW c, DOMAIN c = {"pc", "id", "user", "found", "before"}, c.before = {}
  PROVE  Compared(c)
BY Zenon DEF Compared

\* A step that stores nothing and leaves the calls alone or forgets them.
LEMMA AccountsRest ==
  ASSUME AccountInv, UNCHANGED <<users, before>>,
         calls' = calls \/ calls' = [k \in Caller |-> NoCall]
  PROVE  AccountInv'
<1>1. DOMAIN NoCall = {"pc", "id", "user", "found", "before"} /\ NoCall.before = {}
  BY DEF NoCall
<1>2. ASSUME NEW k \in Caller PROVE Compared(calls[k])'
  <2>1. CASE calls' = calls
    BY Zenon, <2>1 DEF AccountInv, Compared
  <2>2. CASE calls' = [l \in Caller |-> NoCall]
    <3>1. calls'[k] = NoCall
      BY Zenon, <2>2
    <3> QED BY Zenon, <1>1, <3>1 DEF Compared
  <2> QED BY <2>1, <2>2
<1>3. DOMAIN calls' = Caller
  BY Zenon DEF AccountInv
<1> QED BY ZenonT(40), <1>2, <1>3 DEF AccountInv, AccountsUnique

\* What a call has compared stays compared when another stores a user: one that is
\* replaced no longer counts.
LEMMA CallKept ==
  ASSUME NEW c, Compared(c), NEW id, DOMAIN users' = DOMAIN users \cup {id},
         \A i \in DOMAIN users \ {id} : users'[i] = users[i]
  PROVE  Compared([c EXCEPT !.before = @ \ {id}])'
<1>1. PICK d : d = [c EXCEPT !.before = @ \ {id}]
  BY Zenon
<1>2. /\ DOMAIN d = DOMAIN c /\ d.pc = c.pc /\ d.user = c.user /\ d.found = c.found
      /\ d.before = c.before \ {id}
  BY SMTT(30), <1>1 DEF Compared
<1>3. \A i \in d.before : i \in c.before /\ users'[i] = users[i] /\ i \in DOMAIN users'
  BY Zenon, <1>2 DEF Compared
<1>4. Compared(d)'
  BY Zenon, <1>2, <1>3 DEF Compared
<1> QED BY Zenon, <1>1, <1>4

\* Before the first start there are no users.
LEMMA AccountsStart == AuthInit => AccountInv
<1> SUFFICES ASSUME AuthInit PROVE AccountInv
  OBVIOUS
<1>1. DOMAIN users = {} /\ DOMAIN before = {}
  BY SMTT(30) DEF AuthInit
<1>2. \A k \in Caller : Compared(calls[k])
  BY DEF AuthInit, Compared, NoCall
<1>3. DOMAIN calls = Caller
  BY Zenon DEF AuthInit
<1> QED BY Zenon, <1>1, <1>2, <1>3 DEF AccountInv, AccountsUnique

\* The checks of create_user: the first looks at all users of the tenant, and at their
\* roles when it comes to them; the second at all users.
LEMMA ChecksKeep ==
  ASSUME AccountInv, NEW k \in Caller,
         \/ \E id, u, t, rs, strong : BeginCreateUser(k, id, u, t, rs, strong)
         \/ ScanTenant(k) \/ CheckTenant(k) \/ CheckName(k)
  PROVE  AccountInv'
<1> DEFINE c == calls[k]
           fields == {"pc", "id", "user", "found", "before"}
<1>0. Compared(c) /\ DOMAIN calls = Caller
  BY Zenon DEF AccountInv
<1>n. Compared(NoCall)
  <2>1. DOMAIN NoCall = fields /\ NoCall.before = {}
    BY DEF NoCall
  <2> QED BY ZenonT(40), <2>1, CallBegins
<1>1. ASSUME NEW id, NEW u, NEW t, NEW rs, NEW strong, BeginCreateUser(k, id, u, t, rs, strong)
      PROVE  AccountInv'
  <2> DEFINE tenant == IF "ServerAdmin" \in rs THEN NoTenant ELSE t
             new == [NoCall EXCEPT !.pc = IF tenant = NoTenant THEN "name" ELSE "tenant", !.id = id,
                                   !.user = NewUser(u, tenant, rs), !.before = DOMAIN users]
  <2>1. SetCall(k, new) /\ UNCHANGED <<users, before>> /\ (tenant = NoTenant => "ServerAdmin" \in rs)
    BY Zenon, <1>1 DEF BeginCreateUser
  <2>2. PICK d : d = new
    BY ZenonT(40)
  <2>3. /\ DOMAIN d = fields /\ d.before = DOMAIN users /\ d.user = NewUser(u, tenant, rs)
        /\ d.pc = IF tenant = NoTenant THEN "name" ELSE "tenant"
    BY SMTT(30), <2>2 DEF NoCall
  <2>4. d.pc # "persist" /\ d.pc # "roles" /\ (d.pc = "name" => tenant = NoTenant) /\ d.user.roles = rs
    BY <2>3 DEF NewUser
  <2> HIDE DEF new, tenant
  <2>5. Compared(d)
    BY Zenon, <2>1, <2>3, <2>4 DEF Compared, SameTenant
  <2> QED BY Zenon, <2>1, <2>2, <2>5, CallGoesOn
<1>2. ASSUME SetCall(k, NoCall), UNCHANGED <<users, before>> PROVE AccountInv'
  BY Zenon, <1>2, <1>n, CallGoesOn
<1>3. ASSUME NEW d, SetCall(k, d), UNCHANGED <<users, before>>,
             DOMAIN d = fields, d.user = c.user, d.before = c.before,
             d.pc = "roles" => \A i \in c.before : users[i].tenant = c.user.tenant => i \in d.found,
             d.pc \in {"name", "persist"} => \A i \in c.before : ~SameTenant(users[i], c.user),
             d.pc = "persist" => \A i \in c.before : users[i].username # c.user.username
      PROVE  AccountInv'
  <2>1. Compared(d)
    BY Zenon, <1>0, <1>3 DEF Compared
  <2> QED BY Zenon, <1>3, <2>1, CallGoesOn
<1>4. ASSUME ScanTenant(k) PROVE AccountInv'
  <2> DEFINE here == {id \in DOMAIN users : users[id].tenant = c.user.tenant}
  <2>1. PICK d : d = [c EXCEPT !.pc = "roles", !.found = here]
    BY Zenon
  <2>2. SetCall(k, d) /\ UNCHANGED <<users, before>>
    BY Zenon, <1>4, <2>1 DEF ScanTenant
  <2>3. DOMAIN d = fields /\ d.user = c.user /\ d.before = c.before /\ d.pc = "roles" /\ d.found = here
    BY SMTT(30), <1>0, <2>1 DEF Compared
  <2>4. d.pc \notin {"name", "persist"} /\ d.pc # "persist"
    BY <2>3
  <2>5. \A i \in c.before : users[i].tenant = c.user.tenant => i \in d.found
    BY ZenonT(40), <1>0, <2>3 DEF Compared
  <2> QED BY Zenon, <1>3, <2>2, <2>3, <2>4, <2>5
<1>5. ASSUME CheckTenant(k) PROVE AccountInv'
  <2> DEFINE Taken == \E id \in c.found : "ServerAdmin" \notin users[id].roles
  <2>1. PICK d : d = [c EXCEPT !.pc = "name", !.found = {}]
    BY Zenon
  <2>2. c.pc = "roles" /\ SetCall(k, IF Taken THEN NoCall ELSE d) /\ UNCHANGED <<users, before>>
    BY Zenon, <1>5, <2>1 DEF CheckTenant
  <2>3. CASE Taken
    BY Zenon, <1>2, <2>2, <2>3
  <2>4. CASE ~Taken
    <3>1. DOMAIN d = fields /\ d.user = c.user /\ d.before = c.before /\ d.pc = "name"
      BY SMTT(30), <1>0, <2>1 DEF Compared
    <3>2. d.pc # "roles" /\ d.pc # "persist"
      BY <3>1
    <3>3. \A i \in c.before : ~SameTenant(users[i], c.user)
      BY Zenon, <1>0, <2>2, <2>4 DEF Compared, SameTenant
    <3>4. SetCall(k, d)
      BY Zenon, <2>2, <2>4
    <3> QED BY Zenon, <1>3, <2>2, <3>1, <3>2, <3>3, <3>4
  <2> QED BY <2>3, <2>4
<1>6. ASSUME CheckName(k) PROVE AccountInv'
  <2>1. PICK d : d = [c EXCEPT !.pc = "persist"]
    BY Zenon
  <2>2. /\ c.pc = "name" /\ UNCHANGED <<users, before>>
        /\ SetCall(k, IF Named(c.user.username) # {} THEN NoCall ELSE d)
    BY Zenon, <1>6, <2>1 DEF CheckName
  <2>3. CASE Named(c.user.username) # {}
    BY Zenon, <1>2, <2>2, <2>3
  <2>4. CASE Named(c.user.username) = {}
    <3>1. DOMAIN d = fields /\ d.user = c.user /\ d.before = c.before /\ d.pc = "persist"
      BY SMTT(30), <1>0, <2>1 DEF Compared
    <3>2. d.pc # "roles"
      BY <3>1
    <3>3. \A i \in c.before : ~SameTenant(users[i], c.user) /\ users[i].username # c.user.username
      BY Zenon, <1>0, <2>2, <2>4 DEF Compared, Named
    <3>4. SetCall(k, d)
      BY Zenon, <2>2, <2>4
    <3> QED BY Zenon, <1>3, <2>2, <3>1, <3>2, <3>3, <3>4
  <2> QED BY <2>3, <2>4
<1> QED BY Zenon, <1>1, <1>4, <1>5, <1>6

\* login and refresh read a user, and store none.
LEMMA ReadersKeep ==
  ASSUME AccountInv, NEW k \in Caller,
         \/ \E id : FindUser(k, id)
         \/ IssuePair(k)
  PROVE  AccountInv'
<1>1. ASSUME NEW id, FindUser(k, id) PROVE AccountInv'
  <2> DEFINE new == [NoCall EXCEPT !.pc = "issue", !.id = id, !.user = [users[id] EXCEPT !.roles = {}]]
  <2>1. SetCall(k, new) /\ UNCHANGED <<users, before>>
    BY Zenon, <1>1 DEF FindUser
  <2>2. PICK account : account = [users[id] EXCEPT !.roles = {}]
    BY Zenon
  <2>3. PICK d : d = [NoCall EXCEPT !.pc = "issue", !.id = id, !.user = account]
    BY Zenon
  <2>4. DOMAIN d = {"pc", "id", "user", "found", "before"} /\ d.before = {}
    BY SMTT(30), <2>3 DEF NoCall
  <2>5. SetCall(k, d)
    BY Zenon, <2>1, <2>2, <2>3
  <2> QED BY Zenon, <2>1, <2>4, <2>5, CallBegins, CallGoesOn
<1>2. ASSUME IssuePair(k) PROVE AccountInv'
  <2>1. SetCall(k, NoCall) /\ UNCHANGED <<users, before>>
    BY ZenonT(40), <1>2 DEF IssuePair
  <2>2. DOMAIN NoCall = {"pc", "id", "user", "found", "before"} /\ NoCall.before = {}
    BY DEF NoCall
  <2> QED BY Zenon, <2>1, <2>2, CallBegins, CallGoesOn
<1> QED BY Zenon, <1>1, <1>2

\* The last step of create_user.
LEMMA StoreUserKeeps ==
  ASSUME AccountInv, NEW k \in Caller, StoreUser(k)
  PROVE  AccountInv'
<1>0. calls[k].pc = "persist"
  BY Zenon DEF StoreUser
<1>1. PICK id \in 1 .. MaxUsers :
        /\ Persist(id, calls[k].user, calls[k].before)
        /\ calls' = [j \in Caller |-> IF j = k THEN NoCall
                                      ELSE [calls[j] EXCEPT !.before = @ \ {id}]]
  BY Zenon DEF StoreUser
<1>2. PICK account : account = calls[k].user
  BY Zenon
<1>3. PICK stored : stored = calls[k].before
  BY ZenonT(40)
<1>4. /\ stored \subseteq DOMAIN users
      /\ \A i \in stored : ~SameTenant(users[i], account) /\ users[i].username # account.username
  BY <1>0, <1>2, <1>3 DEF AccountInv, Compared
<1>5. /\ DOMAIN users' = DOMAIN users \cup {id} /\ DOMAIN before' = DOMAIN users'
      /\ \A i \in DOMAIN users \ {id} : users'[i] = users[i]
      /\ AccountsUnique'
  BY Zenon, <1>1, <1>2, <1>3, <1>4, UserStored
<1>6. ASSUME NEW l \in Caller PROVE Compared(calls[l])'
  <2>1. CASE l = k
    <3>1. calls'[l] = NoCall
      BY ZenonT(40), <1>1, <2>1
    <3>2. DOMAIN NoCall = {"pc", "id", "user", "found", "before"} /\ NoCall.before = {}
      BY DEF NoCall
    <3> QED BY Zenon, <3>1, <3>2 DEF Compared
  <2>2. CASE l # k
    <3>1. PICK c : c = calls[l]
      BY Zenon
    <3>2. PICK d : d = [c EXCEPT !.before = @ \ {id}]
      BY Zenon
    <3>3. calls'[l] = d
      BY Zenon, <1>1, <2>2, <3>1, <3>2
    <3>4. Compared(d)'
      BY Zenon, <1>5, <3>1, <3>2, CallKept DEF AccountInv
    <3> QED BY Zenon, <3>3, <3>4 DEF Compared
  <2> QED BY Zenon, <2>1, <2>2
<1>7. DOMAIN calls' = Caller
  BY Zenon, <1>1
<1> QED BY Zenon, <1>5, <1>6, <1>7 DEF AccountInv

\* The first start makes the first user.
LEMMA StartKeeps ==
  ASSUME AccountInv, NEW p, Start(p)
  PROVE  AccountInv'
<1>1. calls' = calls
  BY Zenon DEF Start
<1>2. CASE UNCHANGED <<users, before>>
  BY Zenon, <1>1, <1>2, AccountsRest
<1>3. CASE DOMAIN users = {} /\ Persist(1, NewUser(Admin, NoTenant, {"ServerAdmin"}), {})
  <2>1. PICK account : account = NewUser(Admin, NoTenant, {"ServerAdmin"})
    BY Zenon
  <2>2. PICK stored : stored = {}
    BY Zenon
  <2>3. /\ Persist(1, account, stored) /\ stored \subseteq DOMAIN users
        /\ \A i \in stored : ~SameTenant(users[i], account) /\ users[i].username # account.username
    BY Zenon, <1>3, <2>1, <2>2
  <2>4. DOMAIN before' = DOMAIN users' /\ AccountsUnique'
    BY Zenon, <2>3, UserStored
  <2>5. ASSUME NEW l \in Caller PROVE Compared(calls[l])'
    <3>1. Compared(calls[l])
      BY Zenon DEF AccountInv
    <3>2. calls[l].before = {}
      BY Zenon, <1>3, <3>1 DEF Compared
    <3> QED BY Zenon, <1>1, <3>1, <3>2 DEF Compared
  <2> QED BY Zenon, <1>1, <2>4, <2>5 DEF AccountInv
<1> QED BY Zenon, <1>2, <1>3 DEF Start

\* Every step keeps the invariant.
LEMMA AccountsKeep ==
  ASSUME AccountInv, [AuthNext]_authVars
  PROVE  AccountInv'
<1>1. ASSUME NEW k \in Caller, CreateStep(k) PROVE AccountInv'
  BY Zenon, <1>1, ChecksKeep, StoreUserKeeps DEF CreateStep
<1>2. ASSUME Restart PROVE AccountInv'
  <2>1. CASE Stop
    BY Zenon, <2>1, AccountsRest DEF Stop
  <2> QED BY Zenon, <1>2, <2>1, StartKeeps DEF Restart
<1>3. ASSUME AuthTick \/ UNCHANGED authVars PROVE AccountInv'
  BY Zenon, <1>3, AccountsRest DEF AuthTick, authVars
<1>4. ASSUME NEW s, Logout(s) PROVE AccountInv'
  BY Zenon, <1>4, AccountsRest DEF Logout
<1>5. CASE UsersNext(0 .. MaxUsers)
  BY Zenon, <1>1, <1>2, <1>5, ChecksKeep DEF UsersNext
<1>6. ASSUME NEW k \in Caller, TokensNext(k) PROVE AccountInv'
  <2>1. ASSUME NEW j \in Caller,
               \/ IssuePair(j)
               \/ \E u \in Username : BeginLogin(j, u)
               \/ \E s \in sessions : BeginRefresh(j, s)
        PROVE  AccountInv'
    BY Zenon, <2>1, ReadersKeep DEF BeginLogin, BeginRefresh
  <2> QED BY Zenon, <1>1, <1>2, <1>3, <1>4, <1>6, <2>1, ChecksKeep DEF TokensNext
<1> QED BY Zenon, <1>3, <1>5, <1>6 DEF AuthNext

\* create_user checks the tenant and the name and then stores, with no lock, and may
\* replace a stored user: two users share a name or a tenant only if the calls that
\* made them overlapped.
THEOREM AccountsAreUnique == AuthSpec => []AccountsUnique
<1>1. AccountInv /\ [AuthNext]_authVars => AccountInv'
  BY Zenon, AccountsKeep
<1>2. AccountInv => AccountsUnique
  BY Zenon DEF AccountInv
<1> QED BY AccountsStart, <1>1, <1>2, PTL DEF AuthSpec

-----------------------------------------------------------------------------
(* Tokens.                                                                 *)

\* A token pair handed out: its access token says who, with which tenant and roles, when
\* and by whom it was signed.
Issued(s) ==
  /\ DOMAIN s = {"user", "iat", "process", "out", "access", "refresh"}
  /\ s.iat \in Nat /\ s.process \in 1 .. process
  /\ s.out \subseteq 1 .. process
  /\ s.access = [kind |-> "access", sub |-> s.user, tenant |-> s.access.tenant,
                 roles |-> s.access.roles, iat |-> s.iat, exp |-> s.iat + AccessTtl,
                 key |-> IF mode = "rs256" THEN s.process ELSE 0]

\* What is revoked was logged out in this process.
TokenInv ==
  /\ mode \in {"rs256", "hs256"} /\ process \in Nat /\ now \in Nat /\ (up => process > 0)
  /\ \A s \in sessions : Issued(s)
  /\ \A t : t \in revoked <=> \E r \in sessions : process \in r.out /\ r.access = t

\* Before the first start there are no sessions, and nothing is revoked.
LEMMA TokensStart == AuthInit => TokenInv
  BY DEF AuthInit, TokenInv

\* Pairs handed out stay what they are, whoever is replaced.
LEMMA IssuedStays ==
  ASSUME process \in Nat, process' \in {process, process + 1}, mode' = mode, NEW s, Issued(s)
  PROVE  Issued(s)'
<1>1. 1 .. process \subseteq 1 .. process'
  OBVIOUS
<1> QED BY Zenon, <1>1 DEF Issued

\* The pair that login and refresh make.
LEMMA SessionIssued ==
  ASSUME TokenInv, up, NEW id, NEW tenant
  PROVE  Issued(SessionFor(id, tenant)) /\ SessionFor(id, tenant).out = {}
<1>1. process \in 1 .. process
  BY DEF TokenInv
<1>2. PICK s : s = SessionFor(id, tenant)
  BY Zenon
<1>3. PICK a : a = Token("access", id, tenant, AccessTtl)
  BY Zenon
<1>4. PICK b : b = Token("refresh", id, tenant, RefreshTtl)
  BY Zenon
<1>5. s = [user |-> id, iat |-> now, process |-> process, out |-> {}, access |-> a, refresh |-> b]
  BY <1>2, <1>3, <1>4, Zenon DEF SessionFor
<1>6. DOMAIN s = {"user", "iat", "process", "out", "access", "refresh"}
  BY <1>5, Zenon
<1>7. s.user = id /\ s.iat = now
  BY <1>5, Zenon
<1>8. s.process = process /\ s.out = {}
  BY <1>5, Zenon
<1>9. s.access = a
  BY <1>5, Zenon
<1>10. a = [kind |-> "access", sub |-> id, tenant |-> a.tenant, roles |-> a.roles, iat |-> now,
            exp |-> now + AccessTtl, key |-> IF mode = "rs256" THEN process ELSE 0]
  BY <1>3, Zenon DEF Token, SigningKey
<1>11. Issued(s)
  BY <1>1, <1>10, <1>6, <1>7, <1>8, <1>9, Zenon DEF Issued, TokenInv
<1> QED BY <1>2, <1>8, <1>11, Zenon

\* Login, refresh and logout; a start forgets what was revoked.
LEMMA TokensKeep ==
  ASSUME TokenInv, [AuthNext]_authVars
  PROVE  TokenInv'
<1>a. /\ mode \in {"rs256", "hs256"} /\ process \in Nat /\ now \in Nat /\ (up => process > 0)
      /\ \A s \in sessions : Issued(s)
      /\ \A t : t \in revoked <=> \E r \in sessions : process \in r.out /\ r.access = t
  BY Zenon DEF TokenInv
<1>1. ASSUME UNCHANGED <<mode, process, sessions, revoked>>, now' \in {now, now + 1}, up' => up
      PROVE  TokenInv'
  <2>1. \A s \in sessions : Issued(s)'
    BY Zenon, <1>a, <1>1, IssuedStays
  <2>2. now' \in Nat
    BY <1>a, <1>1
  <2> QED BY Zenon, <1>a, <1>1, <2>1, <2>2 DEF TokenInv
<1>2. ASSUME NEW p, Start(p) PROVE TokenInv'
  <2>1. /\ UNCHANGED <<mode, sessions, now>> /\ process' = process + 1 /\ revoked' = {}
    BY Zenon, <1>2 DEF Start
  <2>2. \A s \in sessions : Issued(s)'
    BY Zenon, <1>a, <2>1, IssuedStays
  <2>3. process' \in Nat /\ process' > 0 /\ process' \notin 1 .. process
    BY <1>a, <2>1
  <2>4. \A s \in sessions : process' \notin s.out
    BY Zenon, <1>a, <2>3 DEF Issued
  <2> QED BY Zenon, <1>a, <2>1, <2>2, <2>3, <2>4 DEF TokenInv
<1>3. ASSUME NEW id, NEW tenant, up, sessions' = sessions \cup {SessionFor(id, tenant)},
             UNCHANGED <<mode, process, up, revoked, now>>
      PROVE  TokenInv'
  <2>1. PICK n : n = SessionFor(id, tenant)
    BY Zenon
  <2>2. Issued(n) /\ n.out = {}
    BY Zenon, <1>3, <2>1, SessionIssued
  <2>3. \A s \in sessions' : Issued(s)'
    BY Zenon, <1>a, <1>3, <2>1, <2>2, IssuedStays
  <2>4. \A t : t \in revoked' <=> \E r \in sessions' : process' \in r.out /\ r.access = t
    BY Zenon, <1>a, <1>3, <2>1, <2>2
  <2> QED BY Zenon, <1>a, <1>3, <2>3, <2>4 DEF TokenInv
<1>4. ASSUME NEW s \in sessions, Logout(s) PROVE TokenInv'
  <2>1. /\ up /\ UNCHANGED <<mode, process, up, now>> /\ revoked' = revoked \cup {s.access}
        /\ sessions' = (sessions \ {s}) \cup {[s EXCEPT !.out = @ \cup {process}]}
    BY Zenon, <1>4 DEF Logout
  <2>2. PICK n : n = [s EXCEPT !.out = @ \cup {process}]
    BY Zenon
  <2>3. Issued(s)
    BY Zenon, <1>a
  <2>4. /\ DOMAIN n = DOMAIN s /\ n.user = s.user /\ n.iat = s.iat /\ n.process = s.process
        /\ n.access = s.access /\ n.out = s.out \cup {process}
    BY <2>2, <2>3 DEF Issued
  <2>5. process \in 1 .. process
    BY <1>a, <2>1
  <2>6. Issued(n)
    BY Zenon, <2>3, <2>4, <2>5 DEF Issued
  <2>7. \A r \in sessions' : Issued(r)'
    BY Zenon, <1>a, <2>1, <2>2, <2>6, IssuedStays
  <2>8. ASSUME NEW t
        PROVE  t \in revoked' <=> \E r \in sessions' : process' \in r.out /\ r.access = t
    <3>1. CASE t = s.access
      BY Zenon, <2>1, <2>2, <2>4, <3>1
    <3>2. CASE t # s.access
      BY Zenon, <1>a, <2>1, <2>2, <2>4, <3>2
    <3> QED BY <3>1, <3>2
  <2> QED BY Zenon, <1>a, <2>1, <2>7, <2>8 DEF TokenInv
<1>5. ASSUME NEW k \in Caller, IssuePair(k) PROVE TokenInv'
  BY Zenon, <1>3, <1>5 DEF IssuePair
<1>6. ASSUME NEW k \in Caller, \E id : FindUser(k, id) PROVE TokenInv'
  BY Zenon, <1>1, <1>6 DEF FindUser
<1>7. ASSUME AuthTick \/ Stop \/ UNCHANGED authVars PROVE TokenInv'
  <2>1. CASE AuthTick
    BY Zenon, <1>1, <2>1 DEF AuthTick
  <2>2. CASE Stop
    BY Zenon, <1>1, <2>2 DEF Stop
  <2>3. CASE UNCHANGED authVars
    BY Zenon, <1>1, <2>3 DEF authVars
  <2> QED BY Zenon, <1>7, <2>1, <2>2, <2>3
<1>8. ASSUME NEW k \in Caller,
             \/ \E id, u, t, rs, strong : BeginCreateUser(k, id, u, t, rs, strong)
             \/ CreateStep(k)
      PROVE  TokenInv'
  BY ZenonT(40), <1>1, <1>8 DEF BeginCreateUser, CreateStep, ScanTenant, CheckTenant, CheckName, StoreUser
<1>9. ASSUME Restart PROVE TokenInv'
  BY Zenon, <1>2, <1>7, <1>9 DEF Restart
<1>10. CASE UsersNext(0 .. MaxUsers)
  BY Zenon, <1>8, <1>9, <1>10 DEF UsersNext
<1>11. ASSUME NEW k \in Caller, TokensNext(k) PROVE TokenInv'
  BY Zenon, <1>4, <1>5, <1>6, <1>7, <1>8, <1>9, <1>11 DEF TokensNext, BeginLogin, BeginRefresh
<1> QED BY Zenon, <1>7, <1>10, <1>11 DEF AuthNext

\* Two access tokens are one string if and only if they were issued to one user in
\* one second with one tenant and the same roles, and signed with one key.
LEMMA SameString ==
  ASSUME TokenInv, NEW r \in sessions, NEW s \in sessions
  PROVE  r.access = s.access <=> OneString(r, s)
<1>1. Issued(r) /\ Issued(s)
  BY Zenon DEF TokenInv
<1>2. /\ r.access.sub = r.user /\ s.access.sub = s.user
      /\ r.access.iat = r.iat /\ s.access.iat = s.iat
      /\ r.access.key = IF mode = "rs256" THEN r.process ELSE 0
      /\ s.access.key = IF mode = "rs256" THEN s.process ELSE 0
  BY <1>1 DEF Issued
<1>3. mode = "hs256" <=> mode # "rs256"
  BY DEF TokenInv
<1>4. ASSUME r.access = s.access PROVE OneString(r, s)
  <2>1. r.user = s.user /\ r.iat = s.iat
    BY Zenon, <1>2, <1>4
  <2>2. mode = "rs256" => r.process = s.process
    BY Zenon, <1>2, <1>4
  <2> QED BY Zenon, <1>3, <1>4, <2>1, <2>2 DEF OneString
<1>5. ASSUME OneString(r, s) PROVE r.access = s.access
  <2>1. (IF mode = "rs256" THEN r.process ELSE 0) = (IF mode = "rs256" THEN s.process ELSE 0)
    BY Zenon, <1>3, <1>5 DEF OneString
  <2> QED BY Zenon, <1>1, <1>5, <2>1 DEF Issued, OneString
<1> QED BY Zenon, <1>4, <1>5

\* An access token verifies exactly while it lives: decode_token looks at the
\* revocations of this process, the key, the kind and the time.
LEMMA TokensLive == TokenInv => TokenLifetime
<1> SUFFICES ASSUME TokenInv, up, NEW s \in sessions
             PROVE  (Verify(s.access) = "ok") <=>
                      /\ mode = "hs256" \/ s.process = process
                      /\ now < s.iat + AccessTtl
                      /\ \A r \in sessions : OneString(r, s) => process \notin r.out
  BY Zenon DEF TokenLifetime
<1>1. Issued(s) /\ now \in Nat
  BY ZenonT(40) DEF TokenInv
<1>2. /\ s.access.kind = "access" /\ s.access.exp = s.iat + AccessTtl
      /\ s.access.key = IF mode = "rs256" THEN s.process ELSE 0
  BY <1>1 DEF Issued
<1>3. s.access.key = SigningKey <=> mode = "hs256" \/ s.process = process
  BY SMTT(30), <1>2 DEF SigningKey, TokenInv
<1>4. now >= s.access.exp <=> ~(now < s.iat + AccessTtl)
  BY <1>1, <1>2, AuthAssumption DEF Issued
<1>5. s.access \in revoked <=> \E r \in sessions : OneString(r, s) /\ process \in r.out
  <2>1. s.access \in revoked <=> \E r \in sessions : process \in r.out /\ r.access = s.access
    BY Zenon DEF TokenInv
  <2> QED BY Zenon, <2>1, SameString
<1>6. Verify(s.access) = "ok" <=>
        s.access \notin revoked /\ s.access.key = SigningKey /\ ~(now >= s.access.exp)
  BY <1>2 DEF Verify, DecodeToken
<1> QED BY Zenon, <1>3, <1>4, <1>5, <1>6

\* verify accepts an access token from login until its time is over or this process
\* has seen a logout of the same string, whatever restarts, refreshes, other logins
\* and creations or replacements of users happen meanwhile, also between the two reads
\* of a login.
THEOREM TokensLiveExactly == AuthSpec => []TokenLifetime
<1>1. TokenInv /\ [AuthNext]_authVars => TokenInv'
  BY Zenon, TokensKeep
<1> QED BY <1>1, TokensStart, TokensLive, PTL DEF AuthSpec

-----------------------------------------------------------------------------
\* At most MaxConnections are open; who has not entered has executed nothing; when the
\* server has ended, nobody is present.
Guarded ==
  /\ Cardinality(Present) <= MaxConnections
  /\ \A c \in Conn : executed[c] > 0 => phase[c] \in {"entered", "gone"}
  /\ serving = "no" => Present = {}

\* A connection that executes a command, or has executed one, keeps its user; it gets
\* the user it shows credentials of, who is valid then, while it has executed nothing.
OneUser ==
  \A c \in Conn :
    /\ user'[c] # user[c] => executed[c] = 0 /\ user'[c] = shown[c] /\ shown[c] \in valid
    /\ executed'[c] # executed[c] => phase[c] = "entered" /\ user'[c] = user[c]

SessionsInv ==
  /\ phase \in [Conn -> {"away", "open", "entered", "gone"}]
  /\ user = [c \in Conn |-> user[c]]
  /\ executed \in [Conn -> Nat]
  /\ IsFiniteSet(Present)
  /\ \A c \in Conn : phase[c] \in {"away", "open"} => executed[c] = 0
  /\ Guarded

\* The semaphore, the handshake and the join of all tasks at shutdown: the server
\* never has more connections than max_connections, executes the commands of one
\* connection for one user, whom the authenticator accepted before the first, and ends
\* after its last connection.
THEOREM SessionsGuarded ==
  ASSUME MaxConnections \in Nat
  PROVE  Spec => []Guarded /\ [][OneUser]_vars
<1>1. Init => SessionsInv
  <2> SUFFICES ASSUME Init PROVE SessionsInv
    OBVIOUS
  <2>1. Present = {}
    BY DEF Init, Present
  <2>2. IsFiniteSet(Present) /\ Cardinality(Present) = 0
    BY SMTT(30), <2>1, FS_EmptySet
  <2> QED
    BY <2>2 DEF Init, SessionsInv, Guarded
<1>2. SessionsInv /\ [Next]_vars => SessionsInv'
  <2> SUFFICES ASSUME SessionsInv, [Next]_vars PROVE SessionsInv'
    BY SMTT(30)
  <2>1. ASSUME NEW c \in Conn, Open(c) PROVE SessionsInv'
    <3>1. Present' = Present \cup {c}
      BY <2>1 DEF Open, Present, SessionsInv
    <3>2. IsFiniteSet(Present') /\ Cardinality(Present') <= Cardinality(Present) + 1
      <4>1. IsFiniteSet(Present) /\ Cardinality(Present) \in Nat
        BY FS_CardinalityType DEF SessionsInv
      <4>2. IsFiniteSet(Present \cup {c}) /\ Cardinality(Present \cup {c}) <= Cardinality(Present) + 1
        BY SMTT(30), <4>1, FS_AddElement
      <4> QED
        BY <3>1, <4>2, Zenon
    <3>3. Cardinality(Present') <= MaxConnections
      BY SMTT(30), <2>1, <3>2, FS_CardinalityType DEF Open, SessionsInv
    <3> QED
      BY SMTT(30), <2>1, <3>2, <3>3 DEF Open, SessionsInv, Guarded
  <2>2. ASSUME NEW c \in Conn, Enter(c) PROVE SessionsInv'
    <3>1. Present' = Present
      BY SMTT(30), <2>2 DEF Enter, Present, SessionsInv
    <3> QED
      BY SMTT(30), <2>2, <3>1 DEF Enter, SessionsInv, Guarded
  <2>3. ASSUME NEW c \in Conn, Execute(c) PROVE SessionsInv'
    <3>1. Present' = Present
      BY SMTT(30), <2>3 DEF Execute, Present
    <3> QED
      BY SMTT(30), <2>3, <3>1 DEF Execute, SessionsInv, Guarded
  <2>4. ASSUME NEW c \in Conn, Leave(c) PROVE SessionsInv'
    <3>1. Present' = Present \ {c}
      BY <2>4 DEF Leave, Present, SessionsInv
    <3>2. IsFiniteSet(Present') /\ Cardinality(Present') <= Cardinality(Present)
      <4>1. IsFiniteSet(Present) /\ Cardinality(Present) \in Nat
        BY FS_CardinalityType DEF SessionsInv
      <4>2. IsFiniteSet(Present \ {c}) /\ Cardinality(Present \ {c}) <= Cardinality(Present)
        BY SMTT(30), <4>1, FS_RemoveElement
      <4> QED
        BY <3>1, <4>2, Zenon
    <3>3. Cardinality(Present') <= MaxConnections
      BY SMTT(30), <3>2, FS_CardinalityType DEF SessionsInv, Guarded
    <3>4. c \in Conn /\ phase' = [phase EXCEPT ![c] = "gone"]
      BY SMTT(30), <2>4 DEF Leave
    <3> QED
      BY SMTT(30), <2>4, <3>1, <3>2, <3>3, <3>4 DEF Leave, SessionsInv, Guarded
  <2>5. CASE Close \/ Finish \/ UNCHANGED vars
    <3>1. Present' = Present
      BY <2>5 DEF Close, Finish, vars, Present
    <3> QED
      BY SMTT(30), <2>5, <3>1 DEF Close, Finish, vars, SessionsInv, Guarded
  <2> QED
    BY SMTT(30), <2>1, <2>2, <2>3, <2>4, <2>5 DEF Next
<1>3. SessionsInv => Guarded
  BY DEF SessionsInv
<1>4. SessionsInv /\ [Next]_vars => [OneUser]_vars
  <2> SUFFICES ASSUME SessionsInv, Next PROVE OneUser
    BY Zenon
  <2>1. ASSUME NEW c \in Conn, Enter(c) PROVE OneUser
    BY SMTT(30), <2>1 DEF Enter, SessionsInv, OneUser
  <2>2. ASSUME NEW c \in Conn, Execute(c) PROVE OneUser
    BY SMTT(30), <2>2 DEF Execute, SessionsInv, OneUser
  <2>3. ASSUME UNCHANGED <<user, executed>> PROVE OneUser
    BY Zenon, <2>3 DEF OneUser
  <2> QED BY Zenon, <2>1, <2>2, <2>3 DEF Next, Open, Leave, Close, Finish
<1> QED
  BY <1>1, <1>2, <1>3, <1>4, PTL DEF Spec

=============================================================================
