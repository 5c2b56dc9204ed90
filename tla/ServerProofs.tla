---------------------------- MODULE ServerProofs -----------------------------
(***************************************************************************)
(* What one node does for its clients and beside them.                     *)
(*                                                                         *)
(* Pagination, for every list and page size: a client that follows the     *)
(* cursors is given what stays in the list, once.  Slo and Traffic, for    *)
(* every window, budget and number of requests and tasks: rollbacks follow *)
(* the error budget, the percentile is one, and background tasks do not    *)
(* sleep in vain.  Server, for any number of connections and permits, any  *)
(* frames and any parser and encoder of them, while users log in, refresh  *)
(* and log out and tokens expire: it implements Sessions, of which         *)
(* ServiceProofs shows what follows.                                       *)
(***************************************************************************)
EXTENDS Server, Pagination, Slo, Traffic, FiniteSetTheorems, TLAPS

-----------------------------------------------------------------------------
(* Pages of a list.                                                        *)

PageSpec == PageInit /\ [][PageNext]_pageVars

Distinct(s) == \A i, j \in DOMAIN s : i < j => s[i] # s[j]

\* What the client has, if no cursor went astray: nothing twice; its cursor names
\* something it was given; behind that in the list is nothing it was given, and
\* before it nothing steady that it was not.
OnTrack ==
  /\ Distinct(seen)
  /\ walking /\ cursor = NoCursor => seen = <<>>
  /\ walking /\ cursor # NoCursor =>
       /\ \E id \in Range(seen) : cursor = EncodeCursor(id)
       /\ \A c, i \in DOMAIN listing : listing[c] = DecodeCursor(cursor) =>
            /\ i > c => listing[i] \notin Range(seen)
            /\ i < c /\ listing[i] \in steady => listing[i] \in Range(seen)
  /\ ~walking => steady \subseteq Range(seen)

PageInv ==
  /\ listing \in Seq(Id) /\ Distinct(listing)
  /\ seen \in Seq(Id)
  /\ steady \subseteq Range(listing)
  /\ limit \in {NoLimit} \cup 0 .. MaxPageSize + 1
  /\ ~rewound /\ EffectiveLimit(limit) > 0 => OnTrack

\* The list new has what it has of old in the order of old.
Follows(old, new) ==
  \A i, j \in DOMAIN new : i < j /\ new[i] \in Range(old) /\ new[j] \in Range(old) =>
    \E a, b \in DOMAIN old : a < b /\ old[a] = new[i] /\ old[b] = new[j]

\* One list behind another.
LEMMA Joined ==
  ASSUME NEW l \in Seq(Id), NEW r \in Seq(Id)
  PROVE  /\ l \o r \in Seq(Id) /\ Len(l \o r) = Len(l) + Len(r)
         /\ \A i \in 1 .. Len(l) + Len(r) : (l \o r)[i] = IF i <= Len(l) THEN l[i] ELSE r[i - Len(l)]
OBVIOUS

\* The list without one of its elements ...
LEMMA DeletedIs ==
  ASSUME listing \in Seq(Id), NEW at \in DOMAIN listing
  PROVE  /\ Deleted(at) \in Seq(Id) /\ Len(Deleted(at)) = Len(listing) - 1
         /\ \A i \in DOMAIN Deleted(at) : Deleted(at)[i] = IF i < at THEN listing[i] ELSE listing[i + 1]
<1>1. at \in 1 .. Len(listing) /\ Len(listing) \in Nat
  OBVIOUS
<1>2. PICK l : l = SubSeq(listing, 1, at - 1)
  BY Zenon
<1>3. PICK r : r = SubSeq(listing, at + 1, Len(listing))
  BY Zenon
<1>4. l \in Seq(Id) /\ Len(l) = at - 1 /\ \A i \in 1 .. at - 1 : l[i] = listing[i]
  BY <1>1, <1>2
<1>5. /\ r \in Seq(Id) /\ Len(r) = Len(listing) - at
      /\ \A i \in 1 .. Len(listing) - at : r[i] = listing[at + i]
  BY <1>1, <1>3
<1>6. PICK n : n = l \o r
  BY Zenon
<1>7. /\ n \in Seq(Id) /\ Len(n) = Len(l) + Len(r) /\ DOMAIN n = 1 .. Len(n)
      /\ \A i \in 1 .. Len(l) + Len(r) : n[i] = IF i <= Len(l) THEN l[i] ELSE r[i - Len(l)]
  BY SMTT(30), <1>4, <1>5, <1>6, Joined
<1>8. /\ n \in Seq(Id) /\ Len(n) = Len(listing) - 1
      /\ \A i \in DOMAIN n : n[i] = IF i < at THEN listing[i] ELSE listing[i + 1]
  <2>1. n \in Seq(Id) /\ Len(n) = Len(listing) - 1 /\ DOMAIN n = 1 .. Len(listing) - 1
    BY SMTT(30), <1>1, <1>4, <1>5, <1>7
  <2>2. ASSUME NEW i \in DOMAIN n PROVE n[i] = IF i < at THEN listing[i] ELSE listing[i + 1]
    <3>1. i \in 1 .. Len(listing) - 1 /\ n[i] = IF i <= Len(l) THEN l[i] ELSE r[i - Len(l)]
      BY <1>7, <2>1, <2>2
    <3>2. CASE i < at
      BY <1>1, <1>4, <3>1, <3>2
    <3>3. CASE ~(i < at)
      <4>1. i - Len(l) = i + 1 - at /\ i + 1 - at \in 1 .. Len(listing) - at
        BY <1>1, <1>4, <3>1, <3>3
      <4>2. r[i + 1 - at] = listing[at + (i + 1 - at)]
        BY <1>5, <4>1
      <4>3. at + (i + 1 - at) = i + 1
        BY <1>1, <3>1
      <4> QED BY SMTT(30), <1>1, <1>4, <3>1, <3>3, <4>1, <4>2, <4>3
    <3> QED BY <3>2, <3>3
  <2> QED BY <2>1, <2>2
<1>9. Deleted(at) = n
  BY <1>2, <1>3, <1>6, Zenon DEF Deleted
<1> QED BY <1>8, <1>9, Zenon

\* ... and with one more.
LEMMA InsertedIs ==
  ASSUME listing \in Seq(Id), NEW id \in Id, NEW at \in 0 .. Len(listing)
  PROVE  /\ Inserted(id, at) \in Seq(Id) /\ Len(Inserted(id, at)) = Len(listing) + 1
         /\ \A i \in DOMAIN Inserted(id, at) :
              Inserted(id, at)[i] = IF i <= at THEN listing[i]
                                    ELSE IF i = at + 1 THEN id ELSE listing[i - 1]
<1>1. Len(listing) \in Nat
  OBVIOUS
<1>2. PICK l : l = SubSeq(listing, 1, at)
  BY Zenon
<1>3. PICK r : r = SubSeq(listing, at + 1, Len(listing))
  BY Zenon
<1>4. l \in Seq(Id) /\ Len(l) = at /\ \A i \in 1 .. at : l[i] = listing[i]
  BY <1>1, <1>2
<1>5. /\ r \in Seq(Id) /\ Len(r) = Len(listing) - at
      /\ \A i \in 1 .. Len(listing) - at : r[i] = listing[at + i]
  BY <1>1, <1>3
<1>6. PICK m : m = l \o <<id>>
  BY Zenon
<1>7. /\ m \in Seq(Id) /\ Len(m) = at + 1
      /\ \A i \in 1 .. at + 1 : m[i] = IF i <= at THEN listing[i] ELSE id
  <2>1. <<id>> \in Seq(Id) /\ Len(<<id>>) = 1 /\ <<id>>[1] = id
    OBVIOUS
  <2>2. /\ m \in Seq(Id) /\ Len(m) = at + 1
        /\ \A i \in 1 .. at + 1 : m[i] = IF i <= at THEN l[i] ELSE <<id>>[i - at]
    BY <1>4, <1>6, <2>1, Joined
  <2> QED BY <1>4, <2>1, <2>2
<1>8. PICK n : n = m \o r
  BY Zenon
<1>9. /\ n \in Seq(Id) /\ Len(n) = Len(m) + Len(r) /\ DOMAIN n = 1 .. Len(n)
      /\ \A i \in 1 .. Len(m) + Len(r) : n[i] = IF i <= Len(m) THEN m[i] ELSE r[i - Len(m)]
  <2>1. m \in Seq(Id) /\ r \in Seq(Id)
    BY <1>5, <1>7
  <2>2. /\ n \in Seq(Id) /\ Len(n) = Len(m) + Len(r)
        /\ \A i \in 1 .. Len(m) + Len(r) : n[i] = IF i <= Len(m) THEN m[i] ELSE r[i - Len(m)]
    BY <1>8, <2>1, Joined, Zenon
  <2>3. DOMAIN n = 1 .. Len(n)
    BY <2>2
  <2> QED BY <2>2, <2>3, Zenon
<1>10. /\ n \in Seq(Id) /\ Len(n) = Len(listing) + 1
       /\ \A i \in DOMAIN n : n[i] = IF i <= at THEN listing[i]
                                       ELSE IF i = at + 1 THEN id ELSE listing[i - 1]
  <2>1. n \in Seq(Id) /\ Len(n) = Len(listing) + 1 /\ DOMAIN n = 1 .. Len(listing) + 1
    BY <1>1, <1>5, <1>7, <1>9
  <2>2. ASSUME NEW i \in DOMAIN n
        PROVE  n[i] = IF i <= at THEN listing[i] ELSE IF i = at + 1 THEN id ELSE listing[i - 1]
    <3>1. i \in 1 .. Len(listing) + 1 /\ n[i] = IF i <= Len(m) THEN m[i] ELSE r[i - Len(m)]
      BY SMTT(30), <1>1, <1>5, <1>7, <1>9, <2>1, <2>2
    <3>2. CASE i <= at + 1
      <4>1. n[i] = m[i] /\ m[i] = IF i <= at THEN listing[i] ELSE id
        BY <1>7, <3>1, <3>2
      <4> QED BY <3>1, <3>2, <4>1
    <3>3. CASE ~(i <= at + 1)
      <4>1. PICK k : k = i - 1 - at
        BY Zenon
      <4>2. i \in 1 .. Len(listing) + 1 /\ Len(m) = at + 1
        BY <1>7, <3>1, Zenon
      <4>3. k \in 1 .. Len(listing) - at /\ k = i - Len(m) /\ at + k = i - 1 /\ ~(i <= Len(m))
        BY <1>1, <3>3, <4>1, <4>2
      <4>4. n[i] = r[k] /\ r[k] = listing[i - 1]
        <5>1. r[k] = listing[at + k]
          BY <1>5, <4>3, Zenon
        <5> QED BY <3>1, <4>3, <5>1, Zenon
      <4>5. ~(i <= at) /\ i # at + 1
        BY <3>3, <4>2
      <4> QED BY <4>4, <4>5, Zenon
    <3> QED BY <3>2, <3>3
  <2> QED BY <2>1, <2>2
<1>11. Inserted(id, at) = n
  BY <1>2, <1>3, <1>6, <1>8, Zenon DEF Inserted
<1> QED BY <1>10, <1>11, Zenon

\* Deleting an object keeps the order of the others in the list.
LEMMA DeletedFollows ==
  ASSUME listing \in Seq(Id), Distinct(listing), NEW at \in DOMAIN listing
  PROVE  /\ Distinct(Deleted(at)) /\ Follows(listing, Deleted(at))
         /\ Range(Deleted(at)) \subseteq Range(listing)
<1>1. PICK new : new = Deleted(at)
  BY Zenon
<1>2. /\ DOMAIN new = 1 .. Len(listing) - 1 /\ DOMAIN listing = 1 .. Len(listing) /\ Len(listing) \in Nat
      /\ \A i \in DOMAIN new : new[i] = IF i < at THEN listing[i] ELSE listing[i + 1]
  BY <1>1, DeletedIs
<1>3. \A i, j \in DOMAIN new : i < j =>
        \E a, b \in DOMAIN listing : a < b /\ listing[a] = new[i] /\ listing[b] = new[j]
  BY <1>2
<1>4. \A i \in DOMAIN new : \E a \in DOMAIN listing : listing[a] = new[i]
  BY <1>2
<1>5. Distinct(new)
  BY <1>3 DEF Distinct
<1>6. Follows(listing, new)
  BY <1>3, Zenon DEF Follows
<1>7. Range(new) \subseteq Range(listing)
  BY <1>4, Zenon DEF Range
<1> QED BY <1>1, <1>5, <1>6, <1>7, Zenon

\* Inserting an object keeps the order of the others, and lists no id twice.
LEMMA InsertedFollows ==
  ASSUME listing \in Seq(Id), Distinct(listing), NEW id \in Id \ Range(listing),
         NEW at \in 0 .. Len(listing)
  PROVE  /\ Distinct(Inserted(id, at)) /\ Follows(listing, Inserted(id, at))
         /\ Range(Inserted(id, at)) \subseteq Range(listing) \cup {id}
<1>1. PICK new : new = Inserted(id, at)
  BY Zenon
<1>2. /\ DOMAIN new = 1 .. Len(listing) + 1 /\ DOMAIN listing = 1 .. Len(listing) /\ Len(listing) \in Nat
      /\ \A i \in DOMAIN new : new[i] = IF i <= at THEN listing[i]
                                        ELSE IF i = at + 1 THEN id ELSE listing[i - 1]
  BY <1>1, InsertedIs
<1>3. \A i, j \in DOMAIN new : i < j /\ i # at + 1 /\ j # at + 1 =>
        \E a, b \in DOMAIN listing : a < b /\ listing[a] = new[i] /\ listing[b] = new[j]
  BY SMTT(30), <1>2
<1>4. new[at + 1] = id
  BY <1>2
<1>5. \A i \in DOMAIN new : i # at + 1 => \E a \in DOMAIN listing : listing[a] = new[i]
  BY <1>2
<1>6. \A i \in DOMAIN new : i # at + 1 => new[i] # id
  BY <1>5, Zenon DEF Range
<1>7. Distinct(new)
  <2> SUFFICES ASSUME NEW i \in DOMAIN new, NEW j \in DOMAIN new, i < j PROVE new[i] # new[j]
    BY Zenon DEF Distinct
  <2>1. CASE i # at + 1 /\ j # at + 1
    BY <1>3, <2>1 DEF Distinct
  <2>2. CASE i = at + 1
    BY <1>2, <1>4, <1>6, <2>2
  <2>3. CASE j = at + 1
    BY <1>2, <1>4, <1>6, <2>3
  <2> QED BY <2>1, <2>2, <2>3
<1>8. Follows(listing, new)
  <2> SUFFICES ASSUME NEW i \in DOMAIN new, NEW j \in DOMAIN new, i < j,
                      new[i] \in Range(listing), new[j] \in Range(listing)
               PROVE  \E a, b \in DOMAIN listing : a < b /\ listing[a] = new[i] /\ listing[b] = new[j]
    BY Zenon DEF Follows
  <2>1. i # at + 1 /\ j # at + 1
    BY <1>4, Zenon
  <2> QED BY <1>3, <2>1, Zenon
<1>9. Range(new) \subseteq Range(listing) \cup {id}
  BY <1>4, <1>5, Zenon DEF Range
<1> QED BY <1>1, <1>7, <1>8, <1>9, Zenon

\* An edit keeps the client on its track.
LEMMA EditKeeps ==
  ASSUME PageInv, NEW new \in Seq(Id), Edit(new), Distinct(new), Follows(listing, new),
         \A id \in Range(new) \ Range(listing) : id \notin Range(seen)
  PROVE  PageInv'
<1>1. /\ listing' = new /\ steady' = steady \cap Range(new)
      /\ cursor' = cursor /\ limit' = limit /\ walking' = walking /\ seen' = seen /\ rewound' = rewound
  BY DEF Edit
<1>2. ASSUME OnTrack PROVE OnTrack'
  <2>1. Distinct(seen)' /\ (walking /\ cursor = NoCursor => seen = <<>>)'
    BY <1>1, <1>2, Zenon DEF OnTrack, Distinct
  <2>2. (~walking => steady \subseteq Range(seen))'
    BY <1>1, <1>2, Zenon DEF OnTrack
  <2>3. ASSUME walking, cursor # NoCursor
        PROVE  /\ \E id \in Range(seen) : cursor = EncodeCursor(id)
               /\ \A c, i \in DOMAIN new : new[c] = DecodeCursor(cursor) =>
                    /\ i > c => new[i] \notin Range(seen)
                    /\ i < c /\ new[i] \in steady => new[i] \in Range(seen)
    <3>1. PICK id \in Range(seen) : cursor = EncodeCursor(id)
      BY <1>2, <2>3, Zenon DEF OnTrack
    <3>2. DecodeCursor(cursor) = id
      BY <3>1 DEF EncodeCursor, DecodeCursor
    <3>3. \A c, i \in DOMAIN listing : listing[c] = id =>
            /\ i > c => listing[i] \notin Range(seen)
            /\ i < c /\ listing[i] \in steady => listing[i] \in Range(seen)
      BY <1>2, <2>3, <3>2, Zenon DEF OnTrack
    <3>4. ASSUME NEW c \in DOMAIN new, NEW i \in DOMAIN new, new[c] = id
          PROVE  /\ i > c => new[i] \notin Range(seen)
                 /\ i < c /\ new[i] \in steady => new[i] \in Range(seen)
      <4>1. new[i] \in Range(new) /\ new[c] \in Range(new)
        BY Zenon DEF Range
      <4>2. id \in Range(listing)
        BY <3>1, <3>4, <4>1, Zenon
      <4>3. ASSUME i > c, new[i] \in Range(seen) PROVE FALSE
        <5>1. new[i] \in Range(listing)
          BY <4>1, <4>3, Zenon
        <5>2. c < i
          BY <4>3
        <5>3. PICK a, b \in DOMAIN listing : a < b /\ listing[a] = new[c] /\ listing[b] = new[i]
          BY <3>4, <4>2, <5>1, <5>2, Zenon DEF Follows
        <5>4. b > a /\ listing[a] = id
          BY <3>4, <5>3
        <5> QED BY <3>3, <4>3, <5>3, <5>4
      <4>4. ASSUME i < c, new[i] \in steady PROVE new[i] \in Range(seen)
        <5>1. new[i] \in Range(listing)
          BY <4>4, Zenon DEF PageInv
        <5>2. PICK a, b \in DOMAIN listing : a < b /\ listing[a] = new[i] /\ listing[b] = new[c]
          BY <3>4, <4>2, <4>4, <5>1, Zenon DEF Follows
        <5> QED BY <3>3, <3>4, <4>4, <5>2
      <4> QED BY <4>3, <4>4, Zenon
    <3> QED BY <3>1, <3>2, <3>4, Zenon
  <2>4. (walking /\ cursor # NoCursor =>
           /\ \E id \in Range(seen) : cursor = EncodeCursor(id)
           /\ \A c, i \in DOMAIN listing : listing[c] = DecodeCursor(cursor) =>
                /\ i > c => listing[i] \notin Range(seen)
                /\ i < c /\ listing[i] \in steady => listing[i] \in Range(seen))'
    <3> SUFFICES ASSUME walking, cursor # NoCursor
                 PROVE  /\ \E id \in Range(seen) : cursor = EncodeCursor(id)
                        /\ \A c, i \in DOMAIN new : new[c] = DecodeCursor(cursor) =>
                             /\ i > c => new[i] \notin Range(seen)
                             /\ i < c /\ new[i] \in steady \cap Range(new) => new[i] \in Range(seen)
      BY <1>1, Zenon
    <3> QED BY <2>3, Zenon
  <2> QED BY <2>1, <2>2, <2>4, Zenon DEF OnTrack
<1>3. steady' \subseteq Range(listing')
  BY <1>1, Zenon
<1>4. (~rewound /\ EffectiveLimit(limit) > 0 => OnTrack)'
  BY <1>1, <1>2, Zenon DEF PageInv, EffectiveLimit
<1> QED BY <1>1, <1>3, <1>4, Zenon DEF PageInv

\* A page: the next of the list, from the start to an end.
LEMMA PageIs ==
  ASSUME listing \in Seq(Id), NEW start \in 0 .. Len(listing), NEW end \in start .. Len(listing),
         NEW page, page = SubSeq(listing, start + 1, end)
  PROVE  /\ page \in Seq(Id) /\ Len(page) = end - start /\ DOMAIN page = 1 .. end - start
         /\ \A i \in 1 .. end - start : page[i] = listing[start + i]
         /\ \A i \in DOMAIN listing : start < i /\ i <= end => listing[i] \in Range(page)
<1>1. /\ page \in Seq(Id) /\ Len(page) = end - start /\ DOMAIN page = 1 .. end - start
      /\ \A i \in 1 .. end - start : page[i] = listing[start + i]
  OBVIOUS
<1>2. ASSUME NEW i \in DOMAIN listing, start < i, i <= end PROVE listing[i] \in Range(page)
  <2>1. i - start \in 1 .. end - start /\ start + (i - start) = i
    BY <1>2
  <2>2. page[i - start] = listing[i] /\ i - start \in DOMAIN page
    BY <1>1, <2>1
  <2> QED BY <2>2, Zenon DEF Range
<1> QED BY <1>1, <1>2

\* Where it starts: behind the cursor's id if that is listed, else at the beginning.
LEMMA StartIs ==
  ASSUME listing \in Seq(Id)
  PROVE  /\ StartOf(listing, cursor) \in 0 .. Len(listing)
         /\ cursor = NoCursor => StartOf(listing, cursor) = 0
         /\ cursor # NoCursor /\ DecodeCursor(cursor) \in Range(listing) =>
              /\ StartOf(listing, cursor) \in DOMAIN listing
              /\ listing[StartOf(listing, cursor)] = DecodeCursor(cursor)
<1>1. ASSUME DecodeCursor(cursor) \in Range(listing)
      PROVE  \E i \in DOMAIN listing : listing[i] = DecodeCursor(cursor)
  BY <1>1, Zenon DEF Range
<1>2. CASE cursor = NoCursor \/ DecodeCursor(cursor) \notin Range(listing)
  BY <1>2 DEF StartOf
<1>3. CASE ~(cursor = NoCursor \/ DecodeCursor(cursor) \notin Range(listing))
  <2>1. /\ StartOf(listing, cursor) \in DOMAIN listing
        /\ listing[StartOf(listing, cursor)] = DecodeCursor(cursor)
    BY <1>1, <1>3, Zenon DEF StartOf
  <2> QED BY <1>3, <2>1
<1> QED BY <1>2, <1>3

\* What is in one list or another is in the two together.
LEMMA JoinedRange ==
  ASSUME NEW l \in Seq(Id), NEW r \in Seq(Id)
  PROVE  Range(l \o r) = Range(l) \cup Range(r)
<1>1. PICK n : n = l \o r
  BY Zenon
<1>2. /\ DOMAIN n = 1 .. Len(l) + Len(r) /\ Len(l) \in Nat /\ Len(r) \in Nat
      /\ DOMAIN l = 1 .. Len(l) /\ DOMAIN r = 1 .. Len(r)
      /\ \A i \in 1 .. Len(l) + Len(r) : n[i] = IF i <= Len(l) THEN l[i] ELSE r[i - Len(l)]
  BY <1>1, Joined
<1>3. \A i \in DOMAIN n : (\E j \in DOMAIN l : n[i] = l[j]) \/ (\E j \in DOMAIN r : n[i] = r[j])
  BY <1>2
<1>4. \A j \in DOMAIN l : j \in DOMAIN n /\ n[j] = l[j]
  BY <1>2
<1>5. \A j \in DOMAIN r : Len(l) + j \in DOMAIN n /\ n[Len(l) + j] = r[j]
  <2>1. ASSUME NEW j \in DOMAIN r PROVE Len(l) + j \in DOMAIN n /\ n[Len(l) + j] = r[j]
    <3>1. PICK k : k = Len(l) + j
      BY Zenon
    <3>2. k \in 1 .. Len(l) + Len(r) /\ ~(k <= Len(l)) /\ k - Len(l) = j
      BY <1>2, <2>1, <3>1
    <3>3. n[k] = r[j]
      BY <1>2, <3>2
    <3> QED BY <1>2, <3>1, <3>2, <3>3
  <2> QED BY <2>1
<1>6. Range(n) = Range(l) \cup Range(r)
  <2>1. Range(n) \subseteq Range(l) \cup Range(r)
    BY <1>3, Zenon DEF Range
  <2>2. Range(l) \subseteq Range(n)
    BY <1>4, Zenon DEF Range
  <2>3. Range(r) \subseteq Range(n)
    BY <1>5, Zenon DEF Range
  <2> QED BY <2>1, <2>2, <2>3, Zenon
<1> QED BY <1>1, <1>6, Zenon

\* Nothing is twice in two lists that have nothing in common and nothing twice.
LEMMA JoinedDistinct ==
  ASSUME NEW l \in Seq(Id), NEW r \in Seq(Id), Distinct(l), Distinct(r),
         \A x \in Range(r) : x \notin Range(l)
  PROVE  Distinct(l \o r)
<1>1. PICK n : n = l \o r
  BY Zenon
<1>2. /\ DOMAIN n = 1 .. Len(l) + Len(r) /\ Len(l) \in Nat /\ Len(r) \in Nat
      /\ DOMAIN l = 1 .. Len(l) /\ DOMAIN r = 1 .. Len(r)
      /\ \A i \in 1 .. Len(l) + Len(r) : n[i] = IF i <= Len(l) THEN l[i] ELSE r[i - Len(l)]
  BY <1>1, Joined
<1>3. ASSUME NEW i \in DOMAIN n, NEW j \in DOMAIN n, i < j PROVE n[i] # n[j]
  <2>1. i \in Nat /\ j \in Nat
    BY <1>2
  <2>2. CASE j <= Len(l)
    <3>1. i \in DOMAIN l /\ j \in DOMAIN l /\ n[i] = l[i] /\ n[j] = l[j]
      BY <1>2, <1>3, <2>1, <2>2
    <3> QED BY <1>3, <3>1, Zenon DEF Distinct
  <2>3. CASE ~(i <= Len(l))
    <3>1. /\ i - Len(l) \in DOMAIN r /\ j - Len(l) \in DOMAIN r /\ i - Len(l) < j - Len(l)
          /\ n[i] = r[i - Len(l)] /\ n[j] = r[j - Len(l)]
      BY <1>2, <1>3, <2>1, <2>3
    <3> QED BY <3>1, Zenon DEF Distinct
  <2>4. CASE i <= Len(l) /\ ~(j <= Len(l))
    <3>1. /\ i \in DOMAIN l /\ j - Len(l) \in DOMAIN r
          /\ n[i] = l[i] /\ n[j] = r[j - Len(l)]
      BY <1>2, <1>3, <2>1, <2>4
    <3> QED BY <3>1, Zenon DEF Range
  <2> QED BY <1>2, <1>3, <2>1, <2>2, <2>3, <2>4
<1>4. Distinct(n)
  BY <1>3, Zenon DEF Distinct
<1> QED BY <1>1, <1>4, Zenon

\* A page keeps the client on its track, or is the one that rewinds.
LEMMA NextKeeps ==
  ASSUME PageInv, NextPage
  PROVE  PageInv'
<1>1. PICK start : start = StartOf(listing, cursor)
  BY Zenon
<1>2. PICK max : max = EffectiveLimit(limit)
  BY Zenon
<1>3. PICK end : end = IF start + max < Len(listing) THEN start + max ELSE Len(listing)
  BY Zenon
<1>4. PICK page : page = SubSeq(listing, start + 1, end)
  BY ZenonT(40)
<1>5. /\ seen' = seen \o page
      /\ cursor' = IF start + max < Len(listing) /\ page # <<>> THEN EncodeCursor(page[Len(page)])
                   ELSE NoCursor
      /\ walking /\ walking' = (cursor' # NoCursor)
      /\ rewound' = (rewound \/ (cursor # NoCursor /\ DecodeCursor(cursor) \notin Range(listing)))
      /\ listing' = listing /\ limit' = limit /\ steady' = steady
  BY Zenon, <1>1, <1>2, <1>3, <1>4 DEF NextPage, PaginateIds
<1>6. listing \in Seq(Id) /\ Distinct(listing) /\ seen \in Seq(Id) /\ steady \subseteq Range(listing)
  BY Zenon DEF PageInv
<1>7. max \in Nat
  BY <1>2, PageAssumption DEF PageInv, EffectiveLimit
<1>8. start \in 0 .. Len(listing) /\ Len(listing) \in Nat
  BY <1>1, <1>6, StartIs
<1>9. end \in start .. Len(listing)
  BY <1>3, <1>7, <1>8
<1>10. /\ page \in Seq(Id) /\ Len(page) = end - start /\ DOMAIN page = 1 .. end - start
       /\ \A i \in 1 .. end - start : page[i] = listing[start + i]
       /\ \A i \in DOMAIN listing : start < i /\ i <= end => listing[i] \in Range(page)
  BY <1>4, <1>6, <1>8, <1>9, PageIs, Zenon
<1>11. seen \o page \in Seq(Id) /\ Range(seen \o page) = Range(seen) \cup Range(page)
  BY <1>6, <1>10, Joined, JoinedRange, Zenon
<1>12. ASSUME OnTrack, ~rewound', max > 0 PROVE OnTrack'
  <2>1. /\ cursor = NoCursor => start = 0
        /\ cursor # NoCursor => start \in DOMAIN listing /\ listing[start] = DecodeCursor(cursor)
    BY <1>1, <1>5, <1>6, <1>12, StartIs, Zenon
  <2>2. \A i \in DOMAIN listing : i > start => listing[i] \notin Range(seen)
    <3>1. CASE cursor = NoCursor
      <4>1. Range(seen) = {}
        BY <1>5, <1>12, <3>1 DEF OnTrack, Range
      <4> QED BY <4>1, Zenon
    <3>2. CASE cursor # NoCursor
      BY <1>5, <1>12, <2>1, <3>2, Zenon DEF OnTrack
    <3> QED BY <3>1, <3>2
  <2>3. \A i \in DOMAIN listing : i <= start /\ listing[i] \in steady => listing[i] \in Range(seen)
    <3>1. CASE cursor = NoCursor
      BY <1>6, <1>8, <2>1, <3>1
    <3>2. CASE cursor # NoCursor
      <4>1. listing[start] \in Range(seen)
        <5>1. PICK id \in Range(seen) : cursor = EncodeCursor(id)
          BY <1>5, <1>12, <3>2, Zenon DEF OnTrack
        <5>2. DecodeCursor(cursor) = id
          BY <5>1 DEF EncodeCursor, DecodeCursor
        <5> QED BY <2>1, <3>2, <5>1, <5>2
      <4>2. \A i \in DOMAIN listing : i < start /\ listing[i] \in steady => listing[i] \in Range(seen)
        BY <1>5, <1>12, <2>1, <3>2, Zenon DEF OnTrack
      <4>3. \A i \in DOMAIN listing : i <= start => i < start \/ i = start
        BY <1>6, <1>8
      <4> QED BY <4>1, <4>2, <4>3, Zenon
    <3> QED BY <3>1, <3>2
  <2>4. \A i \in DOMAIN page : /\ start + i \in DOMAIN listing /\ start + i > start
                               /\ start + i <= end /\ page[i] = listing[start + i]
    BY <1>6, <1>8, <1>9, <1>10
  <2>5. Distinct(page)
    <3>1. \A i, j \in DOMAIN page : i < j => start + i < start + j
      BY <1>8, <1>10
    <3> QED BY <1>6, <2>4, <3>1, Zenon DEF Distinct
  <2>6. \A x \in Range(page) : x \notin Range(seen)
    BY <2>2, <2>4, Zenon DEF Range
  <2>7. Distinct(seen \o page)
    BY <1>6, <1>10, <1>12, <2>5, <2>6, JoinedDistinct, Zenon DEF OnTrack
  <2>8. \A i \in DOMAIN listing : i <= end /\ listing[i] \in steady => listing[i] \in Range(seen \o page)
    <3>1. \A i \in DOMAIN listing : i <= start \/ start < i
      BY <1>6, <1>8
    <3> QED BY <1>10, <1>11, <2>3, <3>1, Zenon
  <2>9. \A i \in DOMAIN listing : i > end => listing[i] \notin Range(seen \o page)
    <3>1. ASSUME NEW i \in DOMAIN listing, i > end PROVE listing[i] \notin Range(seen \o page)
      <4>1. i > start
        BY <1>6, <1>8, <1>9, <3>1
      <4>2. \A j \in DOMAIN page : start + j < i
        BY <1>6, <1>8, <1>9, <1>10, <3>1
      <4>3. listing[i] \notin Range(page)
        <5>1. ASSUME NEW j \in DOMAIN page, page[j] = listing[i] PROVE FALSE
          <6>1. start + j \in DOMAIN listing /\ listing[start + j] = listing[i] /\ start + j < i
            BY <2>4, <4>2, <5>1, Zenon
          <6> QED BY <1>6, <6>1, Zenon DEF Distinct
        <5> QED BY <5>1, Zenon DEF Range
      <4> QED BY <1>11, <2>2, <4>1, <4>3, Zenon
    <3> QED BY <3>1
  <2>10. CASE start + max < Len(listing)
    <3>1. end = start + max /\ Len(page) = max /\ max \in DOMAIN page /\ page # <<>>
      BY SMTT(30), <1>3, <1>7, <1>8, <1>10, <1>12, <2>10
    <3>2. page[max] = listing[end] /\ listing[end] \in Id /\ end \in DOMAIN listing
      BY SMTT(30), <1>6, <1>7, <1>8, <1>10, <2>4, <3>1
    <3>3. page[max] \in Range(seen \o page)
      BY <1>11, <3>1, Zenon DEF Range
    <3>4. cursor' = EncodeCursor(page[max])
      BY <1>5, <2>10, <3>1, Zenon
    <3>5. cursor' # NoCursor /\ DecodeCursor(cursor') = listing[end]
      BY <3>2, <3>4, PageAssumption DEF EncodeCursor, DecodeCursor
    <3>6. \A c \in DOMAIN listing : listing[c] = listing[end] => c = end
      BY <1>6, <1>8, <1>9, <3>2 DEF Distinct
    <3>7. \A c, i \in DOMAIN listing : listing[c] = DecodeCursor(cursor') =>
            /\ i > c => listing[i] \notin Range(seen \o page)
            /\ i < c /\ listing[i] \in steady => listing[i] \in Range(seen \o page)
      <4>1. \A i \in DOMAIN listing : i < end => i <= end
        BY <1>6, <1>8, <1>9
      <4> QED BY <2>8, <2>9, <3>5, <3>6, <4>1, Zenon
    <3>8. \E id \in Range(seen \o page) : cursor' = EncodeCursor(id)
      BY <3>3, <3>4, Zenon
    <3>9. walking'
      BY Zenon, <1>5, <3>5
    <3> QED BY <1>5, <2>7, <3>5, <3>7, <3>8, <3>9, Zenon DEF OnTrack
  <2>11. CASE ~(start + max < Len(listing))
    <3>1. end = Len(listing) /\ cursor' = NoCursor /\ ~walking'
      BY Zenon, <1>3, <1>5, <2>11
    <3>2. \A i \in DOMAIN listing : i <= end
      BY <1>6, <3>1
    <3>3. steady \subseteq Range(seen \o page)
      BY <1>6, <2>8, <3>2, Zenon DEF Range
    <3> QED BY <1>5, <2>7, <3>1, <3>3, Zenon DEF OnTrack
  <2> QED BY <2>10, <2>11
<1>13. (~rewound /\ EffectiveLimit(limit) > 0 => OnTrack)'
  <2>1. ASSUME ~rewound', EffectiveLimit(limit') > 0 PROVE OnTrack'
    <3>1. ~rewound /\ max > 0
      BY Zenon, <1>2, <1>5, <2>1
    <3>2. OnTrack
      BY <1>2, <3>1, Zenon DEF PageInv
    <3> QED BY <1>12, <2>1, <3>1, <3>2
  <2> QED BY <2>1, Zenon DEF EffectiveLimit
<1>14. limit \in {NoLimit} \cup 0 .. MaxPageSize + 1
  BY Zenon DEF PageInv
<1> QED BY <1>5, <1>6, <1>11, <1>13, <1>14, Zenon DEF PageInv

\* paginate_ids, for any list and any edits of it, of any length: a client that
\* follows the cursors is given nothing twice and, at the end, everything that was
\* listed all the time, unless a cursor's own object was deleted.
THEOREM PagesAreComplete == PageSpec => []PagesCoverList
<1>1. PageInit => PageInv
  <2> SUFFICES ASSUME PageInit PROVE PageInv
    OBVIOUS
  <2>1. PICK n \in 0 .. Cardinality(Id) : listing \in [1 .. n -> Id]
    BY DEF PageInit
  <2>2. listing \in Seq(Id)
    BY <2>1
  <2>3. Distinct(listing)
    BY Zenon DEF PageInit, Distinct
  <2>4. seen = <<>> /\ seen \in Seq(Id) /\ Distinct(seen) /\ walking /\ cursor = NoCursor
    BY DEF PageInit, Distinct
  <2>5. OnTrack
    BY <2>4, Zenon DEF OnTrack
  <2>6. steady = Range(listing) /\ limit \in {NoLimit} \cup 0 .. MaxPageSize + 1
    BY Zenon DEF PageInit
  <2> QED BY <2>2, <2>3, <2>4, <2>5, <2>6, Zenon DEF PageInv
<1>2. PageInv /\ [PageNext]_pageVars => PageInv'
  <2> SUFFICES ASSUME PageInv, [PageNext]_pageVars PROVE PageInv'
    OBVIOUS
  <2>1. CASE NextPage
    BY <2>1, NextKeeps
  <2>2. ASSUME NEW at \in DOMAIN listing, Edit(Deleted(at)) PROVE PageInv'
    <3>1. listing \in Seq(Id) /\ Distinct(listing)
      BY Zenon DEF PageInv
    <3>2. /\ Deleted(at) \in Seq(Id) /\ Distinct(Deleted(at)) /\ Follows(listing, Deleted(at))
          /\ Range(Deleted(at)) \subseteq Range(listing)
      BY <3>1, DeletedIs, DeletedFollows, Zenon
    <3> QED BY <2>2, <3>2, EditKeeps, Zenon
  <2>3. ASSUME NEW id \in Id \ (Range(listing) \cup Range(seen)), NEW at \in 0 .. Len(listing),
               Edit(Inserted(id, at))
        PROVE  PageInv'
    <3>1. listing \in Seq(Id) /\ Distinct(listing)
      BY Zenon DEF PageInv
    <3>2. id \in Id /\ id \notin Range(seen) /\ id \in Id \ Range(listing)
      BY Zenon
    <3>3. /\ Inserted(id, at) \in Seq(Id) /\ Distinct(Inserted(id, at))
          /\ Follows(listing, Inserted(id, at))
          /\ Range(Inserted(id, at)) \subseteq Range(listing) \cup {id}
      BY <3>1, <3>2, InsertedIs, InsertedFollows, Zenon
    <3> QED BY <2>3, <3>2, <3>3, EditKeeps, Zenon
  <2>4. CASE UNCHANGED pageVars
    <3>1. /\ listing' = listing /\ cursor' = cursor /\ limit' = limit /\ walking' = walking
          /\ seen' = seen /\ steady' = steady /\ rewound' = rewound
      BY <2>4 DEF pageVars
    <3>2. OnTrack => OnTrack'
      BY <3>1, Zenon DEF OnTrack
    <3> QED BY <3>1, <3>2, Zenon DEF PageInv, EffectiveLimit
  <2> QED BY <2>1, <2>2, <2>3, <2>4, Zenon DEF PageNext
<1>3. PageInv => PagesCoverList
  BY Zenon DEF PageInv, OnTrack, Distinct, PagesCoverList
<1> QED BY <1>1, <1>2, <1>3, PTL DEF PageSpec

-----------------------------------------------------------------------------
(* The error budget.                                                       *)

\* Operations runs it beside services that leave its state alone.
SloSpec == SloInit /\ [][SloNext]_sloVars

\* q is the newest part of history h, WindowSize requests of it if there are as many.
Window(q, h) ==
  /\ Len(q) = IF Len(h) > WindowSize THEN WindowSize ELSE Len(h)
  /\ \A k \in 1 .. Len(q) : q[k] = h[Len(h) - Len(q) + k]

Sample == [latency : Latency, violation : BOOLEAN]

\* After the i-th request of history h the budget was exceeded.
First(i) == IF i > WindowSize THEN i - WindowSize + 1 ELSE 1
Breach(h, i) ==
  Cardinality({k \in First(i) .. i : h[k].violation}) * 100 > BudgetPercent * (i - First(i) + 1)

SloInv ==
  /\ queue \in Seq(Sample) /\ recorded \in Seq(Sample) /\ rollbacks \in Seq(BOOLEAN)
  /\ Len(rollbacks) = Len(recorded)
  /\ Window(queue, recorded)
  /\ \A i \in 1 .. Len(recorded) : rollbacks[i] <=> Breach(recorded, i)

\* Numbering the requests from another one on does not change how many there are.
LEMMA ShiftCounts ==
  ASSUME NEW S \in SUBSET Nat, IsFiniteSet(S), NEW d \in Nat
  PROVE  Cardinality({k + d : k \in S}) = Cardinality(S) /\ Cardinality(S) \in Nat
<1> DEFINE T == {k + d : k \in S}
           g == [k \in S |-> k + d]
<1>1. g \in [S -> T] /\ \A x \in T : \E k \in S : g[k] = x
  BY Zenon
<1>2. \A k, l \in S : g[k] = g[l] => k = l
  <2> SUFFICES ASSUME NEW k \in S, NEW l \in S, g[k] = g[l] PROVE k = l
    BY Zenon
  <2>1. k + d = l + d
    BY Zenon
  <2> QED BY <2>1
<1>3. g \in Bijection(S, T)
  <2> HIDE DEF g, T
  <2>1. DOMAIN g = S
    BY Zenon, <1>1
  <2> QED BY Zenon, <1>1, <1>2, <2>1 DEF Bijection, Injection, Surjection, IsInjective
<1>4. Cardinality(T) = Cardinality(S)
  <2> HIDE DEF g, T
  <2>1. ExistsBijection(S, T)
    BY Zenon, <1>3 DEF ExistsBijection
  <2> QED BY Zenon, <2>1, FS_Bijection
<1> QED BY Zenon, <1>4, FS_CardinalityType

\* record_request pushes the sample and pops what is too much: the queue stays the
\* newest part of the history.
LEMMA WindowSlides ==
  ASSUME NEW q \in Seq(Sample), NEW h \in Seq(Sample), NEW x \in Sample, Window(q, h)
  PROVE  /\ Trim(Append(q, x)) \in Seq(Sample) /\ Append(h, x) \in Seq(Sample)
         /\ Window(Trim(Append(q, x)), Append(h, x))
<1> DEFINE p == Append(q, x)
           g == Append(h, x)
<1>1. /\ p \in Seq(Sample) /\ Len(p) = Len(q) + 1 /\ p[Len(p)] = x /\ \A k \in 1 .. Len(q) : p[k] = q[k]
      /\ g \in Seq(Sample) /\ Len(g) = Len(h) + 1 /\ g[Len(g)] = x /\ \A k \in 1 .. Len(h) : g[k] = h[k]
  OBVIOUS
<1>2. /\ Len(q) \in Nat /\ Len(h) \in Nat /\ WindowSize \in Nat /\ Len(q) <= Len(h)
      /\ Len(q) = IF Len(h) > WindowSize THEN WindowSize ELSE Len(h)
      /\ \A k \in 1 .. Len(q) : q[k] = h[Len(h) - Len(q) + k]
  <2>1. Len(q) \in Nat /\ Len(h) \in Nat /\ WindowSize \in Nat
    BY SloAssumption
  <2>2. /\ Len(q) = IF Len(h) > WindowSize THEN WindowSize ELSE Len(h)
        /\ \A k \in 1 .. Len(q) : q[k] = h[Len(h) - Len(q) + k]
    BY Zenon DEF Window
  <2>3. Len(q) <= Len(h)
    BY <2>1, <2>2
  <2> QED BY Zenon, <2>1, <2>2, <2>3
<1> HIDE DEF p, g
<1>a. /\ Len(p) = Len(q) + 1 /\ Len(g) = Len(h) + 1 /\ Len(p) \in Nat /\ Len(g) \in Nat
      /\ Len(q) \in Nat /\ Len(h) \in Nat /\ WindowSize \in Nat /\ Len(q) <= Len(h)
  BY <1>1, <1>2
<1>3. \A k \in 1 .. Len(p) : p[k] = g[Len(g) - Len(p) + k]
  <2> SUFFICES ASSUME NEW k \in 1 .. Len(p) PROVE p[k] = g[Len(g) - Len(p) + k]
    BY Zenon
  <2>1. CASE k = Len(p)
    <3>1. Len(g) - Len(p) + k = Len(g)
      BY <1>a, <2>1
    <3> QED BY Zenon, <1>1, <2>1, <3>1
  <2>2. CASE k # Len(p)
    <3>1. k \in 1 .. Len(q) /\ Len(g) - Len(p) + k = Len(h) - Len(q) + k /\ Len(h) - Len(q) + k \in 1 .. Len(h)
      BY <1>1, <1>2, <2>2
    <3> QED BY Zenon, <1>1, <1>2, <3>1
  <2> QED BY <2>1, <2>2
<1>4. CASE Len(p) > WindowSize
  <2>1. Trim(p) = SubSeq(p, Len(p) - WindowSize + 1, Len(p))
    BY Zenon, <1>4 DEF Trim
  <2>2. /\ Len(p) - WindowSize + 1 \in 1 .. Len(p) + 1 /\ Len(p) \in Nat
        /\ Len(p) - (Len(p) - WindowSize + 1) + 1 = WindowSize
    BY SMTT(30), <1>1, <1>2, <1>4
  <2>3. /\ Trim(p) \in Seq(Sample) /\ Len(Trim(p)) = WindowSize
        /\ \A k \in 1 .. WindowSize : Trim(p)[k] = p[Len(p) - WindowSize + k]
    BY SMTT(30), <1>1, <1>2, <1>4, <2>1, <2>2
  <2>4. ASSUME NEW k \in 1 .. WindowSize
        PROVE  Trim(p)[k] = g[Len(g) - WindowSize + k]
    <3>1. /\ Len(p) - WindowSize + k \in 1 .. Len(p)
          /\ Len(g) - Len(p) + (Len(p) - WindowSize + k) = Len(g) - WindowSize + k
      BY <1>a, <1>4
    <3> QED BY Zenon, <1>3, <2>3, <3>1
  <2>5. Len(g) > WindowSize
    BY <1>1, <1>2, <1>4
  <2>6. Window(Trim(p), g)
    BY Zenon, <2>3, <2>4, <2>5 DEF Window
  <2> QED BY Zenon, <1>1, <2>3, <2>6 DEF p, g
<1>5. CASE ~(Len(p) > WindowSize)
  <2>1. Trim(p) = p
    BY Zenon, <1>5 DEF Trim
  <2>2. Len(p) = Len(g) /\ ~(Len(g) > WindowSize)
    BY <1>1, <1>2, <1>5
  <2>3. Window(p, g)
    BY Zenon, <1>3, <2>2 DEF Window
  <2> QED BY Zenon, <1>1, <2>1, <2>3 DEF p, g
<1> QED BY <1>4, <1>5

\* error_budget_ratio of the queue is the ratio of the newest part of the history.
LEMMA WindowBreach ==
  ASSUME NEW q \in Seq(Sample), NEW h \in Seq(Sample), Window(q, h)
  PROVE  OverBudget(q) <=> Breach(h, Len(h))
<1> DEFINE n == Len(h)
           d == Len(h) - Len(q)
           S == {k \in DOMAIN q : q[k].violation}
           T == {k \in First(n) .. n : h[k].violation}
<1>1. /\ Len(q) \in Nat /\ n \in Nat /\ WindowSize \in Nat /\ d \in Nat /\ First(n) = d + 1
      /\ n - First(n) + 1 = Len(q) /\ DOMAIN q = 1 .. Len(q) /\ BudgetPercent \in Nat
  BY SloAssumption DEF Window, First
<1>2. \A k \in 1 .. Len(q) : q[k] = h[d + k]
  BY Zenon DEF Window
<1> HIDE DEF n, d
<1>c. \A k \in 1 .. Len(q) : k + d = d + k
  BY <1>1
<1>3. T = {k + d : k \in S}
  <2>1. ASSUME NEW k \in T PROVE \E l \in S : k = l + d
    <3>1. k - d \in 1 .. Len(q) /\ (k - d) + d = k /\ d + (k - d) = k /\ h[k].violation
      BY <1>1
    <3>2. k - d \in S
      BY Zenon, <1>1, <1>2, <3>1
    <3> QED BY Zenon, <3>1, <3>2
  <2>2. ASSUME NEW l \in S PROVE l + d \in T
    <3>1. l + d \in First(n) .. n
      BY <1>1
    <3> QED BY Zenon, <1>1, <1>2, <1>c, <3>1
  <2> QED BY Zenon, <2>1, <2>2
<1>4. S \in SUBSET Nat /\ S \in SUBSET (1 .. Len(q))
  BY <1>1
<1>5. IsFiniteSet(S)
  <2>1. IsFiniteSet(1 .. Len(q))
    BY <1>1, FS_Interval
  <2> HIDE DEF S
  <2> QED BY Zenon, <1>4, <2>1, FS_Subset
<1>6. Cardinality(T) = Cardinality(S) /\ Cardinality(S) \in Nat
  <2> HIDE DEF S, T
  <2> QED BY Zenon, <1>1, <1>3, <1>4, <1>5, ShiftCounts
<1>7. Violations(q) = Cardinality(S)
      /\ (Breach(h, n) <=> Cardinality(T) * 100 > BudgetPercent * (n - First(n) + 1))
  BY Zenon DEF Violations, Breach
<1>8. q = <<>> => ~(Cardinality(S) * 100 > BudgetPercent * Len(q))
  <2>1. ASSUME q = <<>> PROVE S = {} /\ Len(q) = 0
    BY <2>1
  <2>2. ASSUME q = <<>> PROVE Cardinality(S) = 0
    BY Zenon, <2>1, <2>2, FS_EmptySet
  <2> HIDE DEF S
  <2> QED BY <1>1, <2>1, <2>2
<1> HIDE DEF S, T
<1>9. OverBudget(q) <=> Cardinality(S) * 100 > BudgetPercent * Len(q)
  BY Zenon, <1>7, <1>8 DEF OverBudget
<1>10. Breach(h, n) <=> Cardinality(S) * 100 > BudgetPercent * Len(q)
  BY Zenon, <1>1, <1>6, <1>7
<1> QED BY Zenon, <1>9, <1>10 DEF n

\* A new SloTracker has empty windows.
LEMMA SloStarts == SloInit => SloInv
  BY SloAssumption DEF SloInit, SloInv, Window

\* record_request adds a sample, slides the window and compares it with the budget.
LEMMA SloKeeps ==
  ASSUME SloInv, [SloNext]_sloVars
  PROVE  SloInv'
<1>1. ASSUME UNCHANGED sloVars PROVE SloInv'
  BY Zenon, <1>1 DEF sloVars, SloInv
<1>2. ASSUME NEW l \in Latency, NEW e \in BOOLEAN, RecordRequest(l, e) PROVE SloInv'
  <2> DEFINE x == [latency |-> l, violation |-> e \/ l > Threshold]
  <2>1. x \in Sample
    BY DEF Sample
  <2>2. /\ queue' = Trim(Append(queue, x)) /\ recorded' = Append(recorded, x)
        /\ rollbacks' = Append(rollbacks, OverBudget(queue'))
    BY Zenon, <1>2 DEF RecordRequest
  <2> HIDE DEF x
  <2>3. queue' \in Seq(Sample) /\ recorded' \in Seq(Sample) /\ Window(queue', recorded')
    BY Zenon, <2>1, <2>2, WindowSlides DEF SloInv
  <2>4. OverBudget(queue') <=> Breach(recorded', Len(recorded'))
    BY Zenon, <2>3, WindowBreach
  <2>5. OverBudget(queue') \in BOOLEAN
    BY Zenon DEF OverBudget
  <2> DEFINE b == OverBudget(queue')
  <2>6. /\ rollbacks' = Append(rollbacks, b) /\ b \in BOOLEAN
        /\ b <=> Breach(recorded', Len(recorded'))
    BY Zenon, <2>2, <2>4, <2>5
  <2> HIDE DEF b
  <2>7. /\ rollbacks' \in Seq(BOOLEAN) /\ Len(rollbacks') = Len(rollbacks) + 1
        /\ Len(recorded') = Len(recorded) + 1 /\ Len(recorded) \in Nat
    BY <2>1, <2>2, <2>6 DEF SloInv
  <2>8. ASSUME NEW i \in 1 .. Len(recorded') PROVE rollbacks'[i] <=> Breach(recorded', i)
    <3>1. CASE i = Len(recorded')
      <4>1. rollbacks'[i] = b
        BY <2>6, <2>7, <3>1 DEF SloInv
      <4> QED BY Zenon, <2>6, <3>1, <4>1
    <3>2. CASE i # Len(recorded')
      <4>1. i \in 1 .. Len(recorded) /\ i \in 1 .. Len(rollbacks)
        BY <2>7, <3>2 DEF SloInv
      <4>2. rollbacks'[i] = rollbacks[i]
        BY <2>6, <4>1 DEF SloInv
      <4>3. \A k \in First(i) .. i : recorded'[k] = recorded[k]
        BY <2>1, <2>2, <4>1, SloAssumption DEF First, SloInv
      <4>4. {k \in First(i) .. i : recorded'[k].violation} = {k \in First(i) .. i : recorded[k].violation}
        BY Zenon, <4>3
      <4>5. Breach(recorded', i) <=> Breach(recorded, i)
        BY Zenon, <4>4 DEF Breach
      <4> QED BY Zenon, <4>1, <4>2, <4>5 DEF SloInv
    <3> QED BY <3>1, <3>2
  <2>9. Len(rollbacks') = Len(recorded')
    BY Zenon, <2>7 DEF SloInv
  <2> QED BY Zenon, <2>3, <2>7, <2>8, <2>9 DEF SloInv
<1> QED BY Zenon, <1>1, <1>2 DEF SloNext

\* record_request sends a RollbackEvent for exactly the requests after which more
\* than the budgeted share of the last WindowSize requests were violations.
THEOREM RollbacksFollowBudget == SloSpec => []RollbackOnBreach
<1>1. SloInv /\ [SloNext]_sloVars => SloInv'
  BY Zenon, SloKeeps
<1>2. SloInv => RollbackOnBreach
  <2> SUFFICES ASSUME SloInv PROVE RollbackOnBreach
    OBVIOUS
  <2>1. DOMAIN recorded = 1 .. Len(recorded)
    BY DEF SloInv
  <2> QED BY Zenon, <2>1 DEF SloInv, RollbackOnBreach, Breach, First
<1> QED BY SloStarts, <1>1, <1>2, PTL DEF SloSpec

\* The sort of p95_latency has a sample for every place.
LEMMA PlacesFilled ==
  ASSUME NEW q, NEW n \in Nat, DOMAIN q = 1 .. n, \A i \in 1 .. n : q[i].latency \in Nat,
         NEW r \in 1 .. n
  PROVE  \E i \in 1 .. n : Place(q, i) = r
<1> DEFINE Before(i) == {j \in 1 .. n : NoLater(q, j, i)}
<1>1. IsFiniteSet(1 .. n) /\ Cardinality(1 .. n) = n
  BY FS_Interval
<1>2. ASSUME NEW i \in 1 .. n
      PROVE  Before(i) \in SUBSET (1 .. n) /\ i \in Before(i) /\ IsFiniteSet(Before(i))
             /\ Cardinality(Before(i)) \in 1 .. n
  <2>1. Before(i) \in SUBSET (1 .. n) /\ i \in Before(i)
    BY DEF NoLater
  <2> HIDE DEF Before
  <2>2. IsFiniteSet(Before(i)) /\ Cardinality(Before(i)) <= n
    <3>1. PICK S, T : S = 1 .. n /\ T = Before(i)
      BY Zenon
    <3>2. IsFiniteSet(S) /\ T \in SUBSET S
      BY <1>1, <2>1, <3>1, Zenon
    <3>3. IsFiniteSet(T) /\ Cardinality(T) <= Cardinality(S)
      BY <3>2, FS_Subset, Zenon
    <3> QED BY <1>1, <3>1, <3>3, Zenon
  <2>3. Cardinality(Before(i)) \in Nat /\ Cardinality(Before(i)) # 0
    BY <2>1, <2>2, FS_CardinalityType, FS_EmptySet, Zenon
  <2> QED BY SMTT(30), <2>1, <2>2, <2>3
<1>3. ASSUME NEW i \in 1 .. n, NEW j \in 1 .. n, i # j, NoLater(q, i, j)
      PROVE  Cardinality(Before(i)) # Cardinality(Before(j))
  <2>1. Before(i) \subseteq Before(j) /\ j \notin Before(i)
    BY <1>3 DEF NoLater
  <2>2. j \in Before(j) /\ IsFiniteSet(Before(j))
    BY <1>2, Zenon
  <2> HIDE DEF Before
  <2> QED BY <2>1, <2>2, FS_Subset, Zenon
<1>4. \A i, j \in 1 .. n : NoLater(q, i, j) \/ NoLater(q, j, i)
  BY DEF NoLater
<1>5. PICK place : place = [i \in 1 .. n |-> Cardinality(Before(i))]
  <2> HIDE DEF Before
  <2> QED BY Zenon
<1>6. place \in [1 .. n -> 1 .. n] /\ \A i, j \in 1 .. n : place[i] = place[j] => i = j
  <2> HIDE DEF Before
  <2>1. \A i \in 1 .. n : place[i] = Cardinality(Before(i)) /\ place[i] \in 1 .. n
    BY <1>2, <1>5, Zenon
  <2>2. place \in [1 .. n -> 1 .. n]
    BY <1>5, <2>1, Zenon
  <2> QED BY <1>3, <1>4, <2>1, <2>2, Zenon
<1>7. place \in Surjection(1 .. n, 1 .. n)
  <2>1. place \in Injection(1 .. n, 1 .. n)
    BY <1>6, Zenon DEF Injection, IsInjective
  <2> QED BY <1>1, <2>1, FS_Injection, Zenon
<1>8. PICK i \in 1 .. n : place[i] = r
  BY <1>7, Zenon DEF Surjection
<1>9. Place(q, i) = place[i]
  BY <1>5, Zenon DEF Place
<1> QED BY <1>8, <1>9, Zenon

\* The sample at place ceil(0.95 n): at least 95 percent of the samples are no slower,
\* and of those that are faster than it there are fewer.
LEMMA QuantileOf ==
  ASSUME NEW q, NEW n \in Nat, n # 0, DOMAIN q = 1 .. n, Len(q) = n,
         \A i \in 1 .. n : q[i].latency \in Nat
  PROVE  /\ Share(q, P95(q)) >= 95 * n
         /\ \A l \in Nat : Share(q, l) >= 95 * n => l >= P95(q)
<1>1. PICK c : c = (n * 95 + 99) \div 100
  BY Zenon
<1>2. c \in 1 .. n /\ c * 100 >= 95 * n /\ (c - 1) * 100 < 95 * n
  BY <1>1
<1>3. P95(q) = Sorted(q, c)
  BY <1>1, <1>2 DEF P95
<1>4. PICK i : i = CHOOSE k \in DOMAIN q : Place(q, k) = c
  BY Zenon
<1>5. i \in 1 .. n /\ Place(q, i) = c
  <2>1. \E k \in 1 .. n : Place(q, k) = c
    BY <1>2, PlacesFilled
  <2> QED BY <1>4, <2>1, Zenon
<1>6. P95(q) = q[i].latency
  BY <1>3, <1>4, Zenon DEF Sorted
<1>7. PICK B : B = {j \in 1 .. n : NoLater(q, j, i)}
  BY Zenon
<1>8. Cardinality(B) = c
  BY <1>5, <1>7, Zenon DEF Place
<1>9. IsFiniteSet(1 .. n)
  BY FS_Interval
<1>10. Share(q, q[i].latency) >= 95 * n
  <2>1. PICK U : U = {j \in 1 .. n : q[j].latency <= q[i].latency}
    BY Zenon
  <2>2. U \in SUBSET (1 .. n) /\ B \in SUBSET U
    BY <1>5, <1>7, <2>1 DEF NoLater
  <2>3. IsFiniteSet(U) /\ Cardinality(U) \in Nat /\ Cardinality(B) <= Cardinality(U)
    BY <1>9, <2>2, FS_Subset, FS_CardinalityType, Zenon
  <2>4. Share(q, q[i].latency) = Cardinality(U) * 100
    BY <2>1, Zenon DEF Share
  <2>5. Cardinality(U) * 100 >= 95 * n
    BY <1>2, <1>8, <2>3
  <2> QED BY <2>4, <2>5, Zenon
<1>11. ASSUME NEW l \in Nat, Share(q, l) >= 95 * n PROVE l >= q[i].latency
  <2> SUFFICES ASSUME l < q[i].latency PROVE FALSE
    BY <1>5
  <2>1. PICK U : U = {j \in 1 .. n : q[j].latency <= l}
    BY Zenon
  <2>2. U \in SUBSET (B \ {i}) /\ i \in B /\ B \in SUBSET (1 .. n)
    BY <1>5, <1>7, <2>1 DEF NoLater
  <2>3. IsFiniteSet(B)
    BY <1>9, <2>2, FS_Subset, Zenon
  <2>4. IsFiniteSet(B \ {i}) /\ Cardinality(B \ {i}) = Cardinality(B) - 1
    BY <2>2, <2>3, FS_RemoveElement, Zenon
  <2>5. IsFiniteSet(U) /\ Cardinality(U) <= Cardinality(B \ {i})
    BY <2>2, <2>4, FS_Subset, Zenon
  <2>6. Cardinality(U) \in Nat
    BY <2>5, FS_CardinalityType, Zenon
  <2>7. Share(q, l) = Cardinality(U) * 100
    BY <2>1, Zenon DEF Share
  <2>8. Cardinality(U) * 100 >= 95 * n
    BY <1>11, <2>7, Zenon
  <2> QED BY SMTT(30), <1>2, <1>8, <2>4, <2>5, <2>6, <2>8
<1> QED BY <1>6, <1>10, <1>11, Zenon

\* p95_latency of the window is the least latency that at least 95 percent of the
\* requests in it do not exceed, for every window and any latencies.
THEOREM PercentileIsQuantile == SloSpec => []P95IsQuantile
<1>1. SloInv /\ [SloNext]_sloVars => SloInv'
  BY Zenon, SloKeeps
<1>2. SloInv => P95IsQuantile
  <2> SUFFICES ASSUME queue \in Seq(Sample), queue # <<>>
               PROVE  /\ Share(queue, P95(queue)) >= 95 * Len(queue)
                      /\ \A l \in Latency : Share(queue, l) >= 95 * Len(queue) => l >= P95(queue)
    BY Zenon DEF SloInv, P95IsQuantile
  <2>1. PICK n \in Nat : n = Len(queue) /\ n # 0 /\ DOMAIN queue = 1 .. n
    OBVIOUS
  <2>2. \A i \in 1 .. n : queue[i].latency \in Nat
    <3>1. \A i \in 1 .. n : queue[i] \in Sample
      BY <2>1
    <3>2. ASSUME NEW x \in Sample PROVE x.latency \in Nat
      <4>1. x.latency \in Latency
        BY DEF Sample
      <4> QED BY <4>1, SloAssumption, Zenon
    <3> QED BY <3>1, <3>2, Zenon
  <2>3. \A l \in Latency : l \in Nat
    BY SloAssumption, Zenon
  <2> QED BY <2>1, <2>2, <2>3, QuantileOf, Zenon
<1> QED BY SloStarts, <1>1, <1>2, PTL DEF SloSpec

-----------------------------------------------------------------------------
(* Background tasks.                                                       *)

\* Operations runs it beside services that leave its state alone.
TrafficSpec == TrafficInit /\ [][TrafficNext]_trafficVars

\* The requests that hold a guard.
Busy == {c \in Client : client[c] = "busy"}

\* A task that has seen clients, and did not miss a notification since, and so has
\* either clients left or a notification to come; likewise for background tasks.
ClientsRemain == client_in_flight > 0 \/ \E c \in Client : client[c] = "leaving"
TasksRemain == active_background >= BackgroundLimit \/ \E u \in Background : task[u] = "notify"

TrafficTypes ==
  /\ client \in [Client -> {"idle", "busy", "leaving"}]
  /\ task \in [Background -> {"idle", "load", "loaded", "sleepy", "asleep", "go", "running", "notify"}]
  /\ clients_read \in [Background -> Nat]
  /\ client_in_flight \in Nat /\ active_background \in Int
  /\ client_in_flight = Cardinality(Busy)

TrafficInv ==
  /\ TrafficTypes
  /\ \A t \in Background \ missed : task[t] = "loaded" /\ clients_read[t] # 0 => ClientsRemain
  /\ \A t \in Background \ missed : task[t] \in {"sleepy", "asleep"} => ClientsRemain /\ TasksRemain

\* acquire_client and the drop of its guard count the requests with a guard.
LEMMA BusyCounts ==
  ASSUME TrafficTypes, NEW c \in Client
  PROVE  /\ client[c] # "busy" => Cardinality(Busy \cup {c}) = Cardinality(Busy) + 1
         /\ client[c] = "busy" => Cardinality(Busy \ {c}) = Cardinality(Busy) - 1
                                  /\ Cardinality(Busy) - 1 \in Nat
<1>1. IsFiniteSet(Busy)
  BY TrafficAssumption, FS_Subset DEF Busy
<1>2. c \in Busy <=> client[c] = "busy"
  BY DEF Busy
<1>3. Cardinality(Busy \cup {c}) = IF c \in Busy THEN Cardinality(Busy) ELSE Cardinality(Busy) + 1
  BY <1>1, FS_AddElement
<1>4. IsFiniteSet(Busy \ {c}) /\ Cardinality(Busy \ {c}) = IF c \in Busy THEN Cardinality(Busy) - 1 ELSE Cardinality(Busy)
  BY <1>1, FS_RemoveElement
<1>5. Cardinality(Busy \ {c}) \in Nat
  BY <1>4, FS_CardinalityType
<1> QED
  BY SMTT(30), <1>2, <1>3, <1>4, <1>5

\* A new TrafficPriorityController counts nobody.
LEMMA TrafficStarts == TrafficInit => TrafficInv
<1> SUFFICES ASSUME TrafficInit PROVE TrafficInv
  OBVIOUS
<1>1. Busy = {}
  BY DEF Busy, TrafficInit
<1>2. Cardinality(Busy) = 0
  BY <1>1, FS_EmptySet
<1> QED
  BY <1>2 DEF TrafficInv, TrafficTypes, TrafficInit

\* Each access to a counter and each notification keeps the invariant.
LEMMA TrafficKeeps ==
  ASSUME TrafficInv, [TrafficNext]_trafficVars
  PROVE  TrafficInv'
<1> USE TrafficAssumption
<1>1. ASSUME NEW c \in Client, AcquireClient(c) PROVE TrafficInv'
  <2>1. Busy' = Busy \cup {c} /\ client[c] # "busy"
    BY <1>1 DEF AcquireClient, Busy, TrafficInv, TrafficTypes
  <2>2. client_in_flight' = Cardinality(Busy')
    <3>1. Cardinality(Busy \cup {c}) = Cardinality(Busy) + 1
      BY Zenon, <2>1, BusyCounts DEF TrafficInv
    <3> QED BY Zenon, <1>1, <2>1, <3>1 DEF AcquireClient, TrafficInv, TrafficTypes
  <2> QED
    BY <1>1, <2>2 DEF AcquireClient, TrafficInv, TrafficTypes, ClientsRemain, TasksRemain
<1>2. ASSUME NEW c \in Client, ReleaseClient(c) PROVE TrafficInv'
  <2>1. Busy' = Busy \ {c} /\ client[c] = "busy"
    BY <1>2 DEF ReleaseClient, Busy, TrafficInv, TrafficTypes
  <2>2. client_in_flight' = Cardinality(Busy') /\ client_in_flight' \in Nat
    <3>1. Cardinality(Busy \ {c}) = Cardinality(Busy) - 1 /\ Cardinality(Busy) - 1 \in Nat
      BY Zenon, <2>1, BusyCounts DEF TrafficInv
    <3> QED BY Zenon, <1>2, <2>1, <3>1 DEF ReleaseClient, TrafficInv, TrafficTypes
  <2>3. client'[c] = "leaving"
    BY SMTT(30), <1>2 DEF ReleaseClient, TrafficInv, TrafficTypes
  <2> QED
    BY SMTT(30), <1>2, <2>2, <2>3 DEF ReleaseClient, TrafficInv, TrafficTypes, ClientsRemain, TasksRemain
<1>3. ASSUME NEW c \in Client, NotifyRelease(c) PROVE TrafficInv'
  <2>1. Busy' = Busy
    BY <1>3 DEF NotifyRelease, Busy, TrafficInv, TrafficTypes
  <2>2. \A t \in Background \ missed' : task'[t] \notin {"loaded", "sleepy", "asleep"}
    BY <1>3 DEF NotifyRelease, Woken, NotWoken
  <2>3. TrafficTypes'
    BY <1>3, <2>1 DEF NotifyRelease, TrafficInv, TrafficTypes, Woken
  <2> QED
    BY <2>2, <2>3 DEF TrafficInv
<1>4. ASSUME NEW t \in Background, NotifyLeave(t) PROVE TrafficInv'
  <2>1. Busy' = Busy
    BY <1>4 DEF NotifyLeave, Busy
  <2>2. \A u \in Background \ missed' : task'[u] \notin {"loaded", "sleepy", "asleep"}
    BY <1>4 DEF NotifyLeave, Woken, NotWoken, TrafficInv, TrafficTypes
  <2>3. TrafficTypes'
    BY <1>4, <2>1 DEF NotifyLeave, TrafficInv, TrafficTypes, Woken
  <2> QED
    BY <2>2, <2>3 DEF TrafficInv
<1>5. ASSUME NEW t \in Background,
             StartBackground(t) \/ LoadClients(t) \/ LoadBackground(t) \/ Sleep(t)
             \/ EnterBackground(t) \/ LeaveBackground(t)
      PROVE  TrafficInv'
  <2>1. Busy' = Busy /\ client' = client /\ client_in_flight' = client_in_flight
    BY <1>5 DEF Busy, StartBackground, LoadClients, LoadBackground, Sleep, EnterBackground, LeaveBackground
  <2>2. ClientsRemain' <=> ClientsRemain
    BY <2>1 DEF ClientsRemain
  <2>3. CASE StartBackground(t)
    BY SMTT(30), <2>1, <2>2, <2>3 DEF StartBackground, TaskTo, TrafficInv, TrafficTypes, TasksRemain
  <2>4. CASE LoadClients(t)
    <3>1. client_in_flight # 0 => ClientsRemain
      BY DEF ClientsRemain, TrafficInv, TrafficTypes
    <3> QED
      BY SMTT(30), <2>1, <2>2, <2>4, <3>1 DEF LoadClients, TaskTo, TrafficInv, TrafficTypes, TasksRemain
  <2>5. CASE LoadBackground(t)
    BY SMTT(30), <2>1, <2>2, <2>5 DEF LoadBackground, TaskTo, TrafficInv, TrafficTypes, TasksRemain
  <2>6. CASE Sleep(t)
    BY SMTT(30), <2>1, <2>2, <2>6 DEF Sleep, TaskTo, TrafficInv, TrafficTypes, TasksRemain
  <2>7. CASE EnterBackground(t)
    BY SMTT(30), <2>1, <2>2, <2>7 DEF EnterBackground, TaskTo, TrafficInv, TrafficTypes, TasksRemain
  <2>8. CASE LeaveBackground(t)
    <3>1. task'[t] = "notify" /\ t \in Background
      BY <2>8 DEF LeaveBackground, TaskTo, TrafficInv, TrafficTypes
    <3> QED
      BY SMTT(30), <2>1, <2>2, <2>8, <3>1 DEF LeaveBackground, TaskTo, TrafficInv, TrafficTypes, TasksRemain
  <2> QED
    BY SMTT(30), <1>5, <2>3, <2>4, <2>5, <2>6, <2>7, <2>8
<1>6. ASSUME UNCHANGED trafficVars PROVE TrafficInv'
  BY SMTT(30), <1>6 DEF trafficVars, TrafficInv, TrafficTypes, Busy, ClientsRemain, TasksRemain
<1> QED
  BY SMTT(30), <1>1, <1>2, <1>3, <1>4, <1>5, <1>6 DEF TrafficNext

\* background_yield_if_needed: a task that did not miss a notification sleeps only
\* while clients and background tasks keep it from running, or until one that is
\* just finishing notifies it.
THEOREM NobodySleepsInVain == TrafficSpec => []SleepsOnlyIfBlocked
<1>1. TrafficInv /\ [TrafficNext]_trafficVars => TrafficInv'
  BY Zenon, TrafficKeeps
<1>2. TrafficInv => SleepsOnlyIfBlocked
  BY DEF TrafficInv, SleepsOnlyIfBlocked, ClientsRemain, TasksRemain
<1> QED BY TrafficStarts, <1>1, <1>2, PTL DEF TrafficSpec

-----------------------------------------------------------------------------
(* Connections.                                                            *)

\* Clients send any of the frames, as often as they like, while others log in,
\* refresh, log out and time passes.
AuthStep ==
  /\ \/ AuthTick
     \/ \E id \in DOMAIN users : Login(id)
     \/ \E k \in Caller : \/ IssuePair(k) \/ (\E u \in Username : BeginLogin(k, u))
                          \/ \E s \in sessions : BeginRefresh(k, s)
     \/ \E s \in sessions : Logout(s)
  /\ UNCHANGED serverVars
ServerStep(frames) == \E most \in Nat : ServerNext(Conn, Conn, frames, most, BOOLEAN)
ServerSpec(frames) ==
  /\ AuthReady /\ sessions = {Session(KnownUser)} /\ ServerInit
  /\ [][ServerStep(frames) \/ AuthStep]_<<authVars, serverVars>>

Fields == DOMAIN NewConn
Alive == {c \in Conn : Live(c)}

Accesses == {s.access : s \in sessions}

\* The token that clients have is some session's.
Issued ==
  /\ \A s \in sessions : DOMAIN s = {"user", "iat", "process", "out", "access", "refresh"}
  /\ ClientToken \in Accesses

\* A connection for which login has succeeded: it has sent the known user's password,
\* and its token is of a session of this user.
Right(r, tokens) ==
  r.pc = "verify_issued" => /\ r.token.sub = KnownUser /\ r.token \in tokens
                            /\ ArgumentsOf(r.cmd) = <<"user", "right">>

\* Every task holds a permit.
Admitted ==
  /\ conn = [c \in Conn |-> conn[c]]
  /\ \A c \in Conn : DOMAIN conn[c] = Fields /\ Right(conn[c], Accesses)
  /\ permits \in Nat /\ Cardinality(Alive) + permits = MaxConnections

\* Sessions may be added, and logged out; their tokens stay.
Kept == Accesses \subseteq Accesses'

\* How a step may change one connection: its record becomes r.
Becomes(c, r) == Set(c, r) /\ DOMAIN r = Fields /\ Right(r, Accesses') /\ Kept
SameUser(c, r) == r.user = conn[c].user /\ r.executed = conn[c].executed

Stays(c) == \E r : /\ Becomes(c, r) /\ SameUser(c, r) /\ PhaseOf(r.pc) = PhaseOf(conn[c].pc)
                   /\ UNCHANGED permits
Leaves(c) == \E r : /\ Becomes(c, r) /\ SameUser(c, r) /\ r.pc = "ended" /\ Live(c)
                    /\ permits' = permits + 1
Opens(c) == \E r : /\ Becomes(c, r) /\ SameUser(c, r) /\ PhaseOf(r.pc) = "open"
                   /\ PhaseOf(conn[c].pc) = "away" /\ permits > 0 /\ permits' = permits - 1
Enters(c) == \E r : /\ Becomes(c, r) /\ r.user = Shown[c] /\ Shown[c] \in Valid /\ r.executed = conn[c].executed
                    /\ PhaseOf(r.pc) = "entered" /\ PhaseOf(conn[c].pc) = "open" /\ UNCHANGED permits
Executes(c) == \E r : /\ Becomes(c, r) /\ r.user = conn[c].user /\ r.executed = conn[c].executed + 1
                      /\ PhaseOf(r.pc) = "entered" /\ PhaseOf(conn[c].pc) = "entered"
                      /\ UNCHANGED permits

\* A task is alive exactly if its connection is open or entered.
LEMMA LivePhase ==
  ASSUME NEW c \in Conn
  PROVE  Live(c) <=> PhaseOf(conn[c].pc) \in {"open", "entered"}
BY DEF Live, PhaseOf

\* What Sessions sees of a connection that changes.
LEMMA Replaced ==
  ASSUME Admitted, NEW c \in Conn, NEW r, Becomes(c, r)
  PROVE  /\ PhaseOf(r.pc) = "open" => Phases' = [Phases EXCEPT ![c] = "open"]
         /\ PhaseOf(r.pc) = "entered" => Phases' = [Phases EXCEPT ![c] = "entered"]
         /\ PhaseOf(r.pc) = "gone" => Phases' = [Phases EXCEPT ![c] = "gone"]
         /\ PhaseOf(r.pc) = PhaseOf(conn[c].pc) => Phases' = Phases
         /\ Entrants' = [Entrants EXCEPT ![c] = r.user]
         /\ r.user = conn[c].user => Entrants' = Entrants
         /\ r.executed = conn[c].executed => Executions' = Executions
         /\ r.executed = conn[c].executed + 1 => Executions' = [Executions EXCEPT ![c] = @ + 1]
         /\ conn' = [d \in Conn |-> conn'[d]]
         /\ \A d \in Conn : DOMAIN conn'[d] = Fields /\ Right(conn'[d], Accesses')
         /\ \A d \in Conn \ {c} : conn'[d] = conn[d]
         /\ conn'[c] = r
<1>1. /\ conn' = [d \in Conn |-> conn'[d]]
      /\ \A d \in Conn \ {c} : conn'[d] = conn[d]
      /\ conn'[c] = r
  BY DEF Becomes, Set, Admitted
<1>2. \A d \in Conn : DOMAIN conn'[d] = Fields /\ Right(conn'[d], Accesses')
  BY <1>1, Zenon DEF Becomes, Admitted, Right, Kept
<1>3. /\ PhaseOf(r.pc) = "open" => Phases' = [Phases EXCEPT ![c] = "open"]
      /\ PhaseOf(r.pc) = "entered" => Phases' = [Phases EXCEPT ![c] = "entered"]
      /\ PhaseOf(r.pc) = "gone" => Phases' = [Phases EXCEPT ![c] = "gone"]
  BY Zenon, <1>1 DEF Phases
<1>4. PhaseOf(r.pc) = PhaseOf(conn[c].pc) => Phases' = Phases
  BY <1>1 DEF Phases
<1>5. Entrants' = [Entrants EXCEPT ![c] = r.user]
  BY Zenon, <1>1 DEF Entrants
<1>6. r.user = conn[c].user => Entrants' = Entrants
  BY <1>1 DEF Entrants
<1>7. r.executed = conn[c].executed => Executions' = Executions
  BY <1>1 DEF Executions
<1>8. r.executed = conn[c].executed + 1 => Executions' = [Executions EXCEPT ![c] = @ + 1]
  BY Zenon, <1>1 DEF Executions
<1> QED BY <1>1, <1>2, <1>3, <1>4, <1>5, <1>6, <1>7, <1>8, Zenon

\* The tasks alive when a connection changes.
LEMMA AliveCounts ==
  ASSUME Admitted, NEW c \in Conn, NEW r, Becomes(c, r)
  PROVE  /\ IsFiniteSet(Alive) /\ Cardinality(Alive) \in Nat
         /\ PhaseOf(r.pc) \in {"open", "entered"} /\ Live(c) => Alive' = Alive
         /\ PhaseOf(r.pc) \notin {"open", "entered"} /\ ~Live(c) => Alive' = Alive
         /\ PhaseOf(r.pc) \in {"open", "entered"} /\ ~Live(c) =>
              Cardinality(Alive') = Cardinality(Alive) + 1
         /\ PhaseOf(r.pc) \notin {"open", "entered"} /\ Live(c) =>
              Cardinality(Alive') = Cardinality(Alive) - 1
<1>1. IsFiniteSet(Alive)
  BY ServerAssumption, FS_Subset DEF Alive
<1>2. Cardinality(Alive) \in Nat
  BY <1>1, FS_CardinalityType
<1>3. /\ conn'[c] = r
      /\ \A d \in Conn \ {c} : conn'[d] = conn[d]
  BY Replaced, Zenon
<1>4. \A d \in Conn \ {c} : Live(d)' <=> Live(d)
  BY <1>3, Zenon DEF Live
<1>5. Live(c)' <=> PhaseOf(r.pc) \in {"open", "entered"}
  BY <1>3 DEF Live, PhaseOf
<1>6. ASSUME PhaseOf(r.pc) \in {"open", "entered"} PROVE Alive' = Alive \cup {c}
  BY <1>4, <1>5, <1>6, Zenon DEF Alive
<1>7. ASSUME PhaseOf(r.pc) \notin {"open", "entered"} PROVE Alive' = Alive \ {c}
  BY <1>4, <1>5, <1>7, Zenon DEF Alive
<1>8. ASSUME Live(c) PROVE c \in Alive
  BY <1>8, Zenon DEF Alive
<1>9. ASSUME ~Live(c) PROVE c \notin Alive
  BY <1>9, Zenon DEF Alive
<1>10. ASSUME c \in Alive PROVE Alive \cup {c} = Alive /\ Cardinality(Alive \ {c}) = Cardinality(Alive) - 1
  BY <1>1, <1>10, FS_RemoveElement
<1>11. ASSUME c \notin Alive PROVE Alive \ {c} = Alive /\ Cardinality(Alive \cup {c}) = Cardinality(Alive) + 1
  BY <1>1, <1>11, FS_AddElement
<1> QED
  BY <1>1, <1>2, <1>6, <1>7, <1>8, <1>9, <1>10, <1>11, Zenon

\* Sessions sees the phase of a connection.
LEMMA PhaseSeen == \A c \in Conn : Phases[c] = PhaseOf(conn[c].pc)
BY DEF Phases

\* What Sessions calls present are the tasks alive.
LEMMA PresentIsAlive == Promised!Present = Alive
<1>1. \A c \in Conn : Phases[c] \in {"open", "entered"} <=> Live(c)
  BY PhaseSeen, LivePhase, Zenon
<1> QED BY <1>1, Zenon DEF Promised!Present, Alive

\* Sessions counts as Server does.
LEMMA SameCardinality == \A S : Promised!Cardinality(S) = Cardinality(S)
BY Zenon DEF Promised!Cardinality, Cardinality

\* A connection that stays what it is to Sessions.
LEMMA StaysKeeps ==
  ASSUME Admitted, NEW c \in Conn, Stays(c), UNCHANGED server
  PROVE  Admitted' /\ UNCHANGED Promised!vars
<1>1. PICK r : /\ Becomes(c, r) /\ SameUser(c, r) /\ PhaseOf(r.pc) = PhaseOf(conn[c].pc)
               /\ UNCHANGED permits
  BY Zenon DEF Stays
<1>2. Alive' = Alive
  BY <1>1, AliveCounts, LivePhase, Zenon
<1>3. Admitted'
  BY <1>1, <1>2, Replaced, Zenon DEF Admitted
<1>4. Phases' = Phases /\ Entrants' = Entrants /\ Executions' = Executions
  BY <1>1, Replaced, Zenon DEF SameUser
<1>5. Serving' = Serving
  BY DEF Serving
<1> QED
  BY <1>3, <1>4, <1>5, Zenon DEF Promised!vars

\* A task that ends gives its permit back.
LEMMA LeavesKeeps ==
  ASSUME Admitted, NEW c \in Conn, Leaves(c), UNCHANGED server
  PROVE  Admitted' /\ Promised!Leave(c)
<1>1. PICK r : /\ Becomes(c, r) /\ SameUser(c, r) /\ r.pc = "ended" /\ Live(c)
               /\ permits' = permits + 1
  BY Zenon DEF Leaves
<1>2. PhaseOf(r.pc) = "gone"
  BY <1>1 DEF PhaseOf
<1>3. Cardinality(Alive') = Cardinality(Alive) - 1 /\ Cardinality(Alive) \in Nat
  BY <1>1, <1>2, AliveCounts
<1>4. permits' \in Nat /\ Cardinality(Alive') + permits' = MaxConnections
  BY <1>1, <1>3, ServerAssumption DEF Admitted
<1>5. Admitted'
  BY <1>1, <1>4, Replaced, Zenon DEF Admitted
<1>6. /\ Phases' = [Phases EXCEPT ![c] = "gone"]
      /\ Entrants' = Entrants /\ Executions' = Executions
  <2>1. Phases' = [Phases EXCEPT ![c] = "gone"]
    BY <1>1, <1>2, Replaced, Zenon
  <2>2. Entrants' = Entrants /\ Executions' = Executions
    BY <1>1, Replaced, Zenon DEF SameUser
  <2> QED BY <2>1, <2>2, Zenon
<1>7. c \in Promised!Present
  BY <1>1, PresentIsAlive, Zenon DEF Alive
<1>8. Serving' = Serving
  BY DEF Serving
<1> QED
  BY <1>5, <1>6, <1>7, <1>8, Zenon DEF Promised!Leave

\* A connection that is accepted takes a permit.
LEMMA OpensKeeps ==
  ASSUME Admitted, NEW c \in Conn, Opens(c), server = "up", UNCHANGED server
  PROVE  Admitted' /\ Promised!Open(c)
<1>1. PICK r : /\ Becomes(c, r) /\ SameUser(c, r) /\ PhaseOf(r.pc) = "open"
               /\ PhaseOf(conn[c].pc) = "away" /\ permits > 0 /\ permits' = permits - 1
  BY Zenon DEF Opens
<1>2. ~Live(c)
  BY SMTT(30), <1>1, LivePhase
<1>3. Cardinality(Alive') = Cardinality(Alive) + 1 /\ Cardinality(Alive) \in Nat
  BY SMTT(30), <1>1, <1>2, AliveCounts
<1>4. /\ permits' \in Nat /\ Cardinality(Alive') + permits' = MaxConnections
      /\ Cardinality(Alive) < MaxConnections
  BY <1>1, <1>3, ServerAssumption DEF Admitted
<1>5. Admitted'
  BY <1>1, <1>4, Replaced, Zenon DEF Admitted
<1>6. /\ Phases' = [Phases EXCEPT ![c] = "open"]
      /\ Entrants' = Entrants /\ Executions' = Executions
  BY <1>1, Replaced, Zenon DEF SameUser
<1>7. Phases[c] = "away" /\ Cardinality(Promised!Present) < MaxConnections
  BY <1>1, <1>4, PresentIsAlive, PhaseSeen, Zenon
<1>8. Serving = "yes" /\ Serving' = Serving
  BY DEF Serving
<1>9. Promised!Open(c)
  BY <1>6, <1>7, <1>8, SameCardinality, Zenon DEF Promised!Open
<1> QED
  BY <1>5, <1>9, Zenon

\* A connection that verify has accepted.
LEMMA EntersKeeps ==
  ASSUME Admitted, NEW c \in Conn, Enters(c), UNCHANGED server
  PROVE  Admitted' /\ Promised!Enter(c)
<1>1. PICK r : /\ Becomes(c, r) /\ r.user = Shown[c] /\ Shown[c] \in Valid /\ r.executed = conn[c].executed
               /\ PhaseOf(r.pc) = "entered" /\ PhaseOf(conn[c].pc) = "open" /\ UNCHANGED permits
  BY ZenonT(40) DEF Enters
<1>2. Live(c)
  <2>1. PhaseOf(conn[c].pc) \in {"open", "entered"}
    BY <1>1, Zenon
  <2> QED BY <2>1, LivePhase, Zenon
<1>3. Alive' = Alive
  BY <1>1, <1>2, AliveCounts
<1>5. Admitted'
  BY <1>1, <1>3, Replaced, Zenon DEF Admitted
<1>6. /\ Phases' = [Phases EXCEPT ![c] = "entered"]
      /\ Entrants' = [Entrants EXCEPT ![c] = r.user] /\ Executions' = Executions
  BY <1>1, Replaced, Zenon
<1>7. Phases[c] = "open"
  BY <1>1, PhaseSeen, Zenon
<1>8. Serving' = Serving
  BY DEF Serving
<1> QED
  BY <1>1, <1>5, <1>6, <1>7, <1>8, Zenon DEF Promised!Enter

\* A command that the handler has executed.
LEMMA ExecutesKeeps ==
  ASSUME Admitted, NEW c \in Conn, Executes(c), UNCHANGED server
  PROVE  Admitted' /\ Promised!Execute(c)
<1>1. PICK r : /\ Becomes(c, r) /\ r.user = conn[c].user /\ r.executed = conn[c].executed + 1
               /\ PhaseOf(r.pc) = "entered" /\ PhaseOf(conn[c].pc) = "entered"
               /\ UNCHANGED permits
  BY Zenon DEF Executes
<1>2. Live(c)
  BY SMTT(30), <1>1, LivePhase
<1>3. Alive' = Alive
  BY <1>1, <1>2, AliveCounts
<1>5. Admitted'
  BY <1>1, <1>3, Replaced, Zenon DEF Admitted
<1>6. /\ Phases' = Phases /\ Entrants' = Entrants
      /\ Executions' = [Executions EXCEPT ![c] = @ + 1]
  BY <1>1, Replaced, ZenonT(40)
<1>7. Phases[c] = "entered"
  BY <1>1, PhaseSeen, Zenon
<1>8. Serving' = Serving
  BY DEF Serving
<1> QED
  BY <1>5, <1>6, <1>7, <1>8, Zenon DEF Promised!Execute

-----------------------------------------------------------------------------
\* The fields of a connection.
LEMMA FieldsAre ==
  Fields = {"pc", "closed", "wire", "out", "errors", "cmd", "token", "user", "executed", "sent"}
BY DEF Fields, NewConn

\* A write changes what was written only.
LEMMA WrittenOnly ==
  ASSUME NEW r, NEW v, DOMAIN r = Fields
  PROVE  /\ DOMAIN Written(r, v) = Fields
         /\ Written(r, v).pc = r.pc /\ Written(r, v).token = r.token
         /\ Written(r, v).user = r.user /\ Written(r, v).executed = r.executed
BY FieldsAre DEF Written

\* The record of a task that has ended, made from r.
EndedFrom(r) == [r EXCEPT !.pc = "ended", !.cmd = Null]

\* The task that ends keeps its user and its count.
LEMMA EndedOnly ==
  ASSUME NEW r, DOMAIN r = Fields
  PROVE  /\ DOMAIN EndedFrom(r) = Fields /\ EndedFrom(r).pc = "ended"
         /\ EndedFrom(r).user = r.user /\ EndedFrom(r).executed = r.executed
BY FieldsAre DEF EndedFrom

\* A task that ends leaves.
LEMMA EndLeaves ==
  ASSUME Admitted, Kept, NEW c \in Conn, Live(c), End(c)
  PROVE  Leaves(c)
<1>1. DOMAIN conn[c] = Fields
  BY DEF Admitted
<1>2. Set(c, EndedFrom(conn[c])) /\ permits' = permits + 1
  BY Zenon DEF End, EndedFrom
<1>3. EndedFrom(conn[c]).pc # "verify_issued"
  BY <1>1, EndedOnly
<1> QED
  BY <1>1, <1>2, <1>3, EndedOnly, Zenon DEF Leaves, Becomes, Right, SameUser

\* A reply is written, and the connection stays what it is, or the task ends.
LEMMA WriteStays ==
  ASSUME Admitted, Kept, NEW c \in Conn, Live(c), NEW r, NEW v, Write(c, r, v),
         DOMAIN r = Fields, SameUser(c, r), r.pc # "verify_issued",
         PhaseOf(r.pc) = PhaseOf(conn[c].pc)
  PROVE  Stays(c) \/ Leaves(c)
<1>1. CASE Set(c, Written(r, v)) /\ UNCHANGED permits
  BY <1>1, WrittenOnly, Zenon DEF Stays, Becomes, Right, SameUser
<1>2. CASE End(c)
  BY <1>2, EndLeaves, Zenon
<1> QED BY <1>1, <1>2, Zenon DEF Write

\* An error is counted and written if possible; the task stays or ends.
LEMMA WriteErrorStays ==
  ASSUME Admitted, Kept, NEW c \in Conn, Live(c), NEW r, NEW text, WriteError(c, r, text),
         DOMAIN r = Fields, SameUser(c, r), r.pc # "verify_issued",
         PhaseOf(r.pc) = PhaseOf(conn[c].pc)
  PROVE  Stays(c) \/ Leaves(c)
<1>1. PICK s : /\ s \in {r, Written(r, Error(text))}
               /\ \/ Set(c, EndedFrom(s)) /\ permits' = permits + 1
                  \/ Set(c, s) /\ UNCHANGED permits
  BY Zenon DEF WriteError, EndedFrom
<1>2. DOMAIN s = Fields /\ s.pc = r.pc /\ s.user = r.user /\ s.executed = r.executed
  BY <1>1, WrittenOnly, ZenonT(40)
<1>3. CASE Set(c, EndedFrom(s)) /\ permits' = permits + 1
  <2>1. EndedFrom(s).pc # "verify_issued"
    BY <1>2, EndedOnly
  <2> QED BY <1>2, <1>3, <2>1, EndedOnly, Zenon DEF Leaves, Becomes, Right, SameUser
<1>4. CASE Set(c, s) /\ UNCHANGED permits
  <2>1. s.pc # "verify_issued" /\ PhaseOf(s.pc) = PhaseOf(conn[c].pc)
    BY <1>2, Zenon
  <2> QED BY <1>2, <1>4, <2>1, Zenon DEF Stays, Becomes, Right, SameUser
<1> QED BY <1>1, <1>3, <1>4, Zenon

\* What a failed parse leaves of a connection.
LEMMA ErredOnly ==
  ASSUME Admitted, NEW c \in Conn, NEW p
  PROVE  /\ DOMAIN Erred(c, p) = Fields /\ SameUser(c, Erred(c, p)) /\ Erred(c, p).pc = conn[c].pc
         /\ DOMAIN Consumed(c, p) = Fields /\ SameUser(c, Consumed(c, p))
         /\ Consumed(c, p).pc = conn[c].pc
BY FieldsAre DEF Admitted, Erred, Consumed, SameUser

\* The task of a connection that is not yet known ...
LEMMA BannerStays ==
  ASSUME Admitted, Kept, NEW c \in Conn, TlsHandshake(c) \/ WriteBanner(c)
  PROVE  Stays(c) \/ Leaves(c)
<1>1. CASE TlsHandshake(c)
  <2>1. Live(c)
    BY <1>1 DEF TlsHandshake, Live
  <2>2. CASE Set(c, [conn[c] EXCEPT !.pc = "banner"]) /\ UNCHANGED permits
    <3>1. PICK r : r = [conn[c] EXCEPT !.pc = "banner"]
      BY Zenon
    <3>2. DOMAIN r = Fields /\ SameUser(c, r) /\ r.pc = "banner"
      BY <3>1, FieldsAre DEF Admitted, SameUser
    <3>3. r.pc # "verify_issued" /\ PhaseOf(r.pc) = PhaseOf(conn[c].pc)
      BY <1>1, <3>2 DEF TlsHandshake, PhaseOf
    <3> QED BY <2>2, <3>1, <3>2, <3>3, Zenon DEF Stays, Becomes, Right
  <2> QED BY <1>1, <2>1, <2>2, EndLeaves, Zenon DEF TlsHandshake
<1>2. CASE WriteBanner(c)
  <2>1. PICK r : r = [conn[c] EXCEPT !.pc = "auth"]
    BY Zenon
  <2>2. DOMAIN r = Fields /\ SameUser(c, r) /\ r.pc = "auth"
    BY <2>1, FieldsAre DEF Admitted, SameUser
  <2>3. Live(c) /\ r.pc # "verify_issued" /\ PhaseOf(r.pc) = PhaseOf(conn[c].pc)
    BY <1>2, <2>2 DEF WriteBanner, PhaseOf, Live
  <2>4. Write(c, r, Simple("BASHFULDB"))
    BY <1>2, <2>1, Zenon DEF WriteBanner
  <2> QED BY <2>2, <2>3, <2>4, WriteStays, Zenon
<1> QED BY <1>1, <1>2

\* ... whose commands are read up to an AUTH, ...
LEMMA HandshakeStays ==
  ASSUME Admitted, Kept, NEW c \in Conn, Handshake(c)
  PROVE  Stays(c) \/ Leaves(c)
<1>1. conn[c].pc = "auth" /\ Live(c)
  BY DEF Handshake, Live
<1>2. PICK p \in Reading(c) :
        \/ End(c)
        \/ \E text : WriteError(c, Erred(c, p), text)
        \/ \E pc \in {"verify", "login"} :
             Set(c, [Consumed(c, p) EXCEPT !.cmd = p.value, !.pc = pc]) /\ UNCHANGED permits
  BY Zenon DEF Handshake
<1>3. CASE End(c)
  BY <1>1, <1>3, EndLeaves, Zenon
<1>4. ASSUME NEW text, WriteError(c, Erred(c, p), text) PROVE Stays(c) \/ Leaves(c)
  <2>1. /\ DOMAIN Erred(c, p) = Fields /\ SameUser(c, Erred(c, p))
        /\ Erred(c, p).pc = conn[c].pc
    BY ErredOnly, Zenon
  <2>2. Erred(c, p).pc # "verify_issued" /\ PhaseOf(Erred(c, p).pc) = PhaseOf(conn[c].pc)
    BY <1>1, <2>1
  <2> QED BY <1>1, <1>4, <2>1, <2>2, WriteErrorStays, Zenon
<1>5. ASSUME NEW pc \in {"verify", "login"},
             Set(c, [Consumed(c, p) EXCEPT !.cmd = p.value, !.pc = pc]), UNCHANGED permits
      PROVE  Stays(c)
  <2>1. PICK r : r = [Consumed(c, p) EXCEPT !.cmd = p.value, !.pc = pc]
    BY Zenon
  <2>2. DOMAIN r = Fields /\ SameUser(c, r) /\ r.pc = pc
    BY SMTT(30), <2>1, FieldsAre, ErredOnly DEF SameUser
  <2>3. r.pc # "verify_issued" /\ PhaseOf(r.pc) = PhaseOf(conn[c].pc)
    BY <1>1, <2>2 DEF PhaseOf
  <2> QED BY <1>5, <2>1, <2>2, <2>3, Zenon DEF Stays, Becomes, Right
<1> QED BY <1>2, <1>3, <1>4, <1>5, Zenon

\* ... and which is then known, ...
LEMMA AuthenticatedEnters ==
  ASSUME Admitted, Kept, NEW c \in Conn, NEW id, Authenticated(c, id),
         PhaseOf(conn[c].pc) = "open", id = Shown[c], Shown[c] \in Valid
  PROVE  Enters(c) \/ Leaves(c)
<1>1. PICK r : r = [conn[c] EXCEPT !.pc = "loop", !.user = id, !.errors = 0, !.cmd = Null,
                                   !.token = NoToken]
  BY Zenon
<1>2. DOMAIN r = Fields /\ r.user = id /\ r.executed = conn[c].executed /\ r.pc = "loop"
  BY <1>1, FieldsAre, SMTT(30) DEF Admitted
<1>3. PhaseOf("loop") = "entered" /\ "loop" # "verify_issued"
  BY DEF PhaseOf
<1>4. Live(c)
  BY LivePhase
<1>5. Write(c, r, Simple("OK"))
  BY <1>1, Zenon DEF Authenticated
<1>6. CASE Set(c, Written(r, Simple("OK"))) /\ UNCHANGED permits
  <2>1. PICK w : w = Written(r, Simple("OK"))
    BY Zenon
  <2>2. DOMAIN w = Fields /\ w.user = id /\ w.executed = conn[c].executed /\ w.pc = "loop"
    BY SMTT(30), <1>2, <2>1, WrittenOnly
  <2>3. PhaseOf(w.pc) = "entered" /\ w.pc # "verify_issued"
    BY <1>3, <2>2
  <2> QED BY <1>6, <2>1, <2>2, <2>3, Zenon DEF Enters, Becomes, Right
<1>7. CASE End(c)
  BY <1>4, <1>7, EndLeaves, Zenon
<1> QED BY <1>5, <1>6, <1>7, Zenon DEF Write

\* ... or is not, and may try again.
LEMMA RejectedStays ==
  ASSUME Admitted, Kept, NEW c \in Conn, Rejected(c), PhaseOf(conn[c].pc) = "open"
  PROVE  Stays(c) \/ Leaves(c)
<1>1. PICK r : r = [conn[c] EXCEPT !.pc = "auth", !.errors = @ + 1, !.cmd = Null]
  BY Zenon
<1>2. DOMAIN r = Fields /\ SameUser(c, r) /\ r.pc = "auth"
  BY SMTT(30), <1>1, FieldsAre DEF Admitted, SameUser
<1>3. Live(c) /\ r.pc # "verify_issued" /\ PhaseOf(r.pc) = PhaseOf(conn[c].pc)
  BY <1>2, LivePhase DEF PhaseOf
<1>4. WriteError(c, r, "WRONGPASS")
  BY <1>1, Zenon DEF Rejected
<1> QED BY <1>2, <1>3, <1>4, WriteErrorStays, Zenon

\* The user of a session's token that verifies is valid.
LEMMA VerifiedIsValid ==
  ASSUME NEW token \in Accesses, Verify(token) = "ok"
  PROVE  token.sub \in Valid
BY Zenon DEF Accesses, Valid

\* The token that clients have, and the one that login has given, are those of the user
\* they stand for.
LEMMA VerifyEnters ==
  ASSUME Admitted, Kept, Issued, NEW c \in Conn, VerifyToken(c) \/ VerifyIssued(c)
  PROVE  Stays(c) \/ Leaves(c) \/ Enters(c)
<1>1. PhaseOf(conn[c].pc) = "open" /\ Live(c)
  BY DEF VerifyToken, VerifyIssued, PhaseOf, Live
<1>2. CASE VerifyToken(c)
  <2>1. \/ /\ Verify(ClientToken) = "ok" /\ Authenticated(c, ClientToken.sub)
           /\ ArgumentsOf(conn[c].cmd)[1] = "token" /\ conn[c].pc = "verify"
        \/ Rejected(c)
    BY <1>2, Zenon DEF VerifyToken
  <2>2. ClientToken.sub = KnownUser
    BY Zenon DEF ClientToken
  <2>3. CASE /\ Verify(ClientToken) = "ok" /\ Authenticated(c, ClientToken.sub)
             /\ ArgumentsOf(conn[c].cmd)[1] = "token" /\ conn[c].pc = "verify"
    <3>1. Shown[c] = ClientToken.sub
      BY <2>2, <2>3, Zenon DEF Shown
    <3>2. ClientToken.sub \in Valid
      BY <2>3, VerifiedIsValid, Zenon DEF Issued
    <3> QED BY <1>1, <2>3, <3>1, <3>2, AuthenticatedEnters, Zenon
  <2> QED BY <1>1, <2>1, <2>3, RejectedStays, Zenon
<1>3. CASE VerifyIssued(c)
  <2>1. /\ conn[c].pc = "verify_issued"
        /\ (Verify(conn[c].token) = "ok" /\ Authenticated(c, conn[c].token.sub)) \/ End(c)
    BY <1>3, Zenon DEF VerifyIssued
  <2>2. /\ conn[c].token.sub = KnownUser /\ conn[c].token \in Accesses
        /\ ArgumentsOf(conn[c].cmd) = <<"user", "right">>
    BY <2>1, Zenon DEF Admitted, Right
  <2>3. CASE Verify(conn[c].token) = "ok" /\ Authenticated(c, conn[c].token.sub)
    <3>1. Shown[c] = conn[c].token.sub
      BY <2>1, <2>2, Zenon DEF Shown
    <3>2. conn[c].token.sub \in Valid
      BY <2>2, <2>3, VerifiedIsValid, Zenon
    <3> QED BY <1>1, <2>3, <3>1, <3>2, AuthenticatedEnters, Zenon
  <2> QED BY <1>1, <2>1, <2>3, EndLeaves, Zenon
<1> QED BY SMTT(30), <1>2, <1>3

\* A pair that is issued leaves the tokens there are.
LEMMA SessionAdded ==
  ASSUME Issued, NEW id, NEW tenant, UNCHANGED <<users, mode>>,
         sessions' = sessions \cup {SessionFor(id, tenant)}
  PROVE  Issued' /\ Kept
<1>1. DOMAIN SessionFor(id, tenant) = {"user", "iat", "process", "out", "access", "refresh"}
  BY DEF SessionFor
<1>2. Kept
  BY Zenon DEF Kept, Accesses
<1>3. ClientToken' = ClientToken
  BY Zenon DEF ClientToken
<1> QED BY <1>1, <1>2, <1>3, ZenonT(40) DEF Issued, Kept

\* AUTH with a name and a password.
LEMMA LoginStays ==
  ASSUME Admitted, Issued, NEW c \in Conn, LoginUser(c)
  PROVE  (Stays(c) \/ Leaves(c)) /\ Issued'
<1>1. PhaseOf(conn[c].pc) = "open" /\ PhaseOf("verify_issued") = "open"
  BY DEF LoginUser, PhaseOf
<1>2. \/ /\ Login(KnownUser) /\ UNCHANGED permits /\ ArgumentsOf(conn[c].cmd) = <<"user", "right">>
         /\ Set(c, [conn[c] EXCEPT !.pc = "verify_issued", !.token = Session(KnownUser).access])
      \/ Rejected(c) /\ UNCHANGED authVars
  BY Zenon DEF LoginUser
<1>3. CASE Rejected(c) /\ UNCHANGED authVars
  <2>1. Issued' /\ Kept
    <3>1. users' = users /\ mode' = mode /\ sessions' = sessions
      BY <1>3 DEF authVars
    <3>2. Accesses' = Accesses /\ ClientToken' = ClientToken
      BY <3>1, Zenon DEF Accesses, ClientToken
    <3> QED BY <3>1, <3>2, Zenon DEF Issued, Kept
  <2> QED BY <1>1, <1>3, <2>1, RejectedStays, Zenon
<1>4. CASE /\ Login(KnownUser) /\ UNCHANGED permits /\ ArgumentsOf(conn[c].cmd) = <<"user", "right">>
           /\ Set(c, [conn[c] EXCEPT !.pc = "verify_issued", !.token = Session(KnownUser).access])
  <2>1. PICK r : r = [conn[c] EXCEPT !.pc = "verify_issued", !.token = Session(KnownUser).access]
    BY Zenon
  <2>2. /\ DOMAIN r = Fields /\ SameUser(c, r) /\ r.pc = "verify_issued"
        /\ r.token = Session(KnownUser).access /\ r.cmd = conn[c].cmd
    BY SMTT(30), <2>1, FieldsAre DEF Admitted, SameUser
  <2>3. UNCHANGED <<users, mode>> /\ sessions' = sessions \cup {Session(KnownUser)}
    BY <1>4 DEF Login
  <2>4. Issued' /\ Kept
    BY <2>3, SessionAdded, Zenon DEF Session
  <2>5. r.token.sub = KnownUser
    <3>1. Session(KnownUser).access.sub = KnownUser
      BY Zenon DEF Session, SessionFor, Token
    <3> QED BY <2>2, <3>1, Zenon
  <2>6. r.token \in Accesses'
    BY <2>2, <2>3, Zenon DEF Accesses
  <2>7. Right(r, Accesses')
    BY <1>4, <2>2, <2>5, <2>6, Zenon DEF Right
  <2>8. PhaseOf(r.pc) = PhaseOf(conn[c].pc)
    BY Zenon, <1>1, <2>2
  <2>9. Stays(c)
    BY <1>4, <2>1, <2>2, <2>4, <2>7, <2>8, Zenon DEF Stays, Becomes
  <2> QED BY <2>4, <2>9, Zenon
<1> QED BY <1>2, <1>3, <1>4, Zenon

\* The command loop: a command is read, ...
LEMMA ReadStays ==
  ASSUME Admitted, Kept, NEW c \in Conn, ReadCommand(c)
  PROVE  Stays(c) \/ Leaves(c)
<1>1. conn[c].pc = "loop" /\ Live(c)
  BY DEF ReadCommand, Live
<1>2. PICK p \in Reading(c) :
        \/ End(c)
        \/ /\ Set(c, [Consumed(c, p) EXCEPT !.errors = 0, !.cmd = p.value, !.pc = "handle"])
           /\ UNCHANGED permits
        \/ WriteError(c, Erred(c, p), p.result)
  BY Zenon DEF ReadCommand
<1>3. CASE End(c)
  BY <1>1, <1>3, EndLeaves, Zenon
<1>4. CASE WriteError(c, Erred(c, p), p.result)
  <2>1. /\ DOMAIN Erred(c, p) = Fields /\ SameUser(c, Erred(c, p))
        /\ Erred(c, p).pc = conn[c].pc
    BY ErredOnly, Zenon
  <2>2. Erred(c, p).pc # "verify_issued" /\ PhaseOf(Erred(c, p).pc) = PhaseOf(conn[c].pc)
    BY <1>1, <2>1
  <2> QED BY <1>1, <1>4, <2>1, <2>2, WriteErrorStays, ZenonT(40)
<1>5. CASE /\ Set(c, [Consumed(c, p) EXCEPT !.errors = 0, !.cmd = p.value, !.pc = "handle"])
           /\ UNCHANGED permits
  <2>1. PICK r : r = [Consumed(c, p) EXCEPT !.errors = 0, !.cmd = p.value, !.pc = "handle"]
    BY Zenon
  <2>2. DOMAIN r = Fields /\ SameUser(c, r) /\ r.pc = "handle"
    BY SMTT(30), <2>1, FieldsAre, ErredOnly DEF SameUser
  <2>3. r.pc # "verify_issued" /\ PhaseOf(r.pc) = PhaseOf(conn[c].pc)
    BY <1>1, <2>2 DEF PhaseOf
  <2> QED BY <1>5, <2>1, <2>2, <2>3, Zenon DEF Stays, Becomes, Right
<1> QED BY <1>2, <1>3, <1>4, <1>5, Zenon

\* ... executed, and answered.
LEMMA HandleExecutes ==
  ASSUME Admitted, Kept, NEW c \in Conn, Handle(c) \/ WriteReply(c)
  PROVE  Stays(c) \/ Leaves(c) \/ Executes(c)
<1>1. PhaseOf(conn[c].pc) = "entered" /\ Live(c)
  BY DEF Handle, WriteReply, PhaseOf, Live
<1>2. CASE Handle(c)
  <2>1. CASE Set(c, [conn[c] EXCEPT !.pc = "reply", !.executed = @ + 1]) /\ UNCHANGED permits
    <3>1. PICK r : r = [conn[c] EXCEPT !.pc = "reply", !.executed = @ + 1]
      BY Zenon
    <3>2. /\ DOMAIN r = Fields /\ r.user = conn[c].user /\ r.executed = conn[c].executed + 1
          /\ r.pc = "reply"
      BY SMTT(30), <3>1, FieldsAre DEF Admitted
    <3>3. r.pc # "verify_issued" /\ PhaseOf(r.pc) = "entered"
      BY <3>2 DEF PhaseOf
    <3> QED BY <1>1, <2>1, <3>1, <3>2, <3>3, Zenon DEF Executes, Becomes, Right
  <2> QED BY <1>1, <1>2, <2>1, EndLeaves, Zenon DEF Handle
<1>3. CASE WriteReply(c)
  <2>1. PICK r : r = [conn[c] EXCEPT !.pc = "loop", !.cmd = Null]
    BY Zenon
  <2>2. DOMAIN r = Fields /\ SameUser(c, r) /\ r.pc = "loop"
    BY SMTT(30), <2>1, FieldsAre DEF Admitted, SameUser
  <2>3. r.pc # "verify_issued" /\ PhaseOf(r.pc) = PhaseOf(conn[c].pc)
    BY <1>1, <2>2 DEF PhaseOf
  <2>4. Write(c, r, Reply(conn[c].cmd))
    BY <1>3, <2>1, Zenon DEF WriteReply
  <2> QED BY <1>1, <2>2, <2>3, <2>4, WriteStays, Zenon
<1> QED BY <1>2, <1>3

\* What a client does changes nothing that Sessions sees.
LEMMA ClientStays ==
  ASSUME Admitted, Kept, NEW c \in Conn,
         \/ Connect(c) \/ (\E v : Send(c, v)) \/ (\E cut \in BOOLEAN : CloseClient(c, cut))
  PROVE  Stays(c)
<1>1. PICK r : /\ Set(c, r) /\ UNCHANGED permits /\ DOMAIN r = Fields /\ SameUser(c, r)
               /\ r.token = conn[c].token /\ r.cmd = conn[c].cmd
               /\ r.pc = conn[c].pc \/ (conn[c].pc = "none" /\ r.pc = "pending")
  <2>1. CASE Connect(c)
    <3>1. PICK r : r = [conn[c] EXCEPT !.pc = "pending"]
      BY Zenon
    <3>2. /\ DOMAIN r = Fields /\ SameUser(c, r) /\ r.token = conn[c].token /\ r.cmd = conn[c].cmd
          /\ conn[c].pc = "none" /\ r.pc = "pending"
      BY <2>1, <3>1, FieldsAre DEF Admitted, SameUser, Connect
    <3>3. Set(c, r) /\ UNCHANGED permits
      BY <2>1, <3>1, Zenon DEF Connect
    <3> QED BY <3>2, <3>3, Zenon
  <2>2. ASSUME NEW v, Send(c, v)
        PROVE  \E r : /\ Set(c, r) /\ UNCHANGED permits /\ DOMAIN r = Fields /\ SameUser(c, r)
                      /\ r.token = conn[c].token /\ r.cmd = conn[c].cmd /\ r.pc = conn[c].pc
    <3>1. PICK r : r = [conn[c] EXCEPT !.sent = Append(@, v), !.wire = @ \o Encode(v)]
      BY Zenon
    <3>2. DOMAIN r = Fields /\ SameUser(c, r) /\ r.token = conn[c].token /\ r.cmd = conn[c].cmd /\ r.pc = conn[c].pc
      BY <3>1, FieldsAre DEF Admitted, SameUser
    <3>3. Set(c, r) /\ UNCHANGED permits
      BY <2>2, <3>1, Zenon DEF Send
    <3> QED BY <3>2, <3>3, Zenon
  <2>3. ASSUME NEW cut \in BOOLEAN, CloseClient(c, cut)
        PROVE  \E r : /\ Set(c, r) /\ UNCHANGED permits /\ DOMAIN r = Fields /\ SameUser(c, r)
                      /\ r.token = conn[c].token /\ r.cmd = conn[c].cmd /\ r.pc = conn[c].pc
    <3>1. PICK r : r = [conn[c] EXCEPT !.closed = TRUE,
                                       !.wire = IF cut THEN Append(@, Line("*", "", 1)) ELSE @]
      BY Zenon
    <3>2. DOMAIN r = Fields /\ SameUser(c, r) /\ r.token = conn[c].token /\ r.cmd = conn[c].cmd /\ r.pc = conn[c].pc
      BY <3>1, FieldsAre DEF Admitted, SameUser
    <3>3. Set(c, r) /\ UNCHANGED permits
      BY <2>3, <3>1, ZenonT(40) DEF CloseClient
    <3> QED BY <3>2, <3>3, Zenon
  <2> QED BY <2>1, <2>2, <2>3, Zenon
<1>2. PhaseOf(r.pc) = PhaseOf(conn[c].pc)
  BY <1>1 DEF PhaseOf
<1>3. Right(r, Accesses')
  <2>1. r.pc = "verify_issued" => conn[c].pc = "verify_issued"
    BY <1>1
  <2> QED BY <1>1, <2>1, ZenonT(40) DEF Admitted, Right, Kept
<1> QED BY <1>1, <1>2, <1>3, Zenon DEF Stays, Becomes

\* The accept loop takes a connection if there is a permit.
LEMMA AcceptOpens ==
  ASSUME Admitted, Kept, NEW c \in Conn, Accept(c)
  PROVE  Stays(c) \/ Opens(c)
<1>1. PhaseOf(conn[c].pc) = "away" /\ PhaseOf("refused") = "away" /\ permits \in Nat
  <2>1. PhaseOf(conn[c].pc) = "away" /\ PhaseOf("refused") = "away"
    BY Zenon DEF Accept, PhaseOf
  <2> QED BY <2>1 DEF Admitted
<1>2. CASE permits = 0
  <2>1. PICK r : r = [conn[c] EXCEPT !.pc = "refused"]
    BY Zenon
  <2>2. DOMAIN r = Fields /\ SameUser(c, r) /\ r.pc = "refused"
    BY <2>1, FieldsAre DEF Admitted, SameUser
  <2>3. PICK w : w = Written(r, Error("max connections reached"))
    BY Zenon
  <2>4. DOMAIN w = Fields /\ SameUser(c, w) /\ w.pc = "refused"
    BY <2>2, <2>3, WrittenOnly, ZenonT(40) DEF SameUser
  <2>5. w.pc # "verify_issued" /\ PhaseOf(w.pc) = PhaseOf(conn[c].pc)
    BY <1>1, <2>4
  <2>6. Set(c, w) /\ UNCHANGED permits
    BY <1>2, <2>1, <2>3, Zenon DEF Accept
  <2> QED BY <2>4, <2>5, <2>6, Zenon DEF Stays, Becomes, Right
<1>3. CASE permits # 0
  <2>1. PICK pc \in {"tls", "banner"} : Set(c, [conn[c] EXCEPT !.pc = pc]) /\ permits' = permits - 1
    BY <1>3, Zenon DEF Accept
  <2>2. PICK r : r = [conn[c] EXCEPT !.pc = pc]
    BY Zenon
  <2>3. DOMAIN r = Fields /\ SameUser(c, r) /\ r.pc = pc
    BY SMTT(30), <2>2, FieldsAre DEF Admitted, SameUser
  <2>4. r.pc # "verify_issued" /\ PhaseOf(r.pc) = "open" /\ permits > 0
    BY <1>1, <1>3, <2>3 DEF PhaseOf
  <2> QED BY <1>1, <2>1, <2>2, <2>3, <2>4, Zenon DEF Opens, Becomes, Right
<1> QED BY <1>2, <1>3

\* Shutdown refuses the connections that have not been accepted ...
LEMMA ShutdownCloses ==
  ASSUME Admitted, Kept, Shutdown
  PROVE  Admitted' /\ Promised!Close
<1>1. \A c \in Conn :
        /\ DOMAIN conn'[c] = Fields
        /\ PhaseOf(conn'[c].pc) = PhaseOf(conn[c].pc)
        /\ conn'[c].user = conn[c].user /\ conn'[c].executed = conn[c].executed
        /\ Right(conn'[c], Accesses')
  <2> SUFFICES ASSUME NEW c \in Conn
               PROVE  /\ DOMAIN conn'[c] = Fields
                      /\ PhaseOf(conn'[c].pc) = PhaseOf(conn[c].pc)
                      /\ conn'[c].user = conn[c].user /\ conn'[c].executed = conn[c].executed
                      /\ Right(conn'[c], Accesses')
    BY Zenon
  <2>1. CASE conn[c].pc = "pending"
    <3>1. PICK r : r = [conn[c] EXCEPT !.pc = "refused"]
      BY Zenon
    <3>2. conn'[c] = r
      BY <2>1, <3>1 DEF Shutdown
    <3>3. DOMAIN r = Fields /\ SameUser(c, r) /\ r.pc = "refused"
      BY SMTT(30), <3>1, FieldsAre DEF Admitted, SameUser
    <3>4. PhaseOf(r.pc) = PhaseOf(conn[c].pc) /\ r.pc # "verify_issued"
      BY <2>1, <3>3 DEF PhaseOf
    <3> QED BY <3>2, <3>3, <3>4, Zenon DEF SameUser, Right
  <2>2. CASE conn[c].pc # "pending"
    <3>1. conn'[c] = conn[c]
      BY <2>2 DEF Shutdown
    <3> QED BY <3>1, Zenon DEF Admitted, Right, Kept
  <2> QED BY <2>1, <2>2
<1>2. Phases' = Phases
  BY SMTT(30), <1>1 DEF Phases
<1>3. Entrants' = Entrants /\ Executions' = Executions
  BY <1>1 DEF Entrants, Executions
<1>4. \A c \in Conn : Live(c)' <=> Live(c)
  <2>1. \A c \in Conn : Live(c)' <=> PhaseOf(conn'[c].pc) \in {"open", "entered"}
    BY DEF Live, PhaseOf
  <2> QED BY <1>1, <2>1, LivePhase, Zenon
<1>5. Alive' = Alive
  BY <1>4, Zenon DEF Alive
<1>6. conn' = [c \in Conn |-> conn'[c]] /\ permits' = permits
  BY DEF Shutdown
<1>7. Admitted'
  BY <1>1, <1>5, <1>6, Zenon DEF Admitted
<1>8. Serving = "yes" /\ Serving' = "closing"
  BY DEF Serving, Shutdown
<1> QED BY <1>2, <1>3, <1>7, <1>8, ZenonT(40) DEF Promised!Close

\* ... and run returns after the last task.
LEMMA DrainedFinishes ==
  ASSUME Admitted, Kept, Drained
  PROVE  Admitted' /\ Promised!Finish
<1>1. conn' = conn /\ permits' = permits
  BY DEF Drained
<1>2. Alive' = Alive
  BY <1>1 DEF Alive, Live
<1>3. Admitted'
  BY <1>1, <1>2, Zenon DEF Admitted, Right, Kept
<1>4. Phases' = Phases /\ Entrants' = Entrants /\ Executions' = Executions
  BY <1>1 DEF Phases, Entrants, Executions
<1>5. Promised!Present = {}
  BY PresentIsAlive DEF Drained, Alive
<1>6. Serving = "closing" /\ Serving' = "no"
  BY DEF Serving, Drained
<1> QED BY <1>3, <1>4, <1>5, <1>6, Zenon DEF Promised!Finish

\* The authenticator's other callers do not touch the server.
LEMMA AuthStays ==
  ASSUME Issued, AuthStep
  PROVE  Issued' /\ Kept /\ UNCHANGED serverVars
<1>1. UNCHANGED <<users, mode>>
  BY Zenon DEF AuthStep, AuthTick, Login, IssuePair, BeginLogin, BeginRefresh, FindUser, Logout
<1>2. ASSUME UNCHANGED sessions PROVE Issued' /\ Kept
  <2>1. Accesses' = Accesses /\ ClientToken' = ClientToken
    BY <1>1, <1>2, Zenon DEF Accesses, ClientToken
  <2> QED BY <1>2, <2>1, Zenon DEF Issued, Kept
<1>3. ASSUME NEW id, NEW tenant, sessions' = sessions \cup {SessionFor(id, tenant)}
      PROVE  Issued' /\ Kept
  BY <1>1, <1>3, SessionAdded, Zenon
<1>4. ASSUME NEW s \in sessions, Logout(s) PROVE Issued' /\ Kept
  <2>1. PICK o : o = [s EXCEPT !.out = @ \cup {process}]
    BY Zenon
  <2>2. DOMAIN o = DOMAIN s /\ o.access = s.access
    BY <2>1 DEF Issued
  <2>3. sessions' = (sessions \ {s}) \cup {o}
    BY <1>4, <2>1, Zenon DEF Logout
  <2>4. Kept
    <3>1. ASSUME NEW t \in sessions PROVE t.access \in Accesses'
      BY <2>2, <2>3, <3>1, Zenon DEF Accesses
    <3> QED BY <3>1, Zenon DEF Kept, Accesses
  <2>5. ClientToken' = ClientToken
    BY <1>1, Zenon DEF ClientToken
  <2> QED BY <2>2, <2>3, <2>4, <2>5, Zenon DEF Issued, Kept
<1>5. \/ UNCHANGED sessions
      \/ \E id, tenant : sessions' = sessions \cup {SessionFor(id, tenant)}
      \/ \E s \in sessions : Logout(s)
  BY Zenon DEF AuthStep, AuthTick, Login, IssuePair, BeginLogin, BeginRefresh, FindUser, Session
<1> QED BY <1>2, <1>3, <1>4, <1>5, Zenon DEF AuthStep

\* Every step keeps the invariant, and is a step of Sessions or none.
LEMMA ServerKeeps ==
  ASSUME NEW frames, Admitted, Issued,
         [ServerStep(frames) \/ AuthStep]_<<authVars, serverVars>>
  PROVE  Admitted' /\ Issued' /\ [Promised!Next]_(Promised!vars)
<1>0. ASSUME UNCHANGED authVars PROVE Issued' /\ Kept
  <2>1. users' = users /\ mode' = mode /\ sessions' = sessions
    BY <1>0 DEF authVars
  <2>2. Accesses' = Accesses /\ ClientToken' = ClientToken
    BY <2>1, Zenon DEF Accesses, ClientToken
  <2> QED BY <2>1, <2>2, Zenon DEF Issued, Kept
<1>1. ASSUME NEW c \in Conn, Stays(c) \/ Leaves(c) \/ Enters(c) \/ Executes(c), UNCHANGED server
      PROVE  Admitted' /\ [Promised!Next]_(Promised!vars)
  BY <1>1, StaysKeeps, LeavesKeeps, EntersKeeps, ExecutesKeeps, Zenon DEF Promised!Next
<1>2. ASSUME UNCHANGED serverVars, Kept PROVE Admitted' /\ UNCHANGED Promised!vars
  <2>1. conn' = conn /\ permits' = permits /\ server' = server
    BY <1>2 DEF serverVars
  <2>2. Alive' = Alive
    BY <2>1 DEF Alive, Live
  <2>3. Admitted'
    BY <1>2, <2>1, <2>2, Zenon DEF Admitted, Right, Kept
  <2>4. Phases' = Phases /\ Entrants' = Entrants /\ Executions' = Executions /\ Serving' = Serving
    BY SMTT(30), <2>1 DEF Phases, Entrants, Executions, Serving
  <2> QED BY <2>3, <2>4, Zenon DEF Promised!vars
<1>4. ASSUME NEW c \in Conn, TaskStep(c)
      PROVE  Admitted' /\ Issued' /\ [Promised!Next]_(Promised!vars)
  <2>1. UNCHANGED server
    BY <1>4, Zenon DEF TaskStep, TlsHandshake, WriteBanner, Handshake, VerifyToken, LoginUser,
          VerifyIssued, ReadCommand, Handle, WriteReply
  <2>2. CASE LoginUser(c)
    BY <1>1, <2>1, <2>2, LoginStays, Zenon
  <2>3. CASE ~LoginUser(c)
    <3>1. UNCHANGED authVars
      BY <1>4, <2>3, Zenon DEF TaskStep, TlsHandshake, WriteBanner, Handshake, VerifyToken,
            VerifyIssued, ReadCommand, Handle, WriteReply
    <3>2. Stays(c) \/ Leaves(c) \/ Enters(c) \/ Executes(c)
      BY <1>0, <1>4, <2>3, <3>1, BannerStays, HandshakeStays, VerifyEnters, ReadStays,
         HandleExecutes, Zenon
         DEF TaskStep
    <3> QED BY <1>0, <1>1, <2>1, <3>1, <3>2, Zenon
  <2> QED BY <2>2, <2>3
<1>5. ASSUME NEW c \in Conn, UNCHANGED authVars,
             \/ Connect(c) \/ (\E v : Send(c, v)) \/ (\E cut \in BOOLEAN : CloseClient(c, cut))
      PROVE  Admitted' /\ Issued' /\ [Promised!Next]_(Promised!vars)
  <2>1. UNCHANGED server
    BY <1>5, Zenon DEF Connect, Send, CloseClient
  <2> QED BY <1>0, <1>1, <1>5, <2>1, ClientStays, Zenon
<1>6. ASSUME NEW c \in Conn, UNCHANGED authVars, Accept(c)
      PROVE  Admitted' /\ Issued' /\ [Promised!Next]_(Promised!vars)
  <2>1. UNCHANGED server /\ server = "up"
    BY <1>6, Zenon DEF Accept
  <2>2. CASE Stays(c)
    BY <1>0, <1>1, <1>6, <2>1, <2>2, Zenon
  <2>3. CASE Opens(c)
    BY <1>0, <1>6, <2>1, <2>3, OpensKeeps, Zenon DEF Promised!Next
  <2> QED BY <1>0, <1>6, <2>2, <2>3, AcceptOpens, Zenon
<1>7. ASSUME UNCHANGED authVars, Shutdown \/ Drained
      PROVE  Admitted' /\ Issued' /\ [Promised!Next]_(Promised!vars)
  BY <1>0, <1>7, ShutdownCloses, DrainedFinishes, Zenon DEF Promised!Next
<1>8. CASE ServerStep(frames)
  <2>1. \/ \E c \in Conn :
             \/ TaskStep(c)
             \/ /\ UNCHANGED authVars
                /\ \/ Connect(c) \/ Accept(c) \/ (\E v : Send(c, v))
                   \/ \E cut \in BOOLEAN : CloseClient(c, cut)
        \/ UNCHANGED authVars /\ (Shutdown \/ Drained)
    BY <1>8, Zenon DEF ServerStep, ServerNext
  <2> QED BY <2>1, <1>4, <1>5, <1>6, <1>7, Zenon
<1>9. CASE AuthStep
  BY <1>2, <1>9, AuthStays, Zenon
<1>10. CASE UNCHANGED <<authVars, serverVars>>
  BY <1>0, <1>2, <1>10, Zenon
<1> QED BY <1>8, <1>9, <1>10, Zenon

\* The initial states are those of Sessions.
LEMMA ServerStarts ==
  ASSUME AuthReady, sessions = {Session(KnownUser)}, ServerInit
  PROVE  Admitted /\ Issued /\ Promised!Init
<1>2. Issued
  <2>1. DOMAIN Session(KnownUser) = {"user", "iat", "process", "out", "access", "refresh"}
    BY DEF Session, SessionFor
  <2>2. now = 1 /\ process = 1
    BY Zenon DEF AuthReady
  <2>3. Session(KnownUser).access = Token("access", KnownUser, users[KnownUser].tenant, AccessTtl)
    BY Zenon DEF Session, SessionFor
  <2>4. Token("access", KnownUser, users[KnownUser].tenant, AccessTtl) = ClientToken
    BY <2>2, Zenon DEF Token, ClientToken, SigningKey
  <2> QED BY <2>1, <2>3, <2>4, ZenonT(40) DEF Issued, Accesses
<1>3. /\ conn = [c \in Conn |-> conn[c]]
      /\ \A c \in Conn : conn[c] = NewConn
  BY SMTT(30) DEF ServerInit
<1>4. NewConn.pc = "none" /\ NewConn.user = Nobody /\ NewConn.executed = 0
  BY DEF NewConn
<1>5. Alive = {}
  BY <1>3, <1>4 DEF Alive, Live
<1>6. permits \in Nat /\ Cardinality(Alive) + permits = MaxConnections
  BY SMTT(30), <1>5, FS_EmptySet, ServerAssumption DEF ServerInit
<1>7. Admitted
  BY SMTT(30), <1>3, <1>4, <1>6 DEF Admitted, Fields, Right
<1>8. Phases = [c \in Conn |-> "away"]
  BY <1>3, <1>4 DEF Phases, PhaseOf
<1>9. Entrants = [c \in Conn |-> Nobody] /\ Executions = [c \in Conn |-> 0]
  BY <1>3, <1>4 DEF Entrants, Executions
<1>10. Serving = "yes"
  BY DEF Serving, ServerInit
<1> QED BY <1>2, <1>7, <1>8, <1>9, <1>10, Zenon DEF Promised!Init

\* The TCP server implements Sessions.
THEOREM ServerKeepsPromise ==
  ASSUME NEW frames
  PROVE  ServerSpec(frames) => KeepsPromise
<1>1. AuthReady /\ sessions = {Session(KnownUser)} /\ ServerInit => Admitted /\ Issued /\ Promised!Init
  BY ServerStarts, Zenon
<1>2. Admitted /\ Issued /\ [ServerStep(frames) \/ AuthStep]_<<authVars, serverVars>>
        => (Admitted /\ Issued)' /\ [Promised!Next]_(Promised!vars)
  BY ServerKeeps, Zenon
<1> QED BY <1>1, <1>2, PTL DEF ServerSpec, KeepsPromise, Promised!Spec
=============================================================================
