----------------------------- MODULE Pagination -----------------------------
(***************************************************************************)
(* paginate_ids of crates/bashfuldb-api, and a client that follows its     *)
(* cursors from page to page while objects come and go.  The list that     *)
(* list_objects pages through is empty as long as it has no coordinator    *)
(* that scans; here it is any list.                                        *)
(***************************************************************************)
EXTENDS Naturals, Sequences, FiniteSets, Functions

CONSTANTS
  Id,         \* object ids
  NoCursor, NoLimit, \* a query without cursor, without limit
  MaxPageSize, DefaultPageSize, \* ApiConfig
  MaxEdits    \* bound: changes of the list

ASSUME PageAssumption ==
  /\ MaxPageSize \in Nat /\ DefaultPageSize \in Nat
  /\ \A id \in Id : NoCursor # <<"cursor", id>>

VARIABLES
  listing,  \* the list of ids
  cursor,   \* the cursor the client has
  limit,    \* the limit it asks for, fixed
  walking,  \* it has not seen the last page
  seen,     \* history: the ids it was given, in order
  steady,   \* history: the ids that were in the list all the time
  rewound,  \* history: a cursor named an id no longer in the list
  edits

pageVars == <<listing, cursor, limit, walking, seen, steady, rewound, edits>>

\* encode_cursor and decode_cursor: an opaque text for the id; other texts are no cursor.
EncodeCursor(id) == <<"cursor", id>>
DecodeCursor(c) == c[2]

EffectiveLimit(requested) ==
  LET l == IF requested = NoLimit THEN DefaultPageSize ELSE requested
  IN  IF l < MaxPageSize THEN l ELSE MaxPageSize

\* Where the page after a cursor starts.
StartOf_Inclusive(ids, c) ==
  IF c = NoCursor \/ DecodeCursor(c) \notin Range(ids) THEN 0
  ELSE (CHOOSE i \in DOMAIN ids : ids[i] = DecodeCursor(c)) - 1

StartOf(ids, c) ==
  IF c = NoCursor \/ DecodeCursor(c) \notin Range(ids) THEN 0
  ELSE CHOOSE i \in DOMAIN ids : ids[i] = DecodeCursor(c)

PaginateIds(ids, c, max) ==
  LET start == StartOf(ids, c)
      page == SubSeq(ids, start + 1, IF start + max < Len(ids) THEN start + max ELSE Len(ids))
  IN  [page |-> page,
       next |-> IF start + max < Len(ids) /\ page # <<>> THEN EncodeCursor(page[Len(page)]) ELSE NoCursor]

PageInit ==
  /\ listing \in {s \in UNION {[1 .. n -> Id] : n \in 0 .. Cardinality(Id)} :
                   \A i, j \in DOMAIN s : i < j => s[i] # s[j]}
  /\ limit \in {NoLimit} \cup 0 .. MaxPageSize + 1
  /\ cursor = NoCursor /\ walking = TRUE /\ seen = <<>> /\ steady = Range(listing)
  /\ rewound = FALSE /\ edits = 0

NextPage ==
  LET p == PaginateIds(listing, cursor, EffectiveLimit(limit)) IN
  /\ walking
  /\ seen' = seen \o p.page
  /\ cursor' = p.next
  /\ walking' = (p.next # NoCursor)
  /\ rewound' = (rewound \/ (cursor # NoCursor /\ DecodeCursor(cursor) \notin Range(listing)))
  /\ UNCHANGED <<listing, limit, steady, edits>>

\* Between two pages an object is deleted, or a new one is listed somewhere.
Edit(new) ==
  /\ walking /\ edits < MaxEdits /\ edits' = edits + 1
  /\ listing' = new
  /\ steady' = steady \cap Range(new)
  /\ UNCHANGED <<cursor, limit, walking, seen, rewound>>

Deleted(at) == SubSeq(listing, 1, at - 1) \o SubSeq(listing, at + 1, Len(listing))
Inserted(id, at) == SubSeq(listing, 1, at) \o <<id>> \o SubSeq(listing, at + 1, Len(listing))

PageNext ==
  \/ NextPage /\ Len(seen) < 2 * Cardinality(Id)
  \/ \E at \in DOMAIN listing : Edit(Deleted(at))
  \/ \E id \in Id \ (Range(listing) \cup Range(seen)), at \in 0 .. Len(listing) : Edit(Inserted(id, at))

(* A client that follows the cursors to the end is given every object that was in
   the list all the time, and no object twice, whatever was listed or deleted
   between the pages.  The exception is the deletion of the very object a cursor
   names: paginate_ids then starts again at the first page.  A client that asks
   for pages of no objects is given one empty page, and no cursor.           *)
PagesCoverList ==
  ~rewound /\ EffectiveLimit(limit) > 0 =>
    /\ \A i, j \in DOMAIN seen : i < j => seen[i] # seen[j]
    /\ ~walking => steady \subseteq Range(seen)
=============================================================================
