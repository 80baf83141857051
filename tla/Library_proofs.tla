--------------------------- MODULE Library_proofs ---------------------------
(***************************************************************************)
(* Proofs about Library, for every finite set of callers, any texts and    *)
(* actions, and any number of requests, wonders and faults.                *)
(*                                                                         *)
(* What a handler writes depends on the copies it made of rows that others *)
(* have since changed, so the invariants of the tables are only inductive  *)
(* together with what each request has in hand at each of its steps.       *)
(***************************************************************************)
EXTENDS Library, FiniteSetTheorems, TLAPS
-----------------------------------------------------------------------------
(* The tables.                                                             *)

Statuses == {"active", "saved", "dismissed", "incubating", "superseded"}

Row     == [status : Statuses, held : BOOLEAN, parent : {None} \cup Nat, child : {None} \cup Nat,
            last : {None} \cup Actions, deep : BOOLEAN]
Item    == [content : Contents, copy : Nat]
SeedRow == [status : {"pending", "active", "used"}, item : {None} \cup Item]
Note    == [on : Nat, action : Actions, number : Nat]

(* Rows wonder w can have when n wonders have been created: the parent is  *)
(* older, and the status follows from the child and the last feedback or   *)
(* from the autopilot.                                                     *)
Rows(w, n) ==
    {row \in Row :
       /\ row.parent # None => row.parent < w
       /\ row.child # None => row.child <= n
       /\ row.status = "superseded" => row.child # None
       /\ row.last # None /\ Verdict(row.last) # None =>
            row.status \in {Verdict(row.last), "superseded"} \/ (row.held /\ row.status = "incubating")}

WondersOK ==
    /\ born \in Nat /\ Live \subseteq 1 .. born
    /\ wonders \in [Live -> Row] /\ raced \subseteq Nat
    /\ \A w \in Live : wonders[w] \in Rows(w, born)
    /\ \A w \in Live : wonders[w].parent \in Live \cup {None}

ItemsOK ==
    /\ items \subseteq Item /\ IsFiniteSet(items) /\ edges \subseteq Item \X Item
    /\ seed \in SeedRow /\ SeedStorable(seed)

NotesOK ==
    /\ feedback \subseteq Note /\ unsaid \subseteq Note /\ unwanted \subseteq Nat
    /\ acked \in Seq(Note) /\ \A k \in DOMAIN acked : acked[k].on <= born
    /\ asked \in Nat /\ faults \in Nat

Tables == WondersOK /\ ItemsOK /\ NotesOK
-----------------------------------------------------------------------------
(* The requests.                                                           *)

OnWonder == {"judge", "record", "merge", "verdict", "rerun", "adopt", "supersede"}
OnSeed   == {"activate", "explore", "complete"}
Pcs      == OnWonder \cup OnSeed \cup
            {"idle", "failed", "dream", "stop", "hush", "orphan", "create", "link", "unlink",
             "unseed", "remove"}

Req == [pc : Pcs, on : {None} \cup Nat \cup Item \cup (Item \X Item),
        copy : {None} \cup Row \cup SeedRow, action : {None} \cup Actions,
        child : {None} \cup Nat, todo : SUBSET (Note \cup (Nat \X Row) \cup (Item \X Item)),
        lost : BOOLEAN]

(* What a request has in hand, when n wonders have been created and the    *)
(* deletion of those in U was asked for.                                   *)
InHand(r, n, U) ==
    /\ r.pc \in OnWonder => r.on \in 1 .. n /\ r.copy \in Rows(r.on, n)
    /\ r.pc \in {"judge", "record"} => r.action \in Actions
    /\ r.pc \in {"adopt", "supersede"} => r.child \in 1 .. n /\ r.on < r.child
    /\ r.pc \in {"hush", "orphan"} => r.on \in U
    /\ r.pc = "hush" => \A f \in r.todo : f \in Note /\ f.on = r.on
    /\ r.pc = "orphan" => \A p \in r.todo :
         p \in (1 .. n) \X Row /\ p[2] \in Rows(p[1], n) /\ p[2].parent = r.on
    /\ r.pc \in OnSeed \cup {"unseed"} => r.copy \in SeedRow
    /\ r.pc = "create" => r.on \in Item
    /\ r.pc = "link" => r.on \in Item \X Item
    /\ r.pc = "unlink" => r.todo \subseteq Item \X Item

(* The rows a request relies on, among the wonders L and the items I, are  *)
(* there unless one was deleted under it.                                  *)
Kept(r, L, I) ==
    ~r.lost =>
      /\ r.pc # "failed"
      /\ r.pc \in OnWonder => r.on \in L /\ r.copy.parent \in L \cup {None}
      /\ r.pc \in {"adopt", "supersede"} => r.child \in L
      /\ r.pc = "orphan" => \A p \in r.todo : p[1] \in L
      /\ r.pc \in OnSeed => r.copy.item \in I \cup {None}
      /\ r.pc = "link" => {r.on[1], r.on[2]} \subseteq I

Holds(r) == InHand(r, born, unwanted) /\ Kept(r, Live, items)

Requested == req \in [Callers -> Req] /\ \A c \in Callers : Holds(req[c])

Sound == Tables /\ Requested
-----------------------------------------------------------------------------
(* Lemmas about one step.                                                  *)

LEMMA RowsGrow == ASSUME NEW w, NEW n \in Nat, NEW k \in Nat, n <= k
                  PROVE Rows(w, n) \subseteq Rows(w, k)
  BY DEF Rows, Row

(* More wonders and items leave a request what it has.                     *)
LEMMA HandsStay ==
    ASSUME NEW r \in Req, NEW n \in Nat, NEW k \in Nat, n <= k, NEW U, NEW V, U \subseteq V,
           InHand(r, n, U)
    PROVE InHand(r, k, V)
<1>1. \A w : Rows(w, n) \subseteq Rows(w, k)
  BY RowsGrow
<1>2. \A x : x \in 1 .. n => x \in 1 .. k
  OBVIOUS
<1>3. r.pc = "orphan" => \A p \in r.todo :
         p \in (1 .. k) \X Row /\ p[2] \in Rows(p[1], k) /\ p[2].parent = r.on
  <2> SUFFICES ASSUME r.pc = "orphan", NEW p \in r.todo
               PROVE p \in (1 .. k) \X Row /\ p[2] \in Rows(p[1], k) /\ p[2].parent = r.on
    OBVIOUS
  <2>1. p \in (1 .. n) \X Row /\ p[2] \in Rows(p[1], n) /\ p[2].parent = r.on
    BY DEF InHand
  <2> QED
    BY <2>1, <1>1, <1>2
<1>4. r.pc \in OnWonder => r.on \in 1 .. k /\ r.copy \in Rows(r.on, k)
  BY <1>1, <1>2 DEF InHand
<1>5. r.pc \in {"adopt", "supersede"} => r.child \in 1 .. k /\ r.on < r.child
  BY <1>2 DEF InHand
<1> QED
  BY <1>3, <1>4, <1>5 DEF InHand

LEMMA KeptStays ==
    ASSUME NEW r, NEW L, NEW M, L \subseteq M, NEW I, NEW J, I \subseteq J, Kept(r, L, I)
    PROVE Kept(r, M, J)
  BY DEF Kept

(* A step of caller c that deletes nothing.                                *)
LEMMA Advance ==
    ASSUME Sound, NEW c \in Callers, NEW q \in Req, req' = [req EXCEPT ![c] = q],
           born \in Nat /\ born' \in Nat /\ born <= born', Live \subseteq Live',
           items \subseteq items', unwanted \subseteq unwanted',
           InHand(q, born', unwanted'), Kept(q, Live', items'), Tables'
    PROVE Sound'
<1>1. req' \in [Callers -> Req]
  BY DEF Sound, Requested
<1>2. ASSUME NEW d \in Callers PROVE InHand(req'[d], born', unwanted') /\ Kept(req'[d], Live', items')
  <2>1. req[d] \in Req /\ InHand(req[d], born, unwanted) /\ Kept(req[d], Live, items)
    BY DEF Sound, Requested, Holds
  <2>2. CASE d = c
    BY <2>2 DEF Sound, Requested
  <2>3. CASE d # c
    <3>1. req'[d] = req[d]
      BY <2>3 DEF Sound, Requested
    <3>2. InHand(req[d], born', unwanted')
      BY <2>1, HandsStay
    <3>3. Kept(req[d], Live', items')
      BY <2>1, KeptStays
    <3> QED
      BY <3>1, <3>2, <3>3
  <2> QED
    BY <2>2, <2>3
<1> QED
  BY <1>1, <1>2 DEF Sound, Requested, Holds

(* The step in which caller c has deleted a row.                           *)
LEMMA Deleting ==
    ASSUME Sound, NEW c \in Callers, EndDeleting(c), born' = born, unwanted' = unwanted, Tables'
    PROVE Sound'
<1>1. ASSUME NEW d \in Callers
      PROVE req'[d] \in Req /\ InHand(req'[d], born', unwanted') /\ Kept(req'[d], Live', items')
  <2>1. req[d] \in Req /\ InHand(req[d], born, unwanted) /\ Kept(req[d], Live, items)
    BY DEF Sound, Requested, Holds
  <2>2. CASE d = c
    <3>1. req'[d] = Idle
      BY <2>2 DEF EndDeleting
    <3> QED
      BY <3>1 DEF Idle, Req, Pcs, InHand, Kept, OnWonder, OnSeed
  <2>3. CASE d # c
    <3> DEFINE q == [req[d] EXCEPT !.lost = req[d].lost \/ Busy(d)]
    <3>1. req'[d] = q
      BY <2>3 DEF EndDeleting
    <3>2. /\ q \in Req /\ q.pc = req[d].pc /\ q.on = req[d].on /\ q.copy = req[d].copy
          /\ q.action = req[d].action /\ q.child = req[d].child /\ q.todo = req[d].todo
      BY <2>1 DEF Req
    <3>3. q.lost = (req[d].lost \/ Busy(d))
      BY <2>1 DEF Req
    <3>4. InHand(q, born, unwanted)
      BY <3>2, <2>1 DEF InHand
    <3>5. Kept(q, Live', items')
      <4>1. CASE Busy(d)
        BY <4>1, <3>3 DEF Kept
      <4>2. CASE ~Busy(d)
        BY <4>2, <3>2, <3>3, <2>1 DEF Kept, Busy, OnWonder, OnSeed
      <4> QED
        BY <4>1, <4>2
    <3> QED
      BY <3>1, <3>2, <3>4, <3>5
  <2> QED
    BY <2>2, <2>3
<1>2. req' \in [Callers -> Req]
  BY <1>1 DEF EndDeleting
<1> QED
  BY <1>1, <1>2 DEF Sound, Requested, Holds

(* The tables, one at a time.                                              *)
LEMMA WondersStay ==
    ASSUME WondersOK, wonders' = wonders, born' = born, raced' = raced
    PROVE WondersOK' /\ Live' = Live
  BY DEF WondersOK, Live

LEMMA ItemsStay ==
    ASSUME ItemsOK, items' = items, edges' = edges, seed' = seed
    PROVE ItemsOK'
  BY DEF ItemsOK, SeedStorable

LEMMA NotesStay ==
    ASSUME NotesOK, born \in Nat /\ born' \in Nat /\ born <= born', feedback' = feedback, acked' = acked, unwanted' = unwanted,
           unsaid' = unsaid, asked' \in Nat, faults' \in Nat
    PROVE NotesOK'
<1>1. \A k \in DOMAIN acked : acked[k] \in Note
  BY DEF NotesOK
<1>2. \A k \in DOMAIN acked : acked[k].on \in Nat /\ acked[k].on <= born'
  BY <1>1 DEF NotesOK, Note
<1> QED
  BY <1>2 DEF NotesOK

LEMMA SavedRow ==
    ASSUME WondersOK, NEW w \in Nat, NEW copy, NEW row \in Rows(w, born),
           StoreWonder(w, copy, row), born' = born
    PROVE WondersOK' /\ Live' = Live
<1>1. Live' = Live
  BY DEF StoreWonder, Storable, Live, WondersOK
<1>2. wonders' \in [Live' -> Row]
  BY <1>1 DEF StoreWonder, WondersOK, Rows, Live
<1>3. \A v \in Live : wonders'[v] = IF v = w THEN row ELSE wonders[v]
  BY DEF StoreWonder, WondersOK, Live
<1>4. raced' \subseteq Nat
  BY DEF StoreWonder, WondersOK
<1>5. \A v \in Live' : wonders'[v] \in Rows(v, born')
  BY <1>1, <1>3 DEF WondersOK
<1>6. \A v \in Live' : wonders'[v].parent \in Live' \cup {None}
  BY <1>1, <1>3 DEF WondersOK, StoreWonder, Storable
<1> QED
  BY <1>1, <1>2, <1>4, <1>5, <1>6 DEF WondersOK

LEMMA FreshRow ==
    ASSUME NEW w \in Nat, NEW n \in Nat
    PROVE Fresh \in Rows(w, n) /\ Fresh.parent = None /\ Fresh.child = None /\ Fresh.last = None
  BY DEF Fresh, Rows, Row, Statuses

LEMMA Created ==
    ASSUME WondersOK, CreateWonder, raced' = raced
    PROVE /\ WondersOK' /\ born' = born + 1 /\ born' \in Nat /\ Live' = Live \cup {born'}
          /\ born' \notin Live /\ wonders'[born'] = Fresh
          /\ \A v \in Live : wonders'[v] = wonders[v]
<1>1. /\ born \in Nat /\ born' = born + 1 /\ born' \in Nat /\ born' \notin Live
  BY DEF WondersOK, CreateWonder
<1>2. Live' = Live \cup {born'} /\ wonders' = [v \in Live \cup {born'} |-> IF v \in Live THEN wonders[v] ELSE Fresh]
  BY <1>1 DEF CreateWonder, Live
<1>3. wonders'[born'] = Fresh /\ \A v \in Live : wonders'[v] = wonders[v]
  BY <1>1, <1>2
<1>4. Fresh \in Rows(born', born') /\ Fresh \in Row /\ Fresh.parent = None
  BY <1>1, FreshRow DEF Rows
<1>5. wonders' \in [Live' -> Row] /\ Live' \subseteq 1 .. born'
  BY <1>1, <1>2, <1>4 DEF WondersOK
<1>6. \A v \in Live' : wonders'[v] \in Rows(v, born')
  <2>1. \A v : Rows(v, born) \subseteq Rows(v, born')
    BY <1>1, RowsGrow
  <2> QED
    BY <2>1, <1>2, <1>3, <1>4 DEF WondersOK
<1>7. \A v \in Live' : wonders'[v].parent \in Live' \cup {None}
  BY <1>2, <1>3, <1>4 DEF WondersOK
<1> QED
  BY <1>1, <1>2, <1>3, <1>5, <1>6, <1>7 DEF WondersOK

LEMMA Erased ==
    ASSUME WondersOK, NEW w, EraseWonder(w), born' = born, raced' = raced
    PROVE /\ WondersOK' /\ Live' = Live \ {w}
          /\ \A v \in Live' : \E p \in {wonders[v].parent, None} :
               wonders'[v] = [wonders[v] EXCEPT !.parent = p]
<1>1. Live' = Live \ {w}
  BY DEF EraseWonder, Live
<1>2. \A v \in Live' : wonders'[v] = IF wonders[v].parent = w THEN [wonders[v] EXCEPT !.parent = None] ELSE wonders[v]
  BY <1>1 DEF EraseWonder, Live
<1>3. ASSUME NEW v \in Live'
      PROVE /\ wonders'[v] \in Rows(v, born) /\ wonders'[v] \in Row
            /\ wonders'[v].parent \in (Live \ {w}) \cup {None}
            /\ \E p \in {wonders[v].parent, None} : wonders'[v] = [wonders[v] EXCEPT !.parent = p]
  <2>1. v \in Live /\ wonders[v] \in Row /\ wonders[v] \in Rows(v, born) /\ wonders[v].parent \in Live \cup {None}
    BY <1>1, <1>3 DEF WondersOK
  <2>2. CASE wonders[v].parent = w
    <3>1. wonders'[v] = [wonders[v] EXCEPT !.parent = None]
      BY <1>2, <1>3, <2>2
    <3>2. wonders'[v] \in Row
      BY <2>1, <3>1 DEF Row
    <3> QED
      BY <2>1, <3>1, <3>2 DEF Rows, Row
  <2>3. CASE wonders[v].parent # w
    <3>1. wonders'[v] = wonders[v] /\ wonders[v] = [wonders[v] EXCEPT !.parent = wonders[v].parent]
      BY <1>2, <1>3, <2>1, <2>3 DEF Row
    <3> QED
      BY <2>1, <2>3, <3>1
  <2> QED
    BY <2>2, <2>3
<1>4. wonders' = [v \in Live' |-> wonders'[v]]
  BY DEF EraseWonder, Live
<1>5. wonders' \in [Live' -> Row]
  BY <1>3, <1>4
<1> QED
  BY <1>1, <1>3, <1>5 DEF WondersOK
-----------------------------------------------------------------------------
(* Steps that only read, and how requests start and end.                   *)

Grows == /\ born' \in Nat /\ born <= born' /\ Live \subseteq Live'
         /\ items \subseteq items' /\ unwanted \subseteq unwanted'

LEMMA Reading ==
    ASSUME Sound, UNCHANGED <<rows, born, acked, unsaid, raced>>,
           unwanted \subseteq unwanted', unwanted' \subseteq Nat, asked' \in Nat, faults' \in Nat
    PROVE Tables' /\ Grows /\ Live' = Live
<1>1. WondersOK /\ ItemsOK /\ NotesOK /\ born \in Nat
  BY DEF Sound, Tables, WondersOK
<1>2. WondersOK' /\ Live' = Live
  BY <1>1, WondersStay DEF rows
<1>3. ItemsOK'
  BY <1>1, ItemsStay DEF rows
<1>4. NotesOK'
  BY <1>1 DEF NotesOK, rows
<1> QED
  BY <1>1, <1>2, <1>3, <1>4 DEF Tables, Grows, rows

LEMMA Counters == ASSUME Sound
                  PROVE asked \in Nat /\ faults \in Nat /\ asked + 1 \in Nat /\ faults + 1 \in Nat
                        /\ unwanted \subseteq Nat /\ born \in Nat /\ Live \subseteq 1 .. born
  BY DEF Sound, Tables, NotesOK, WondersOK

(* What the request of a caller has in hand.                               *)
LEMMA Hand ==
    ASSUME Sound, NEW c \in Callers
    PROVE /\ req[c] \in Req /\ InHand(req[c], born, unwanted) /\ Kept(req[c], Live, items)
  BY DEF Sound, Requested, Holds

LEMMA Acting ==
    ASSUME Sound, NEW c \in Callers, NEW q \in Req, req' = [req EXCEPT ![c] = q], Grows, Tables',
           InHand(q, born', unwanted'), Kept(q, Live', items')
    PROVE Sound'
<1>1. born \in Nat
  BY Counters
<1> QED
  BY <1>1, Advance DEF Grows

LEMMA IdleHolds ==
    ASSUME NEW l \in BOOLEAN, NEW n, NEW U, NEW L, NEW I
    PROVE /\ Idle \in Req /\ InHand(Idle, n, U) /\ Kept(Idle, L, I)
          /\ [Idle EXCEPT !.pc = "failed", !.lost = l] \in Req
          /\ InHand([Idle EXCEPT !.pc = "failed", !.lost = l], n, U)
          /\ l => Kept([Idle EXCEPT !.pc = "failed", !.lost = l], L, I)
<1>1. Idle \in Req /\ [Idle EXCEPT !.pc = "failed", !.lost = l] \in Req
  BY DEF Idle, Req, Pcs, OnWonder, OnSeed
<1>2. InHand(Idle, n, U) /\ Kept(Idle, L, I)
  BY DEF Idle, InHand, Kept, OnWonder, OnSeed
<1>3. InHand([Idle EXCEPT !.pc = "failed", !.lost = l], n, U)
  BY DEF Idle, InHand, OnWonder, OnSeed
<1>4. l => Kept([Idle EXCEPT !.pc = "failed", !.lost = l], L, I)
  BY DEF Idle, Kept
<1> QED
  BY <1>1, <1>2, <1>3, <1>4

LEMMA Responded ==
    ASSUME Sound, NEW c \in Callers, Respond(c), Grows, Tables' PROVE Sound'
<1>1. req' = [req EXCEPT ![c] = Idle]
  BY DEF Respond
<1>2. TRUE \in BOOLEAN
  OBVIOUS
<1> QED
  BY <1>1, <1>2, IdleHolds, Acting

LEMMA Raised ==
    ASSUME Sound, NEW c \in Callers, Raise(c), req[c].lost, Grows, Tables' PROVE Sound'
<1> DEFINE q == [Idle EXCEPT !.pc = "failed", !.lost = req[c].lost]
<1>1. req' = [req EXCEPT ![c] = q]
  BY DEF Raise
<1>2. req[c].lost \in BOOLEAN
  BY Hand DEF Req
<1>3. q \in Req /\ InHand(q, born', unwanted') /\ Kept(q, Live', items')
  BY <1>2, IdleHolds
<1> HIDE DEF q
<1> QED
  BY <1>1, <1>3, Acting

(* A request that starts with a wonder, an item, or nothing in hand.       *)
LEMMA SubmitSound ==
    ASSUME Sound, NEW c \in Callers, NEW w \in Live, NEW action \in Actions, Submit(c, w, action)
    PROVE Sound'
<1> DEFINE q == [Idle EXCEPT !.pc = "judge", !.on = w, !.copy = wonders[w], !.action = action]
<1>1. Tables' /\ Grows /\ Live' = Live /\ UNCHANGED <<born, unwanted, items>>
  BY Counters, Reading DEF Submit, history, rows
<1>2. req' = [req EXCEPT ![c] = q]
  BY DEF Submit
<1>3. w \in 1 .. born /\ w \in Nat /\ wonders[w] \in Row /\ wonders[w] \in Rows(w, born)
      /\ wonders[w].parent \in Live \cup {None}
  BY DEF Sound, Tables, WondersOK
<1>4. q \in Req
  BY <1>3 DEF Idle, Req, Pcs, OnWonder, OnSeed
<1>5. InHand(q, born, unwanted) /\ Kept(q, Live, items)
  BY <1>3 DEF Idle, InHand, Kept, OnWonder, OnSeed
<1> HIDE DEF q
<1> QED
  BY <1>1, <1>2, <1>4, <1>5, Acting

LEMMA ExploreSound ==
    ASSUME Sound, NEW c \in Callers, NEW w \in Live, NEW pc \in {"merge", "verdict", "rerun"},
           Begin(c, pc, w, wonders[w]), UNCHANGED <<rows, born, history, faults>>
    PROVE Sound'
<1> DEFINE q == [Idle EXCEPT !.pc = pc, !.on = w, !.copy = wonders[w]]
<1>1. Tables' /\ Grows /\ Live' = Live /\ UNCHANGED <<born, unwanted, items>>
  BY Counters, Reading DEF Begin, history, rows
<1>2. req' = [req EXCEPT ![c] = q]
  BY DEF Begin
<1>3. w \in 1 .. born /\ w \in Nat /\ wonders[w] \in Row /\ wonders[w] \in Rows(w, born)
      /\ wonders[w].parent \in Live \cup {None}
  BY DEF Sound, Tables, WondersOK
<1>4. q \in Req
  BY <1>3 DEF Idle, Req, Pcs, OnWonder, OnSeed
<1>5. InHand(q, born, unwanted) /\ Kept(q, Live, items)
  BY <1>3 DEF Idle, InHand, Kept, OnWonder, OnSeed
<1> HIDE DEF q
<1> QED
  BY <1>1, <1>2, <1>4, <1>5, Acting

LEMMA WanderSound ==
    ASSUME Sound, NEW c \in Callers, Wander(c) PROVE Sound'
<1> DEFINE q == [Idle EXCEPT !.pc = "activate", !.on = None, !.copy = seed]
<1>1. Tables' /\ Grows /\ Live' = Live /\ UNCHANGED <<born, unwanted, items>>
  BY Counters, Reading DEF Wander, Begin, history, rows
<1>2. req' = [req EXCEPT ![c] = q]
  BY DEF Wander, Begin
<1>3. seed \in SeedRow /\ seed.item \in items \cup {None}
  BY DEF Sound, Tables, ItemsOK, SeedStorable
<1>4. q \in Req
  BY <1>3 DEF Idle, Req, Pcs, OnWonder, OnSeed
<1>5. InHand(q, born, unwanted) /\ Kept(q, Live, items)
  BY <1>3 DEF Idle, InHand, Kept, OnWonder, OnSeed
<1> HIDE DEF q
<1> QED
  BY <1>1, <1>2, <1>4, <1>5, Acting

LEMMA IncubateSound ==
    ASSUME Sound, NEW c \in Callers, Incubate(c) PROVE Sound'
<1> DEFINE q == [Idle EXCEPT !.pc = "dream", !.on = None, !.copy = None]
<1>1. Tables' /\ Grows /\ Live' = Live /\ UNCHANGED <<born, unwanted, items>>
  BY Counters, Reading DEF Incubate, Begin, history, rows
<1>2. req' = [req EXCEPT ![c] = q]
  BY DEF Incubate, Begin
<1>4. q \in Req
  BY DEF Idle, Req, Pcs, OnWonder, OnSeed
<1>5. InHand(q, born, unwanted) /\ Kept(q, Live, items)
  BY DEF Idle, InHand, Kept, OnWonder, OnSeed
<1> HIDE DEF q
<1> QED
  BY <1>1, <1>2, <1>4, <1>5, Acting

LEMMA IngestSound ==
    ASSUME Sound, NEW c \in Callers, NEW x \in Contents, Ingest(c, x) PROVE Sound'
<1> DEFINE q == [Idle EXCEPT !.pc = "create", !.on = [content |-> x, copy |-> asked + 1], !.copy = None]
<1>1. Tables' /\ Grows /\ Live' = Live /\ UNCHANGED <<born, unwanted, items>>
  BY Counters, Reading DEF Ingest, Begin, history, rows
<1>2. req' = [req EXCEPT ![c] = q]
  BY DEF Ingest, Begin
<1>3. [content |-> x, copy |-> asked + 1] \in Item
  BY Counters DEF Item
<1>4. q \in Req
  BY <1>3 DEF Idle, Req, Pcs, OnWonder, OnSeed
<1>5. InHand(q, born, unwanted) /\ Kept(q, Live, items)
  BY <1>3 DEF Idle, InHand, Kept, OnWonder, OnSeed
<1> HIDE DEF q
<1> QED
  BY <1>1, <1>2, <1>4, <1>5, Acting

LEMMA CreateEdgeSound ==
    ASSUME Sound, NEW c \in Callers, NEW i \in items, NEW j \in items, CreateEdge(c, i, j)
    PROVE Sound'
<1> DEFINE q == [Idle EXCEPT !.pc = "link", !.on = <<i, j>>, !.copy = None]
<1>1. Tables' /\ Grows /\ Live' = Live /\ UNCHANGED <<born, unwanted, items>>
  BY Counters, Reading DEF CreateEdge, Begin, history, rows
<1>2. req' = [req EXCEPT ![c] = q]
  BY DEF CreateEdge, Begin
<1>3. <<i, j>> \in Item \X Item /\ {<<i, j>>[1], <<i, j>>[2]} \subseteq items
  BY DEF Sound, Tables, ItemsOK
<1>4. q \in Req
  BY <1>3 DEF Idle, Req, Pcs, OnWonder, OnSeed
<1>5. InHand(q, born, unwanted)
  BY <1>3 DEF Idle, InHand, OnWonder, OnSeed
<1>6. Kept(q, Live, items)
  BY <1>3 DEF Idle, Kept, OnWonder, OnSeed
<1> HIDE DEF q
<1> QED
  BY <1>1, <1>2, <1>4, <1>5, <1>6, Acting

LEMMA DeleteItemSound ==
    ASSUME Sound, NEW c \in Callers, NEW i \in items, DeleteItem(c, i) PROVE Sound'
<1> DEFINE todo == {e \in edges : i \in {e[1], e[2]}}
           q == [Idle EXCEPT !.pc = "unlink", !.on = i, !.todo = todo]
<1>1. Tables' /\ Grows /\ Live' = Live /\ UNCHANGED <<born, unwanted, items>>
  BY Counters, Reading DEF DeleteItem, history, rows
<1>2. req' = [req EXCEPT ![c] = q]
  BY DEF DeleteItem
<1>3. i \in Item /\ todo \subseteq Item \X Item
  BY DEF Sound, Tables, ItemsOK
<1> HIDE DEF todo
<1>4. q \in Req
  BY <1>3 DEF Idle, Req, Pcs, OnWonder, OnSeed
<1>5. InHand(q, born, unwanted) /\ Kept(q, Live, items)
  BY <1>3 DEF Idle, InHand, Kept, OnWonder, OnSeed
<1> HIDE DEF q
<1> QED
  BY <1>1, <1>2, <1>4, <1>5, Acting

LEMMA DeleteWonderSound ==
    ASSUME Sound, NEW c \in Callers, NEW w \in Live, DeleteWonder(c, w) PROVE Sound'
<1> DEFINE todo == {f \in feedback : f.on = w}
           q == [Idle EXCEPT !.pc = "hush", !.on = w, !.todo = todo]
<1>0. w \in Nat
  BY Counters
<1>1. Tables' /\ Grows /\ Live' = Live /\ UNCHANGED <<born, items>> /\ unwanted' = unwanted \cup {w}
  BY <1>0, Counters, Reading DEF DeleteWonder, rows
<1>2. req' = [req EXCEPT ![c] = q]
  BY DEF DeleteWonder
<1>3. todo \subseteq Note /\ \A f \in todo : f.on = w
  BY DEF Sound, Tables, NotesOK
<1> HIDE DEF todo
<1>4. q \in Req
  BY <1>0, <1>3 DEF Idle, Req, Pcs, OnWonder, OnSeed
<1>5. InHand(q, born, unwanted \cup {w}) /\ Kept(q, Live, items)
  BY <1>3 DEF Idle, InHand, Kept, OnWonder, OnSeed
<1> HIDE DEF q
<1> QED
  BY <1>1, <1>2, <1>4, <1>5, Acting

LEMMA DeleteFeedbackSound ==
    ASSUME Sound, NEW c \in Callers, NEW f \in feedback, DeleteFeedback(c, f) PROVE Sound'
<1>1. WondersOK /\ ItemsOK /\ NotesOK /\ born \in Nat
  BY DEF Sound, Tables, WondersOK
<1>2. WondersOK' /\ Live' = Live
  BY <1>1, WondersStay DEF DeleteFeedback
<1>3. ItemsOK'
  BY <1>1, ItemsStay DEF DeleteFeedback
<1>4. NotesOK'
  BY <1>1 DEF NotesOK, DeleteFeedback
<1>5. req' = req /\ UNCHANGED <<born, unwanted, items>>
  BY DEF DeleteFeedback
<1> QED
  BY <1>2, <1>3, <1>4, <1>5 DEF Sound, Tables, Requested, Holds

LEMMA FaultSound ==
    ASSUME Sound, NEW c \in Callers, Fault(c) PROVE Sound'
<1> DEFINE q == [Idle EXCEPT !.pc = "failed", !.lost = TRUE]
<1>1. Tables' /\ Grows
  BY Counters, Reading DEF Fault, history, rows
<1>2. req' = [req EXCEPT ![c] = q]
  BY DEF Fault
<1>3. q \in Req /\ InHand(q, born', unwanted') /\ Kept(q, Live', items')
  BY IdleHolds
<1> HIDE DEF q
<1> QED
  BY <1>1, <1>2, <1>3, Acting
-----------------------------------------------------------------------------
(* Steps that write a wonder's row.                                        *)

(* A step of a request that has stored its copy of w or was refused.       *)
LEMMA Stores ==
    ASSUME Sound, NEW w \in Nat, NEW copy, NEW row \in Rows(w, born), StoreWonder(w, copy, row),
           UNCHANGED <<items, edges, seed, feedback, asked, born, acked, unwanted, unsaid, faults>>
    PROVE Tables' /\ Grows /\ Live' = Live
<1>1. WondersOK /\ ItemsOK /\ NotesOK /\ born \in Nat
  BY DEF Sound, Tables, WondersOK
<1>2. WondersOK' /\ Live' = Live
  BY <1>1, SavedRow
<1>3. ItemsOK'
  BY <1>1, ItemsStay
<1>4. NotesOK'
  BY <1>1, Counters, NotesStay
<1> QED
  BY <1>1, <1>2, <1>3, <1>4 DEF Tables, Grows

LEMMA Refuses ==
    ASSUME Sound, NEW c \in Callers, NEW w, NEW row, RefuseWonder(c, w, row),
           w \notin Live \/ row.parent \notin Live \cup {None} => req[c].lost,
           UNCHANGED <<items, edges, seed, feedback, asked, born, acked, unwanted, unsaid, faults>>
    PROVE Sound'
<1>1. Tables' /\ Grows
  BY Counters, Reading DEF RefuseWonder, rows
<1>2. Raise(c) /\ req[c].lost
  BY DEF RefuseWonder, Storable
<1> QED
  BY <1>1, <1>2, Raised

(* The rows that handlers make of their copies.                            *)
LEMMA JudgedRow ==
    ASSUME NEW w, NEW n, NEW copy \in Rows(w, n), NEW action \in Actions
    PROVE /\ Judged(copy, action) \in Rows(w, n) /\ Judged(copy, action).parent = copy.parent
          /\ Judged(copy, action).child = copy.child /\ Judged(copy, action).last = action
<1> DEFINE s == IF Verdict(action) = None THEN copy.status ELSE Verdict(action)
           h == copy.held /\ Verdict(action) = None
           row == [copy EXCEPT !.last = action, !.status = s, !.held = h]
<1>1. copy \in Row
  BY DEF Rows
<1>2. Verdict(action) \in {"saved", "dismissed", "incubating", None}
  BY DEF Verdict
<1>3. s \in Statuses
  BY <1>1, <1>2 DEF Row, Statuses
<1>4. Judged(copy, action) = row
  BY <1>1 DEF Judged, Row
<1>5. /\ row \in Row /\ row.parent = copy.parent /\ row.child = copy.child
      /\ row.last = action /\ row.status = s
  BY <1>1, <1>3 DEF Row
<1>6. s = "superseded" => copy.child # None
  BY <1>2 DEF Rows
<1>7. Verdict(action) # None => s = Verdict(action)
  OBVIOUS
<1> HIDE DEF row, s
<1>8. row \in Rows(w, n)
  BY <1>5, <1>6, <1>7 DEF Rows
<1> QED
  BY <1>4, <1>5, <1>8

LEMMA MergedRow ==
    ASSUME NEW w, NEW n, NEW copy \in Rows(w, n)
    PROVE /\ [copy EXCEPT !.deep = TRUE] \in Rows(w, n)
          /\ [copy EXCEPT !.deep = TRUE].parent = copy.parent
          /\ [copy EXCEPT !.deep = TRUE].child = copy.child
          /\ [copy EXCEPT !.deep = TRUE].last = copy.last
  BY DEF Rows, Row

LEMMA PronouncedRow ==
    ASSUME NEW w, NEW n, NEW copy \in Rows(w, n), NEW row \in {copy, Refused(copy)}
    PROVE /\ row \in Rows(w, n) /\ row \in Row
          /\ row.parent = copy.parent /\ row.child = copy.child /\ row.last = copy.last
<1>1. copy \in Row
  BY DEF Rows
<1>2. CASE row = copy
  BY <1>1, <1>2
<1>3. CASE row = Refused(copy)
  <2>1. /\ row \in Row /\ row.parent = copy.parent /\ row.child = copy.child
        /\ row.last = copy.last /\ row.status = "incubating" /\ row.held
    BY <1>1, <1>3 DEF Refused, Row, Statuses
  <2>2. copy.parent # None => copy.parent < w
    BY DEF Rows
  <2>3. copy.child # None => copy.child <= n
    BY DEF Rows
  <2> QED
    BY <2>1, <2>2, <2>3 DEF Rows
<1> QED
  BY <1>2, <1>3

LEMMA OrphanedRow ==
    ASSUME NEW w, NEW n, NEW copy \in Rows(w, n)
    PROVE /\ [copy EXCEPT !.parent = None] \in Rows(w, n)
          /\ [copy EXCEPT !.parent = None].parent = None
          /\ [copy EXCEPT !.parent = None].child = copy.child
          /\ [copy EXCEPT !.parent = None].last = copy.last
  BY DEF Rows, Row

LEMMA AdoptedRow ==
    ASSUME NEW w \in Nat, NEW n \in Nat, NEW p \in Nat, p < w
    PROVE /\ [Fresh EXCEPT !.parent = p] \in Rows(w, n)
          /\ [Fresh EXCEPT !.parent = p].parent = p
          /\ [Fresh EXCEPT !.parent = p].child = None
          /\ [Fresh EXCEPT !.parent = p].last = None
  BY DEF Fresh, Rows, Row, Statuses

LEMMA SupersededRow ==
    ASSUME NEW w, NEW n \in Nat, NEW copy \in Rows(w, n), NEW child \in 1 .. n
    PROVE /\ Superseded(copy, child) \in Rows(w, n)
          /\ Superseded(copy, child).parent = copy.parent
          /\ Superseded(copy, child).child = child
          /\ Superseded(copy, child).last = copy.last
<1>1. copy \in Row /\ child # None /\ child \in Nat
  BY ConstantsAssumption DEF Rows
<1>2. /\ Superseded(copy, child) \in Row
      /\ Superseded(copy, child).parent = copy.parent
      /\ Superseded(copy, child).child = child
      /\ Superseded(copy, child).last = copy.last
      /\ Superseded(copy, child).status = "superseded"
  BY <1>1 DEF Superseded, Row, Statuses
<1> HIDE DEF Superseded
<1>3. Superseded(copy, child) \in Rows(w, n)
  BY <1>1, <1>2 DEF Rows
<1> QED
  BY <1>2, <1>3

LEMMA JudgeSound ==
    ASSUME Sound, NEW c \in Callers, Judge(c) PROVE Sound'
<1> DEFINE r == req[c]
           row == Judged(r.copy, r.action)
<1>1. r \in Req /\ r.pc = "judge" /\ InHand(r, born, unwanted) /\ Kept(r, Live, items)
  BY Hand DEF Judge, At
<1>2. r.on \in 1 .. born /\ r.on \in Nat /\ r.copy \in Rows(r.on, born) /\ r.action \in Actions
  BY <1>1, Counters DEF InHand, OnWonder
<1>3. row \in Rows(r.on, born) /\ row.parent = r.copy.parent
  BY <1>2, JudgedRow
<1>4. ~r.lost => r.on \in Live /\ r.copy.parent \in Live \cup {None}
  BY <1>1 DEF Kept, OnWonder
<1>5. UNCHANGED <<items, edges, seed, feedback, asked, born, acked, unwanted, unsaid, faults>>
  BY DEF Judge
<1>6. \/ StoreWonder(r.on, r.copy, row) /\ Goto(c, "record")
      \/ RefuseWonder(c, r.on, row)
  BY DEF Judge
<1>7. CASE RefuseWonder(c, r.on, row)
  BY <1>3, <1>4, <1>5, <1>7, Refuses
<1>8. CASE StoreWonder(r.on, r.copy, row) /\ Goto(c, "record")
  <2> DEFINE q == [req[c] EXCEPT !.pc = "record"]
  <2>1. Tables' /\ Grows /\ Live' = Live
    BY <1>2, <1>3, <1>5, <1>8, Stores
  <2>2. req' = [req EXCEPT ![c] = q]
    BY <1>8 DEF Goto
  <2>3. q \in Req
    BY <1>1 DEF Req, Pcs, OnWonder
  <2>4. InHand(q, born, unwanted) /\ Kept(q, Live, items)
    BY <1>1 DEF Req, InHand, Kept, OnWonder, OnSeed
  <2> HIDE DEF q
  <2> QED
    BY <2>1, <2>2, <2>3, <2>4, <1>5, Acting
<1> QED
  BY <1>6, <1>7, <1>8

LEMMA MergeSound ==
    ASSUME Sound, NEW c \in Callers, Merge(c) PROVE Sound'
<1> DEFINE r == req[c]
           row == [r.copy EXCEPT !.deep = TRUE]
<1>1. r \in Req /\ r.pc = "merge" /\ InHand(r, born, unwanted) /\ Kept(r, Live, items)
  BY Hand DEF Merge, At
<1>2. r.on \in Nat /\ r.copy \in Rows(r.on, born)
  BY <1>1, Counters DEF InHand, OnWonder
<1>3. row \in Rows(r.on, born) /\ row.parent = r.copy.parent
  BY <1>2, MergedRow
<1>4. ~r.lost => r.on \in Live /\ r.copy.parent \in Live \cup {None}
  BY <1>1 DEF Kept, OnWonder
<1>5. UNCHANGED <<items, edges, seed, feedback, asked, born, acked, unwanted, unsaid, faults>>
  BY DEF Merge
<1>6. \/ StoreWonder(r.on, r.copy, row) /\ Respond(c)
      \/ RefuseWonder(c, r.on, row)
  BY DEF Merge
<1> HIDE DEF row
<1>7. CASE RefuseWonder(c, r.on, row)
  BY <1>3, <1>4, <1>5, <1>7, Refuses
<1>8. CASE StoreWonder(r.on, r.copy, row) /\ Respond(c)
  BY <1>2, <1>3, <1>5, <1>8, Stores, Responded
<1> QED
  BY <1>6, <1>7, <1>8

LEMMA PronounceSound ==
    ASSUME Sound, NEW c \in Callers, Pronounce(c) PROVE Sound'
<1> DEFINE r == req[c]
<1>1. r \in Req /\ r.pc = "verdict" /\ InHand(r, born, unwanted) /\ Kept(r, Live, items)
  BY Hand DEF Pronounce, At
<1>2. r.on \in Nat /\ r.copy \in Rows(r.on, born)
  BY <1>1, Counters DEF InHand, OnWonder
<1>3. ~r.lost => r.on \in Live /\ r.copy.parent \in Live \cup {None}
  BY <1>1 DEF Kept, OnWonder
<1>4. UNCHANGED <<items, edges, seed, feedback, asked, born, acked, unwanted, unsaid, faults>>
  BY DEF Pronounce
<1>5. CASE Respond(c) /\ UNCHANGED <<wonders, raced>>
  <2>1. Tables' /\ Grows /\ Live' = Live
    BY <1>4, <1>5, Counters, Reading DEF rows, Live
  <2> QED
    BY <2>1, <1>4, <1>5, Responded
<1>6. ASSUME NEW row \in {r.copy, Refused(r.copy)}, RefuseWonder(c, r.on, row) PROVE Sound'
  <2>1. row.parent = r.copy.parent
    BY <1>2, PronouncedRow
  <2> QED
    BY <1>3, <1>4, <1>6, <2>1, Refuses
<1>7. ASSUME NEW row \in {r.copy, Refused(r.copy)}, StoreWonder(r.on, r.copy, row), Respond(c) PROVE Sound'
  <2>1. row \in Rows(r.on, born)
    BY <1>2, PronouncedRow
  <2> QED
    BY <1>2, <1>4, <1>7, <2>1, Stores, Responded
<1> QED
  BY <1>5, <1>6, <1>7 DEF Pronounce

LEMMA AdoptSound ==
    ASSUME Sound, NEW c \in Callers, Adopt(c) PROVE Sound'
<1> DEFINE r == req[c]
           row == [Fresh EXCEPT !.parent = r.on]
<1>1. r \in Req /\ r.pc = "adopt" /\ InHand(r, born, unwanted) /\ Kept(r, Live, items)
  BY Hand DEF Adopt, At
<1>2. r.on \in Nat /\ r.child \in Nat /\ r.on < r.child
  BY <1>1, Counters DEF InHand, OnWonder
<1>3. row \in Rows(r.child, born) /\ row.parent = r.on
  BY <1>2, Counters, AdoptedRow
<1>4. ~r.lost => r.on \in Live /\ r.child \in Live
  BY <1>1 DEF Kept, OnWonder
<1>5. UNCHANGED <<items, edges, seed, feedback, asked, born, acked, unwanted, unsaid, faults>>
  BY DEF Adopt
<1>6. \/ StoreWonder(r.child, Fresh, row) /\ Goto(c, "supersede")
      \/ RefuseWonder(c, r.child, row)
  BY DEF Adopt
<1> HIDE DEF row
<1>7. CASE RefuseWonder(c, r.child, row)
  BY <1>3, <1>4, <1>5, <1>7, Refuses
<1>8. CASE StoreWonder(r.child, Fresh, row) /\ Goto(c, "supersede")
  <2> DEFINE q == [req[c] EXCEPT !.pc = "supersede"]
  <2>1. Tables' /\ Grows /\ Live' = Live
    BY <1>2, <1>3, <1>5, <1>8, Stores
  <2>2. req' = [req EXCEPT ![c] = q]
    BY <1>8 DEF Goto
  <2>3. q \in Req
    BY <1>1 DEF Req, Pcs, OnWonder
  <2>4. InHand(q, born, unwanted) /\ Kept(q, Live, items)
    BY <1>1 DEF Req, InHand, Kept, OnWonder, OnSeed
  <2> HIDE DEF q
  <2> QED
    BY <2>1, <2>2, <2>3, <2>4, <1>5, Acting
<1> QED
  BY <1>6, <1>7, <1>8

LEMMA SupersedeSound ==
    ASSUME Sound, NEW c \in Callers, Supersede(c) PROVE Sound'
<1> DEFINE r == req[c]
           row == Superseded(r.copy, r.child)
<1>1. r \in Req /\ r.pc = "supersede" /\ InHand(r, born, unwanted) /\ Kept(r, Live, items)
  BY Hand DEF Supersede, At
<1>2. r.on \in Nat /\ r.copy \in Rows(r.on, born) /\ r.child \in 1 .. born
  BY <1>1, Counters DEF InHand, OnWonder
<1>3. row \in Rows(r.on, born) /\ row.parent = r.copy.parent
  BY <1>2, Counters, SupersededRow
<1>4. ~r.lost => r.on \in Live /\ r.copy.parent \in Live \cup {None}
  BY <1>1 DEF Kept, OnWonder
<1>5. UNCHANGED <<items, edges, seed, feedback, asked, born, acked, unwanted, unsaid, faults>>
  BY DEF Supersede
<1>6. \/ StoreWonder(r.on, r.copy, row) /\ Respond(c)
      \/ RefuseWonder(c, r.on, row)
  BY DEF Supersede
<1> HIDE DEF row
<1>7. CASE RefuseWonder(c, r.on, row)
  BY <1>3, <1>4, <1>5, <1>7, Refuses
<1>8. CASE StoreWonder(r.on, r.copy, row) /\ Respond(c)
  BY <1>2, <1>3, <1>5, <1>8, Stores, Responded
<1> QED
  BY <1>6, <1>7, <1>8

LEMMA OrphanSound ==
    ASSUME Sound, NEW c \in Callers, Orphan(c) PROVE Sound'
<1> DEFINE r == req[c]
<1>1. r \in Req /\ r.pc = "orphan" /\ InHand(r, born, unwanted) /\ Kept(r, Live, items)
  BY Hand DEF Orphan, At
<1>2. PICK p \in r.todo :
        \/ /\ StoreWonder(p[1], p[2], [p[2] EXCEPT !.parent = None])
           /\ req' = [req EXCEPT ![c].todo = @ \ {p}]
        \/ RefuseWonder(c, p[1], [p[2] EXCEPT !.parent = None])
  BY DEF Orphan
<1> DEFINE row == [p[2] EXCEPT !.parent = None]
<1>3. p[1] \in 1 .. born /\ p[1] \in Nat /\ p[2] \in Rows(p[1], born)
  BY <1>1, Counters DEF InHand
<1>4. row \in Rows(p[1], born) /\ row.parent = None
  BY <1>3, OrphanedRow
<1>5. ~r.lost => p[1] \in Live
  BY <1>1 DEF Kept
<1>6. UNCHANGED <<items, edges, seed, feedback, asked, born, acked, unwanted, unsaid, faults>>
  BY DEF Orphan
<1>7. CASE RefuseWonder(c, p[1], row)
  BY <1>4, <1>5, <1>6, <1>7, Refuses
<1>8. CASE StoreWonder(p[1], p[2], row) /\ req' = [req EXCEPT ![c].todo = @ \ {p}]
  <2> DEFINE q == [req[c] EXCEPT !.todo = req[c].todo \ {p}]
  <2>1. Tables' /\ Grows /\ Live' = Live
    BY <1>3, <1>4, <1>6, <1>8, Stores
  <2>2. req' = [req EXCEPT ![c] = q]
    BY <1>8
  <2>3. q \in Req /\ q.pc = "orphan" /\ q.on = r.on /\ q.todo = r.todo \ {p} /\ q.lost = r.lost
    BY <1>1 DEF Req
  <2> HIDE DEF q
  <2>4. InHand(q, born, unwanted) /\ Kept(q, Live, items)
    BY <1>1, <2>3 DEF InHand, Kept, OnWonder, OnSeed
  <2> QED
    BY <2>1, <2>2, <2>3, <2>4, <1>6, Acting
<1> QED
  BY <1>2, <1>7, <1>8
-----------------------------------------------------------------------------
(* The other steps of requests on wonders.                                 *)

LEMMA RecordSound ==
    ASSUME Sound, NEW c \in Callers, Record(c) PROVE Sound'
<1> DEFINE r == req[c]
           f == [on |-> r.on, action |-> r.action, number |-> Len(acked) + 1]
<1>1. r \in Req /\ r.pc = "record" /\ InHand(r, born, unwanted) /\ Kept(r, Live, items)
  BY Hand DEF Record, At
<1>2. r.on \in Nat /\ r.on <= born /\ r.action \in Actions
  BY <1>1, Counters DEF InHand, OnWonder
<1>3. acked \in Seq(Note) /\ Len(acked) + 1 \in Nat
  BY DEF Sound, Tables, NotesOK
<1>4. f \in Note /\ f.on = r.on
  BY <1>2, <1>3 DEF Note
<1>5. WondersOK /\ ItemsOK /\ NotesOK /\ born \in Nat
  BY DEF Sound, Tables, WondersOK
<1>6. WondersOK' /\ Live' = Live
  BY <1>5, WondersStay DEF Record
<1>7. ItemsOK'
  BY <1>5, ItemsStay DEF Record
<1> HIDE DEF f
<1>8. CASE feedback' = feedback \cup {f} /\ acked' = Append(acked, f) /\ Respond(c)
  <2>1. acked' \in Seq(Note) /\ DOMAIN acked' = DOMAIN acked \cup {Len(acked) + 1}
        /\ acked'[Len(acked) + 1] = f /\ \A k \in DOMAIN acked : acked'[k] = acked[k]
    BY <1>3, <1>4, <1>8
  <2>2. \A k \in DOMAIN acked' : acked'[k].on <= born
    BY <2>1, <1>2, <1>4, <1>5 DEF NotesOK
  <2>3. NotesOK'
    BY <2>1, <2>2, <1>4, <1>5, <1>8 DEF NotesOK, Record
  <2>4. Tables' /\ Grows
    BY <2>3, <1>5, <1>6, <1>7 DEF Tables, Grows, Record
  <2> QED
    BY <2>4, <1>8, Responded
<1>9. CASE r.on \notin Live /\ Raise(c) /\ UNCHANGED <<feedback, acked>>
  <2>1. r.lost
    BY <1>1, <1>9 DEF Kept, OnWonder
  <2>2. NotesOK'
    BY <1>5, <1>9, Counters, NotesStay DEF Record
  <2>3. Tables' /\ Grows
    BY <2>2, <1>5, <1>6, <1>7 DEF Tables, Grows, Record
  <2> QED
    BY <2>1, <2>3, <1>9, Raised
<1> QED
  BY <1>8, <1>9 DEF Record, f

(* A step that has created a wonder, or changed nothing.                   *)
LEMMA Creates ==
    ASSUME Sound, CreateWonder \/ UNCHANGED <<wonders, born>>,
           UNCHANGED <<items, edges, seed, feedback, asked, history, faults>>
    PROVE Tables' /\ Grows
<1>1. WondersOK /\ ItemsOK /\ NotesOK /\ born \in Nat
  BY DEF Sound, Tables, WondersOK
<1>2. CASE UNCHANGED <<wonders, born>>
  BY <1>2, Counters, Reading DEF history, rows
<1>3. CASE CreateWonder
  <2>1. WondersOK' /\ born' \in Nat /\ born <= born' /\ Live \subseteq Live'
    BY <1>1, <1>3, Created DEF history
  <2>2. ItemsOK'
    BY <1>1, ItemsStay
  <2>3. NotesOK'
    BY <1>1, <2>1, Counters, NotesStay DEF history
  <2> QED
    BY <2>1, <2>2, <2>3 DEF Tables, Grows, history
<1> QED
  BY <1>2, <1>3

LEMMA DreamSound ==
    ASSUME Sound, NEW c \in Callers, Dream(c) PROVE Sound'
  BY Creates, Responded DEF Dream

LEMMA RerunSound ==
    ASSUME Sound, NEW c \in Callers, Rerun(c) PROVE Sound'
<1> DEFINE r == req[c]
           q == [[req[c] EXCEPT !.pc = "adopt"] EXCEPT !.child = born']
<1>1. r \in Req /\ r.pc = "rerun" /\ InHand(r, born, unwanted) /\ Kept(r, Live, items)
  BY Hand DEF Rerun, At
<1>2. Tables' /\ Grows
  BY Creates DEF Rerun
<1>3. UNCHANGED <<items, unwanted>>
  BY DEF Rerun, history
<1>4. CASE Respond(c)
  BY <1>2, <1>4, Responded
<1>5. CASE CreateWonder /\ req' = [req EXCEPT ![c].pc = "adopt", ![c].child = born']
  <2>1. born \in Nat /\ born' \in Nat /\ born' = born + 1 /\ Live' = Live \cup {born'}
    BY <1>5, Created DEF Rerun, history, Sound, Tables, WondersOK
  <2>2. req' = [req EXCEPT ![c] = q]
    BY <1>5, <1>1 DEF Req, Sound, Requested
  <2>3. q \in Req /\ q.pc = "adopt" /\ q.on = r.on /\ q.copy = r.copy /\ q.child = born' /\ q.lost = r.lost
    BY <1>1, <2>1 DEF Req, Pcs, OnWonder
  <2> HIDE DEF q
  <2>4. r.on \in 1 .. born /\ r.copy \in Rows(r.on, born) /\ Rows(r.on, born) \subseteq Rows(r.on, born')
    BY <1>1, <2>1, RowsGrow DEF InHand, OnWonder
  <2>5. InHand(q, born', unwanted')
    BY <2>1, <2>3, <2>4 DEF InHand, OnWonder, OnSeed
  <2>6. Kept(q, Live', items')
    BY <1>1, <2>1, <2>3 DEF Kept, OnWonder, OnSeed
  <2> QED
    BY <1>2, <2>2, <2>3, <2>5, <2>6, Acting
<1> QED
  BY <1>4, <1>5 DEF Rerun

LEMMA HushSound ==
    ASSUME Sound, NEW c \in Callers, Hush(c) PROVE Sound'
<1> DEFINE r == req[c]
<1>1. r \in Req /\ r.pc = "hush" /\ InHand(r, born, unwanted) /\ Kept(r, Live, items)
  BY Hand DEF Hush, At
<1>2. PICK f \in r.todo : feedback' = feedback \ {f} /\ req' = [req EXCEPT ![c].todo = @ \ {f}]
  BY DEF Hush
<1> DEFINE q == [req[c] EXCEPT !.todo = req[c].todo \ {f}]
<1>3. WondersOK /\ ItemsOK /\ NotesOK /\ born \in Nat
  BY DEF Sound, Tables, WondersOK
<1>4. WondersOK' /\ Live' = Live
  BY <1>3, WondersStay DEF Hush, history
<1>5. ItemsOK'
  BY <1>3, ItemsStay DEF Hush
<1>6. NotesOK'
  BY <1>2, <1>3 DEF NotesOK, Hush, history
<1>7. Tables' /\ Grows /\ UNCHANGED <<born, unwanted, items>>
  BY <1>3, <1>4, <1>5, <1>6 DEF Tables, Grows, Hush, history
<1>8. req' = [req EXCEPT ![c] = q]
  BY <1>2
<1>9. q \in Req /\ q.pc = "hush" /\ q.on = r.on /\ q.todo = r.todo \ {f} /\ q.lost = r.lost
  BY <1>1 DEF Req
<1> HIDE DEF q
<1>10. InHand(q, born, unwanted) /\ Kept(q, Live, items)
  BY <1>1, <1>9 DEF InHand, Kept, OnWonder, OnSeed
<1> QED
  BY <1>4, <1>7, <1>8, <1>9, <1>10, Acting

LEMMA ListChildrenSound ==
    ASSUME Sound, NEW c \in Callers, ListChildren(c) PROVE Sound'
<1> DEFINE r == req[c]
           todo == {<<v, wonders[v]>> : v \in {u \in Live : wonders[u].parent = req[c].on}}
           q == [[req[c] EXCEPT !.pc = "orphan"] EXCEPT !.todo = todo]
<1>1. r \in Req /\ r.pc = "hush" /\ InHand(r, born, unwanted) /\ Kept(r, Live, items)
  BY Hand DEF ListChildren, At
<1>2. Tables' /\ Grows /\ Live' = Live /\ UNCHANGED <<born, unwanted, items>>
  BY Counters, Reading DEF ListChildren, history, rows
<1>3. \A p \in todo : /\ p \in (1 .. born) \X Row /\ p[2] \in Rows(p[1], born)
                      /\ p[2].parent = r.on /\ p[1] \in Live
  BY DEF Sound, Tables, WondersOK
<1>4. req' = [req EXCEPT ![c] = q]
  BY <1>1 DEF ListChildren, Sound, Requested, Req
<1> HIDE DEF todo
<1>5. todo \subseteq Nat \X Row
  BY <1>3, Counters
<1>6. q \in Req /\ q.pc = "orphan" /\ q.on = r.on /\ q.todo = todo /\ q.lost = r.lost
  BY <1>1, <1>5 DEF Req, Pcs
<1> HIDE DEF q
<1>7. InHand(q, born, unwanted)
  BY <1>1, <1>3, <1>6 DEF InHand, OnWonder, OnSeed
<1>8. Kept(q, Live, items)
  BY <1>1, <1>3, <1>6 DEF Kept, OnWonder, OnSeed
<1> QED
  BY <1>2, <1>4, <1>6, <1>7, <1>8, Acting

LEMMA RemoveWonderSound ==
    ASSUME Sound, NEW c \in Callers, RemoveWonder(c) PROVE Sound'
<1>1. WondersOK /\ ItemsOK /\ NotesOK /\ born \in Nat
  BY DEF Sound, Tables, WondersOK
<1>2. WondersOK'
  BY <1>1, Erased DEF RemoveWonder, history
<1>3. ItemsOK'
  BY <1>1, ItemsStay DEF RemoveWonder
<1>4. NotesOK'
  BY <1>1 DEF NotesOK, RemoveWonder, EraseWonder, history
<1>5. EndDeleting(c) /\ UNCHANGED <<born, unwanted>>
  BY DEF RemoveWonder, history
<1> QED
  BY <1>2, <1>3, <1>4, <1>5, Deleting DEF Tables
-----------------------------------------------------------------------------
(* Steps of requests on items and the seed.                                *)

LEMMA ItemsStep ==
    ASSUME Sound, UNCHANGED <<wonders, feedback, asked, born, history, faults>>,
           items \subseteq items', ItemsOK'
    PROVE Tables' /\ Grows /\ Live' = Live /\ UNCHANGED <<born, unwanted>>
<1>1. WondersOK /\ NotesOK /\ born \in Nat
  BY DEF Sound, Tables, WondersOK
<1>2. WondersOK' /\ Live' = Live
  BY <1>1, WondersStay DEF history
<1>3. NotesOK'
  BY <1>1 DEF NotesOK, history
<1> QED
  BY <1>1, <1>2, <1>3 DEF Tables, Grows, history

LEMMA SeedAs ==
    ASSUME NEW copy \in SeedRow, NEW s \in {"pending", "active", "used"}
    PROVE /\ [copy EXCEPT !.status = s] \in SeedRow /\ [copy EXCEPT !.status = s].item = copy.item
          /\ [copy EXCEPT !.item = None] \in SeedRow /\ [copy EXCEPT !.item = None].item = None
  BY DEF SeedRow

LEMMA ActivateSound ==
    ASSUME Sound, NEW c \in Callers, Activate(c) PROVE Sound'
<1> DEFINE r == req[c]
           row == [req[c].copy EXCEPT !.status = "active"]
           q == [[req[c] EXCEPT !.pc = "explore"] EXCEPT !.copy = row]
<1>1. r \in Req /\ r.pc = "activate" /\ InHand(r, born, unwanted) /\ Kept(r, Live, items)
  BY Hand DEF Activate, At
<1>2. ItemsOK /\ req \in [Callers -> Req]
  BY DEF Sound, Tables, Requested
<1>3. row \in SeedRow /\ row.item = r.copy.item
  BY <1>1, SeedAs DEF InHand, OnSeed
<1>a. q = [[req[c] EXCEPT !.pc = "explore"] EXCEPT !.copy = row]
  OBVIOUS
<1>b. \/ SeedStorable(row) /\ seed' = row /\ req' = [req EXCEPT ![c] = q]
      \/ ~SeedStorable(row) /\ Raise(c) /\ seed' = seed
  BY <1>1, <1>2 DEF Activate, Req
<1> HIDE DEF row, q
<1>4. CASE SeedStorable(row) /\ seed' = row /\ req' = [req EXCEPT ![c] = q]
  <2>1. ItemsOK' /\ items' = items
    BY <1>2, <1>3, <1>4 DEF ItemsOK, SeedStorable, Activate
  <2>2. Tables' /\ Grows /\ Live' = Live /\ UNCHANGED <<born, unwanted>>
    BY <2>1, ItemsStep DEF Activate
  <2>3. q \in Req /\ q.pc = "explore" /\ q.copy = row /\ q.lost = r.lost
    BY <1>1, <1>3, <1>a DEF Req, Pcs, OnSeed
  <2>4. InHand(q, born, unwanted)
    BY <1>3, <2>3 DEF InHand, OnWonder, OnSeed
  <2>5. Kept(q, Live, items)
    BY <1>1, <1>3, <2>3 DEF Kept, OnWonder, OnSeed
  <2> QED
    BY <1>4, <2>1, <2>2, <2>3, <2>4, <2>5, Acting
<1>5. CASE ~SeedStorable(row) /\ Raise(c) /\ seed' = seed
  <2>1. Tables' /\ Grows
    BY <1>5, Counters, Reading DEF Activate, history, rows
  <2>2. r.lost
    BY <1>1, <1>3, <1>5 DEF Kept, OnSeed, SeedStorable
  <2> QED
    BY <1>5, <2>1, <2>2, Raised
<1> QED
  BY <1>b, <1>4, <1>5

LEMMA ExploredSound ==
    ASSUME Sound, NEW c \in Callers, Explored(c) PROVE Sound'
<1>1. req[c] \in Req /\ req[c].pc = "explore" /\ InHand(req[c], born, unwanted) /\ Kept(req[c], Live, items)
  BY Hand DEF Explored, At
<1>2. Tables' /\ Grows
  BY Creates DEF Explored
<1>3. UNCHANGED <<items, unwanted>>
  BY DEF Explored, history
<1>4. CASE Respond(c)
  BY <1>2, <1>4, Responded
<1>5. ASSUME NEW pc \in {"complete", "stop"}, Goto(c, pc) PROVE Sound'
  <2> DEFINE q == [req[c] EXCEPT !.pc = pc]
  <2>1. q \in Req /\ q.pc = pc /\ q.copy = req[c].copy /\ q.lost = req[c].lost
    BY <1>1 DEF Req, Pcs, OnSeed
  <2>2. req' = [req EXCEPT ![c] = q]
    BY <1>5 DEF Goto
  <2> HIDE DEF q
  <2>3. InHand(q, born', unwanted')
    BY <1>1, <2>1 DEF InHand, OnWonder, OnSeed
  <2>4. Kept(q, Live', items')
    BY <1>1, <1>3, <2>1 DEF Kept, OnWonder, OnSeed
  <2> QED
    BY <1>2, <2>1, <2>2, <2>3, <2>4, Acting
<1> QED
  BY <1>4, <1>5 DEF Explored

LEMMA StopSound ==
    ASSUME Sound, NEW c \in Callers, Stop(c) PROVE Sound'
<1> DEFINE q == [[req[c] EXCEPT !.pc = "complete"] EXCEPT !.copy = seed]
<1>1. req[c] \in Req /\ req \in [Callers -> Req]
  BY Hand DEF Sound, Requested
<1>2. Tables' /\ Grows /\ Live' = Live /\ UNCHANGED <<born, unwanted, items>>
  BY Counters, Reading DEF Stop, history, rows
<1>3. seed \in SeedRow /\ seed.item \in items \cup {None}
  BY DEF Sound, Tables, ItemsOK, SeedStorable
<1>4. req' = [req EXCEPT ![c] = q]
  BY <1>1 DEF Stop, Req
<1>5. q \in Req /\ q.pc = "complete" /\ q.copy = seed
  BY <1>1, <1>3 DEF Req, Pcs, OnSeed
<1> HIDE DEF q
<1>6. InHand(q, born, unwanted) /\ Kept(q, Live, items)
  BY <1>3, <1>5 DEF InHand, Kept, OnWonder, OnSeed
<1> QED
  BY <1>2, <1>4, <1>5, <1>6, Acting

LEMMA CompleteSound ==
    ASSUME Sound, NEW c \in Callers, Complete(c) PROVE Sound'
<1> DEFINE r == req[c]
           row == [req[c].copy EXCEPT !.status = "used"]
<1>1. r \in Req /\ r.pc = "complete" /\ InHand(r, born, unwanted) /\ Kept(r, Live, items)
  BY Hand DEF Complete, At
<1>2. ItemsOK
  BY DEF Sound, Tables
<1>3. row \in SeedRow /\ row.item = r.copy.item
  BY <1>1, SeedAs DEF InHand, OnSeed
<1>4. \/ SeedStorable(row) /\ seed' = row /\ Respond(c)
      \/ ~SeedStorable(row) /\ Raise(c) /\ seed' = seed
  BY DEF Complete
<1> HIDE DEF row
<1>5. CASE SeedStorable(row) /\ seed' = row /\ Respond(c)
  <2>1. ItemsOK' /\ items' = items
    BY <1>2, <1>3, <1>5 DEF ItemsOK, SeedStorable, Complete
  <2>2. Tables' /\ Grows
    BY <2>1, ItemsStep DEF Complete
  <2> QED
    BY <1>5, <2>2, Responded
<1>6. CASE ~SeedStorable(row) /\ Raise(c) /\ seed' = seed
  <2>1. Tables' /\ Grows
    BY <1>6, Counters, Reading DEF Complete, history, rows
  <2>2. r.lost
    BY <1>1, <1>3, <1>6 DEF Kept, OnSeed, SeedStorable
  <2> QED
    BY <1>6, <2>1, <2>2, Raised
<1> QED
  BY <1>4, <1>5, <1>6

LEMMA CreateItemSound ==
    ASSUME Sound, NEW c \in Callers, CreateItem(c) PROVE Sound'
<1>1. req[c].on \in Item
  BY Hand DEF CreateItem, At, InHand
<1>2. ItemsOK
  BY DEF Sound, Tables
<1>3. IsFiniteSet(items')
  BY <1>2, FS_AddElement DEF ItemsOK, CreateItem
<1>4. ItemsOK' /\ items \subseteq items'
  BY <1>1, <1>2, <1>3 DEF ItemsOK, SeedStorable, CreateItem
<1>5. Tables' /\ Grows
  BY <1>4, ItemsStep DEF CreateItem
<1> QED
  BY <1>5, Responded DEF CreateItem

LEMMA LinkSound ==
    ASSUME Sound, NEW c \in Callers, Link(c) PROVE Sound'
<1> DEFINE e == req[c].on
<1>1. e \in Item \X Item /\ (~req[c].lost => {e[1], e[2]} \subseteq items)
  BY Hand DEF Link, At, InHand, Kept
<1>2. ItemsOK
  BY DEF Sound, Tables
<1>3. CASE {e[1], e[2]} \subseteq items /\ edges' = edges \cup {e} /\ Respond(c)
  <2>1. ItemsOK' /\ items' = items
    BY <1>1, <1>2, <1>3 DEF ItemsOK, SeedStorable, Link
  <2>2. Tables' /\ Grows
    BY <2>1, ItemsStep DEF Link
  <2> QED
    BY <1>3, <2>2, Responded
<1>4. CASE ~({e[1], e[2]} \subseteq items) /\ Raise(c) /\ edges' = edges
  <2>1. Tables' /\ Grows
    BY <1>4, Counters, Reading DEF Link, history, rows
  <2> QED
    BY <1>1, <1>4, <2>1, Raised
<1> QED
  BY <1>3, <1>4 DEF Link

LEMMA UnlinkSound ==
    ASSUME Sound, NEW c \in Callers, Unlink(c) PROVE Sound'
<1> DEFINE r == req[c]
<1>1. r \in Req /\ r.pc = "unlink" /\ InHand(r, born, unwanted) /\ Kept(r, Live, items)
  BY Hand DEF Unlink, At
<1>2. PICK e \in r.todo : edges' = edges \ {e} /\ req' = [req EXCEPT ![c].todo = @ \ {e}]
  BY DEF Unlink
<1> DEFINE q == [req[c] EXCEPT !.todo = req[c].todo \ {e}]
<1>3. ItemsOK' /\ items' = items
  BY <1>2 DEF Sound, Tables, ItemsOK, SeedStorable, Unlink
<1>4. Tables' /\ Grows /\ Live' = Live /\ UNCHANGED <<born, unwanted>>
  BY <1>3, ItemsStep DEF Unlink
<1>5. req' = [req EXCEPT ![c] = q]
  BY <1>2
<1>6. q \in Req /\ q.pc = "unlink" /\ q.todo = r.todo \ {e} /\ q.lost = r.lost
  BY <1>1 DEF Req
<1> HIDE DEF q
<1>7. InHand(q, born, unwanted) /\ Kept(q, Live, items)
  BY <1>1, <1>6 DEF InHand, Kept, OnWonder, OnSeed
<1> QED
  BY <1>3, <1>4, <1>5, <1>6, <1>7, Acting

LEMMA ListSeedsSound ==
    ASSUME Sound, NEW c \in Callers, ListSeeds(c) PROVE Sound'
<1> DEFINE pc == IF seed.item = req[c].on THEN "unseed" ELSE "remove"
           q == [[req[c] EXCEPT !.pc = pc] EXCEPT !.copy = seed]
<1>1. req[c] \in Req /\ req \in [Callers -> Req] /\ seed \in SeedRow
  BY Hand DEF Sound, Requested, Tables, ItemsOK
<1>2. Tables' /\ Grows /\ Live' = Live /\ UNCHANGED <<born, unwanted, items>>
  BY Counters, Reading DEF ListSeeds, history, rows
<1>3. req' = [req EXCEPT ![c] = q]
  BY <1>1 DEF ListSeeds, Req
<1>4. pc \in {"unseed", "remove"}
  OBVIOUS
<1> HIDE DEF pc
<1>5. q \in Req /\ q.pc = pc /\ q.copy = seed
  BY <1>1, <1>4 DEF Req, Pcs
<1> HIDE DEF q
<1>6. InHand(q, born, unwanted) /\ Kept(q, Live, items)
  BY <1>1, <1>4, <1>5 DEF InHand, Kept, OnWonder, OnSeed
<1> QED
  BY <1>2, <1>3, <1>5, <1>6, Acting

LEMMA UnseedSound ==
    ASSUME Sound, NEW c \in Callers, Unseed(c) PROVE Sound'
<1> DEFINE row == [req[c].copy EXCEPT !.item = None]
           q == [req[c] EXCEPT !.pc = "remove"]
<1>1. req[c] \in Req /\ req[c].pc = "unseed" /\ InHand(req[c], born, unwanted)
  BY Hand DEF Unseed, At
<1>2. row \in SeedRow /\ row.item = None
  BY <1>1, SeedAs DEF InHand
<1>3. seed' = row
  BY DEF Unseed
<1> HIDE DEF row
<1>4. ItemsOK' /\ items' = items
  BY <1>2, <1>3 DEF Sound, Tables, ItemsOK, SeedStorable, Unseed
<1>5. Tables' /\ Grows /\ Live' = Live /\ UNCHANGED <<born, unwanted>>
  BY <1>4, ItemsStep DEF Unseed
<1>6. req' = [req EXCEPT ![c] = q]
  BY DEF Unseed, Goto
<1>7. q \in Req /\ q.pc = "remove"
  BY <1>1 DEF Req, Pcs
<1> HIDE DEF q
<1>8. InHand(q, born, unwanted) /\ Kept(q, Live, items)
  BY <1>7 DEF InHand, Kept, OnWonder, OnSeed
<1> QED
  BY <1>4, <1>5, <1>6, <1>7, <1>8, Acting

LEMMA RemoveItemSound ==
    ASSUME Sound, NEW c \in Callers, RemoveItem(c) PROVE Sound'
<1> DEFINE i == req[c].on
<1>1. WondersOK /\ ItemsOK /\ NotesOK
  BY DEF Sound, Tables
<1>2. WondersOK'
  BY <1>1, WondersStay DEF RemoveItem, history
<1>3. NotesOK'
  BY <1>1 DEF NotesOK, RemoveItem, history
<1>4. items' = items \ {i} /\ edges' \subseteq edges /\ seed' = IF seed.item = i THEN [seed EXCEPT !.item = None] ELSE seed
  BY DEF RemoveItem, EraseItem
<1>5. IsFiniteSet(items')
  BY <1>1, <1>4, FS_Subset DEF ItemsOK
<1>6. seed' \in SeedRow /\ seed'.item \in items' \cup {None}
  BY <1>1, <1>4, SeedAs DEF ItemsOK, SeedStorable
<1>7. ItemsOK'
  BY <1>1, <1>4, <1>5, <1>6 DEF ItemsOK, SeedStorable
<1>8. EndDeleting(c) /\ UNCHANGED <<born, unwanted>>
  BY DEF RemoveItem, history
<1> QED
  BY <1>2, <1>3, <1>7, <1>8, Deleting DEF Tables
-----------------------------------------------------------------------------
(* Every step keeps the tables and the requests sound.                     *)

LEMMA InitSound == Init => Sound
<1> SUFFICES ASSUME Init PROVE Sound
  OBVIOUS
<1>1. PICK x \in Contents :
        /\ items = {First(x)} /\ edges = {} /\ seed = [status |-> "pending", item |-> First(x)]
        /\ wonders = [w \in {1} |-> Fresh] /\ feedback = {}
  BY DEF Init
<1>2. First(x) \in Item
  BY DEF First, Item
<1>3. WondersOK
  <2>1. Live = {1} /\ wonders[1] = Fresh /\ born = 1 /\ raced = {}
    BY <1>1 DEF Live, Init
  <2>2. Fresh \in Rows(1, 1) /\ Fresh \in Row /\ Fresh.parent = None
    BY FreshRow DEF Rows
  <2>3. Live \subseteq 1 .. born
    BY <2>1
  <2> QED
    BY <1>1, <2>1, <2>2, <2>3 DEF WondersOK
<1>4. ItemsOK
  BY <1>1, <1>2, FS_Singleton DEF ItemsOK, SeedStorable, SeedRow
<1>5. NotesOK
  BY <1>1 DEF NotesOK, Init
<1>6. Requested
  <2>1. req = [c \in Callers |-> Idle]
    BY DEF Init
  <2>2. TRUE \in BOOLEAN
    OBVIOUS
  <2> QED
    BY <2>1, <2>2, IdleHolds DEF Requested, Holds
<1> QED
  BY <1>3, <1>4, <1>5, <1>6 DEF Sound, Tables

LEMMA StutterSound ==
    ASSUME Sound, UNCHANGED vars PROVE Sound'
<1>1. /\ UNCHANGED <<items, edges, seed, wonders, feedback>> /\ UNCHANGED <<req, asked, born, faults>>
      /\ UNCHANGED <<acked, unwanted, unsaid, raced>>
  BY DEF vars, rows, history
<1>2. Live' = Live
  BY <1>1 DEF Live
<1>3. WondersOK' /\ ItemsOK' /\ NotesOK'
  BY <1>1, <1>2 DEF Sound, Tables, WondersOK, ItemsOK, NotesOK, SeedStorable
<1> QED
  BY <1>1, <1>2, <1>3 DEF Sound, Tables, Requested, Holds

LEMMA NextSound ==
    ASSUME Sound, [Next]_vars PROVE Sound'
<1>1. CASE UNCHANGED vars \/ Terminated
  BY <1>1, StutterSound DEF Terminated
<1>2. ASSUME NEW c \in Callers, Requests(c) PROVE Sound'
  <2>1. CASE \E w \in Live : \E action \in Actions : Submit(c, w, action)
    BY <2>1, SubmitSound
  <2>2. CASE \E w \in Live : Explore(c, w) \/ Assess(c, w) \/ ReWonder(c, w) \/ DeleteWonder(c, w)
    BY <2>2, ExploreSound, DeleteWonderSound DEF Explore, Assess, ReWonder
  <2>3. CASE \E f \in feedback : DeleteFeedback(c, f)
    BY <2>3, DeleteFeedbackSound
  <2>4. CASE \E x \in Contents : Ingest(c, x)
    BY <2>4, IngestSound
  <2>5. CASE \E i, j \in items : i # j /\ CreateEdge(c, i, j)
    BY <2>5, CreateEdgeSound
  <2>6. CASE \E i \in items : DeleteItem(c, i)
    BY <2>6, DeleteItemSound
  <2>7. CASE Incubate(c) \/ Wander(c)
    BY <2>7, IncubateSound, WanderSound
  <2> QED
    BY <1>2, <2>1, <2>2, <2>3, <2>4, <2>5, <2>6, <2>7 DEF Requests
<1>3. ASSUME NEW c \in Callers, Steps(c) PROVE Sound'
  BY <1>3, JudgeSound, RecordSound, MergeSound, PronounceSound, DreamSound, RerunSound, AdoptSound, SupersedeSound,
     ActivateSound, ExploredSound, StopSound, CompleteSound, HushSound, ListChildrenSound,
     OrphanSound, RemoveWonderSound, CreateItemSound, LinkSound, UnlinkSound, ListSeedsSound,
     UnseedSound, RemoveItemSound DEF Steps
<1> QED
  BY <1>1, <1>2, <1>3, FaultSound DEF Next

(* The tables stay consistent, and what a request has in hand fits them,   *)
(* in every interleaving (repositories/sqlalchemy.py).                     *)
THEOREM SoundAlways == Spec => []Sound
<1>1. Init => Sound
  BY InitSound
<1>2. Sound /\ [Next]_vars => Sound'
  BY NextSound
<1> QED
  BY <1>1, <1>2, PTL DEF Spec

(* A request fails only if a row was deleted under it or the database      *)
(* raised (the _require and update calls of the services).                 *)
THEOREM FailuresCaused == Spec => []FailsForCause
<1>1. Sound => FailsForCause
  BY Hand DEF FailsForCause, At, Kept
<1> QED
  BY <1>1, SoundAlways, PTL
-----------------------------------------------------------------------------
(* What a step of one caller can touch.                                    *)

Step(c) == Requests(c) \/ Steps(c) \/ Fault(c)

(* Nothing that the properties of wonders and feedback are about changes.  *)
Still == /\ UNCHANGED <<wonders, born, feedback, acked, unsaid, raced>>
         /\ unwanted \subseteq unwanted'

LEMMA StepKinds ==
    ASSUME NEW c \in Callers, Step(c)
    PROVE \/ Judge(c) \/ Record(c) \/ Merge(c) \/ Pronounce(c) \/ Adopt(c) \/ Supersede(c) \/ Orphan(c)
          \/ RemoveWonder(c) \/ Hush(c) \/ (\E f \in feedback : DeleteFeedback(c, f))
          \/ Dream(c) \/ Rerun(c) \/ Explored(c)
          \/ Still
<1>1. CASE Requests(c) /\ ~\E f \in feedback : DeleteFeedback(c, f)
  BY <1>1 DEF Requests, Still, Submit, Explore, Assess, ReWonder, DeleteWonder, Ingest, CreateEdge,
              DeleteItem, Incubate, Wander, Begin, rows, history
<1>2. CASE Activate(c) \/ Stop(c) \/ Complete(c) \/ ListChildren(c) \/ CreateItem(c) \/ Link(c)
  BY <1>2 DEF Still, Activate, Stop, Complete, ListChildren, CreateItem, Link, rows, history
<1>3. CASE Unlink(c) \/ ListSeeds(c) \/ Unseed(c) \/ RemoveItem(c) \/ Fault(c)
  BY <1>3 DEF Still, Unlink, ListSeeds, Unseed, RemoveItem, Fault, rows, history
<1> QED
  BY <1>1, <1>2, <1>3 DEF Step, Steps

(* A step of one request leaves those of the others where they are.        *)
Same(d) == /\ req'[d].pc = req[d].pc /\ req'[d].on = req[d].on /\ req'[d].copy = req[d].copy
           /\ req'[d].action = req[d].action /\ req'[d].child = req[d].child
           /\ req'[d].todo = req[d].todo

LEMMA OthersSame ==
    ASSUME Sound, NEW c \in Callers, Step(c), NEW d \in Callers, d # c PROVE Same(d)
<1>1. req \in [Callers -> Req] /\ req[d] \in Req
  BY DEF Sound, Requested
<1>2. CASE req'[d] = req[d]
  BY <1>2 DEF Same
<1>3. CASE EndDeleting(c)
  <2>1. req'[d] = [req[d] EXCEPT !.lost = @ \/ Busy(d)]
    BY <1>3 DEF EndDeleting
  <2> QED
    BY <1>1, <2>1 DEF Same, Req
<1>4. CASE Requests(c)
  <2>1. req'[d] = req[d]
    BY <1>1, <1>4 DEF Requests, Submit, Explore, Assess, ReWonder, DeleteWonder, DeleteFeedback, Ingest,
       CreateEdge, DeleteItem, Incubate, Wander, Begin
  <2> QED
    BY <2>1, <1>2
<1>5. CASE Fault(c)
  BY <1>1, <1>2, <1>5 DEF Fault
<1>6. CASE Judge(c) \/ Record(c) \/ Merge(c) \/ Pronounce(c) \/ Dream(c) \/ Rerun(c) \/ Adopt(c) \/ Supersede(c)
  BY <1>1, <1>2, <1>6 DEF Judge, Record, Merge, Pronounce, Dream, Rerun, Adopt, Supersede, Goto, Respond,
     Raise, RefuseWonder
<1>7. CASE Activate(c) \/ Explored(c) \/ Stop(c) \/ Complete(c) \/ Hush(c) \/ ListChildren(c)
           \/ Orphan(c)
  BY <1>1, <1>2, <1>7 DEF Activate, Explored, Stop, Complete, Hush, ListChildren, Orphan, Goto,
     Respond, Raise, RefuseWonder
<1>8. CASE CreateItem(c) \/ Link(c) \/ Unlink(c) \/ ListSeeds(c) \/ Unseed(c)
  BY <1>1, <1>2, <1>8 DEF CreateItem, Link, Unlink, ListSeeds, Unseed, Goto, Respond, Raise
<1>9. CASE RemoveWonder(c) \/ RemoveItem(c)
  BY <1>3, <1>9 DEF RemoveWonder, RemoveItem
<1> QED
  BY <1>4, <1>5, <1>6, <1>7, <1>8, <1>9 DEF Step, Steps

(* Where a request that starts, or takes a step, goes.                     *)
LEMMA Landing ==
    ASSUME Sound, NEW c \in Callers
    PROVE /\ \A pc : Goto(c, pc) => req'[c].pc = pc
          /\ Respond(c) \/ EndDeleting(c) => req'[c].pc = "idle"
          /\ Raise(c) => req'[c].pc = "failed"
          /\ \A pc, on, copy : Begin(c, pc, on, copy) => req'[c].pc = pc
          /\ \A todo : req' = [req EXCEPT ![c].todo = todo] => req'[c].pc = req[c].pc
          /\ \A pc, x : req' = [req EXCEPT ![c].pc = pc, ![c].copy = x] => req'[c].pc = pc
          /\ \A pc, x : req' = [req EXCEPT ![c].pc = pc, ![c].child = x] => req'[c].pc = pc
          /\ \A pc, x : req' = [req EXCEPT ![c].pc = pc, ![c].todo = x] => req'[c].pc = pc
<1>1. req \in [Callers -> Req] /\ req[c] \in Req
  BY DEF Sound, Requested
<1>2. \A pc : [req[c] EXCEPT !.pc = pc].pc = pc
  BY <1>1 DEF Req
<1>3. \A pc : Goto(c, pc) => req'[c].pc = pc
  BY <1>1, <1>2 DEF Goto
<1>4. Respond(c) \/ EndDeleting(c) => req'[c].pc = "idle"
  BY <1>1 DEF Respond, EndDeleting, Idle
<1>5. Raise(c) => req'[c].pc = "failed"
  BY <1>1 DEF Raise, Idle
<1>6. \A pc, on, copy : Begin(c, pc, on, copy) => req'[c].pc = pc
  BY <1>1 DEF Begin, Idle
<1>7. \A todo : req' = [req EXCEPT ![c].todo = todo] => req'[c].pc = req[c].pc
  BY <1>1 DEF Req
<1>8. \A pc, x : req' = [req EXCEPT ![c].pc = pc, ![c].copy = x] => req'[c].pc = pc
  BY <1>1 DEF Req
<1>9. \A pc, x : req' = [req EXCEPT ![c].pc = pc, ![c].child = x] => req'[c].pc = pc
  BY <1>1 DEF Req
<1>10. \A pc, x : req' = [req EXCEPT ![c].pc = pc, ![c].todo = x] => req'[c].pc = pc
  BY <1>1 DEF Req
<1> QED
  BY <1>3, <1>4, <1>5, <1>6, <1>7, <1>8, <1>9, <1>10

Elsewhere(c) == req'[c].pc \notin {"create", "record", "adopt", "supersede"}

LEMMA Entering ==
    ASSUME Sound, NEW c \in Callers, Step(c)
    PROVE /\ req'[c].pc = "create" => \E x \in Contents : Ingest(c, x)
          /\ req'[c].pc = "record" => Judge(c)
          /\ req'[c].pc = "adopt" => Rerun(c)
          /\ req'[c].pc = "supersede" => Adopt(c)
<1>1. req \in [Callers -> Req] /\ req[c] \in Req
  BY DEF Sound, Requested
<1>2. CASE Requests(c) /\ ~\E x \in Contents : Ingest(c, x)
  <2>1. CASE \/ \E w \in Live, action \in Actions : Submit(c, w, action)
             \/ \E w \in Live : DeleteWonder(c, w)
             \/ \E i \in items : DeleteItem(c, i)
    <3>1. Elsewhere(c)
      BY <1>1, <2>1 DEF Submit, DeleteWonder, DeleteItem, Idle, Elsewhere
    <3> QED
      BY <3>1 DEF Elsewhere
  <2>2. CASE \E f \in feedback : DeleteFeedback(c, f)
    <3>1. req'[c].pc = req[c].pc /\ req[c].pc \in {"idle", "failed"}
      BY <2>2 DEF DeleteFeedback, Free, Busy
    <3> QED
      BY <3>1
  <2>3. CASE \/ \E w \in Live : Explore(c, w) \/ Assess(c, w) \/ ReWonder(c, w)
             \/ \E i, j \in items : CreateEdge(c, i, j)
             \/ Incubate(c) \/ Wander(c)
    <3>1. Elsewhere(c)
      BY <2>3, Landing DEF Explore, Assess, ReWonder, CreateEdge, Incubate, Wander, Elsewhere
    <3> QED
      BY <3>1 DEF Elsewhere
  <2> QED
    BY <1>2, <2>1, <2>2, <2>3 DEF Requests
<1>3. CASE \E x \in Contents : Ingest(c, x)
  <2>1. req'[c].pc = "create"
    BY <1>3, Landing DEF Ingest
  <2> QED
    BY <2>1, <1>3
<1>4. CASE Fault(c)
  <2>1. req'[c].pc = "failed"
    BY <1>1, <1>4 DEF Fault, Idle
  <2> QED
    BY <2>1
<1>5. CASE Record(c) \/ Merge(c) \/ Pronounce(c) \/ Dream(c) \/ Supersede(c) \/ CreateItem(c) \/ Link(c)
  <2>1. req'[c].pc \in {"idle", "failed"}
    BY <1>5, Landing DEF Record, Merge, Pronounce, Dream, Supersede, CreateItem, Link, RefuseWonder
  <2> QED
    BY <2>1
<1>6. CASE Judge(c) \/ Adopt(c) \/ Rerun(c)
  <2>1. CASE Judge(c)
    <3>1. req'[c].pc \in {"record", "failed"}
      BY <2>1, Landing DEF Judge, RefuseWonder
    <3> QED
      BY <2>1, <3>1
  <2>2. CASE Adopt(c)
    <3>1. req'[c].pc \in {"supersede", "failed"}
      BY <2>2, Landing DEF Adopt, RefuseWonder
    <3> QED
      BY <2>2, <3>1
  <2>3. CASE Rerun(c)
    <3>1. req'[c].pc \in {"adopt", "idle"}
      BY <2>3, Landing DEF Rerun
    <3> QED
      BY <2>3, <3>1
  <2> QED
    BY <1>6, <2>1, <2>2, <2>3
<1>7. CASE Activate(c) \/ Explored(c) \/ Stop(c) \/ Complete(c)
  <2>1. req'[c].pc \in {"explore", "failed", "complete", "stop", "idle"}
    BY <1>7, Landing DEF Activate, Explored, Stop, Complete
  <2> QED
    BY <2>1
<1>8. CASE Hush(c) \/ ListChildren(c) \/ Orphan(c) \/ RemoveWonder(c)
  <2>1. CASE Hush(c)
    <3>1. req'[c].pc = "hush"
      BY <1>1, <2>1 DEF Hush, At, Req
    <3> QED
      BY <3>1
  <2>2. CASE Orphan(c)
    <3>1. \/ Raise(c)
          \/ \E p \in req[c].todo : req' = [req EXCEPT ![c].todo = @ \ {p}]
      BY <2>2 DEF Orphan, RefuseWonder
    <3>2. req'[c].pc \in {"orphan", "failed"}
      BY <1>1, <2>2, <3>1, Landing DEF Orphan, At, Req
    <3> QED
      BY <3>2
  <2>3. CASE ListChildren(c) \/ RemoveWonder(c)
    <3>1. req'[c].pc \in {"orphan", "idle"}
      BY <2>3, Landing DEF ListChildren, RemoveWonder
    <3> QED
      BY <3>1
  <2> QED
    BY <1>8, <2>1, <2>2, <2>3
<1>9. CASE Unlink(c) \/ ListSeeds(c) \/ Unseed(c) \/ RemoveItem(c)
  <2>1. req'[c].pc \in {"unlink", "unseed", "remove", "idle"}
    BY <1>9, Landing DEF Unlink, ListSeeds, Unseed, RemoveItem, At
  <2> QED
    BY <2>1
<1> QED
  BY <1>2, <1>3, <1>4, <1>5, <1>6, <1>7, <1>8, <1>9 DEF Step, Steps

LEMMA NextIsStep ==
    ASSUME [Next]_vars PROVE UNCHANGED vars \/ \E c \in Callers : Step(c)
  BY DEF Next, Terminated, Step
-----------------------------------------------------------------------------
(* Feedback that was acknowledged.                                         *)

LEMMA ToldStays ==
    ASSUME FeedbackKept, acked' = acked, feedback \subseteq feedback', Live \subseteq Live',
           unsaid \subseteq unsaid', unwanted \subseteq unwanted'
    PROVE FeedbackKept'
  BY DEF FeedbackKept

LEMMA NextTold ==
    ASSUME Sound, FeedbackKept, [Next]_vars PROVE FeedbackKept'
<1>1. CASE UNCHANGED vars
  BY <1>1, ToldStays DEF vars, rows, history, Live
<1>2. ASSUME NEW c \in Callers, Step(c) PROVE FeedbackKept'
  <2> DEFINE r == req[c]
  <2>1. r \in Req /\ InHand(r, born, unwanted)
    BY Hand
  <2>2. WondersOK /\ acked \in Seq(Note)
    BY DEF Sound, Tables, NotesOK
  <2>3. CASE Still
    BY <2>3, ToldStays DEF Still, Live
  <2>4. CASE Judge(c) \/ Merge(c) \/ Pronounce(c) \/ Adopt(c) \/ Supersede(c) \/ Orphan(c)
    BY <2>4, ToldStays DEF Judge, Merge, Pronounce, Adopt, Supersede, Orphan, StoreWonder, RefuseWonder, Live
  <2>5. CASE Dream(c) \/ Rerun(c) \/ Explored(c)
    BY <2>5, ToldStays DEF Dream, Rerun, Explored, CreateWonder, Live, history
  <2>6. CASE \E f \in feedback : DeleteFeedback(c, f)
    BY <2>6 DEF FeedbackKept, DeleteFeedback, Live
  <2>7. CASE Hush(c)
    <3>1. PICK f \in r.todo : feedback' = feedback \ {f}
      BY <2>7 DEF Hush
    <3>2. f.on \in unwanted
      BY <2>1, <2>7 DEF Hush, At, InHand
    <3> QED
      BY <2>7, <3>1, <3>2 DEF FeedbackKept, Hush, history, Live
  <2>8. CASE RemoveWonder(c)
    <3>1. r.on \in unwanted
      BY <2>1, <2>8 DEF RemoveWonder, At, InHand
    <3>2. Live' = Live \ {r.on} /\ feedback' = {f \in feedback : f.on # r.on}
      BY <2>8 DEF RemoveWonder, EraseWonder, Live
    <3> QED
      BY <2>8, <3>1, <3>2 DEF FeedbackKept, RemoveWonder, history
  <2>9. CASE Record(c)
    <3> DEFINE f == [on |-> r.on, action |-> r.action, number |-> Len(acked) + 1]
    <3>1. f \in Note
      BY <2>1, <2>2, <2>9, Counters DEF Note, Record, At, InHand, OnWonder
    <3>2. Live' = Live /\ UNCHANGED <<unsaid, unwanted>> /\ f.on = r.on
      BY <2>9 DEF Record, Live
    <3>3. \/ r.on \in Live /\ feedback' = feedback \cup {f} /\ acked' = Append(acked, f)
          \/ UNCHANGED <<feedback, acked>>
      BY <2>9 DEF Record
    <3> HIDE DEF f
    <3>4. CASE UNCHANGED <<feedback, acked>>
      BY <3>2, <3>4, ToldStays
    <3>5. CASE r.on \in Live /\ feedback' = feedback \cup {f} /\ acked' = Append(acked, f)
      <4>1. \A k \in DOMAIN acked' : IF k = Len(acked) + 1 THEN acked'[k] = f
                                     ELSE k \in DOMAIN acked /\ acked'[k] = acked[k]
        BY <2>2, <3>1, <3>5
      <4> QED
        BY <3>2, <3>5, <4>1 DEF FeedbackKept
    <3> QED
      BY <3>3, <3>4, <3>5
  <2> QED
    BY <1>2, <2>3, <2>4, <2>5, <2>6, <2>7, <2>8, <2>9, StepKinds
<1> QED
  BY <1>1, <1>2, NextIsStep

(* Feedback a user was told of stays until somebody deletes it or its      *)
(* wonder (wonder_service.py:94, deletion_service.py:24-40).               *)
THEOREM FeedbackStays == Spec => []FeedbackKept
<1>1. Init => FeedbackKept
  BY DEF Init, FeedbackKept
<1>2. Sound /\ FeedbackKept /\ [Next]_vars => FeedbackKept'
  BY NextTold
<1> QED
  BY <1>1, <1>2, SoundAlways, PTL DEF Spec
-----------------------------------------------------------------------------
(* Duplicates: items with a text and requests that will store it.          *)

Stored(x)   == {i \in items : i.content = x}
Creating(x) == {c \in Callers : req[c].pc = "create" /\ req[c].on.content = x}

(* Those who are about to store a text that is there already began when    *)
(* it was not, so together they are at most all the callers.               *)
FewCopies == \A x \in Contents : Cardinality(Stored(x)) + Cardinality(Creating(x)) <= Cardinality(Callers)

LEMMA Finite ==
    ASSUME Sound, NEW x
    PROVE /\ IsFiniteSet(Stored(x)) /\ Cardinality(Stored(x)) \in Nat
          /\ IsFiniteSet(Creating(x)) /\ Cardinality(Creating(x)) \in Nat
          /\ Cardinality(Creating(x)) <= Cardinality(Callers) /\ Cardinality(Callers) \in Nat
<1>1. IsFiniteSet(items) /\ Stored(x) \subseteq items
  BY DEF Sound, Tables, ItemsOK, Stored
<1>2. IsFiniteSet(Callers) /\ Creating(x) \subseteq Callers
  BY ConstantsAssumption DEF Creating
<1>3. IsFiniteSet(Stored(x)) /\ IsFiniteSet(Creating(x)) /\ Cardinality(Creating(x)) <= Cardinality(Callers)
  BY <1>1, <1>2, FS_Subset
<1> QED
  BY <1>2, <1>3, FS_CardinalityType

LEMMA FewerCopies ==
    ASSUME Sound, Sound', FewCopies, items' \subseteq items,
           \A d \in Callers : req'[d].pc = "create" => req[d].pc = "create" /\ req'[d].on = req[d].on
    PROVE FewCopies'
<1> SUFFICES ASSUME NEW x \in Contents
             PROVE Cardinality(Stored(x)') + Cardinality(Creating(x)') <= Cardinality(Callers)
  BY DEF FewCopies
<1>1. Stored(x)' \subseteq Stored(x) /\ Creating(x)' \subseteq Creating(x)
  BY DEF Stored, Creating
<1>2. /\ IsFiniteSet(Stored(x)) /\ Cardinality(Stored(x)) \in Nat
      /\ IsFiniteSet(Creating(x)) /\ Cardinality(Creating(x)) \in Nat /\ Cardinality(Callers) \in Nat
  BY Finite
<1>3. Cardinality(Stored(x)') <= Cardinality(Stored(x)) /\ Cardinality(Stored(x)') \in Nat
  BY <1>1, <1>2, FS_Subset, FS_CardinalityType
<1>4. Cardinality(Creating(x)') <= Cardinality(Creating(x)) /\ Cardinality(Creating(x)') \in Nat
  BY <1>1, <1>2, FS_Subset, FS_CardinalityType
<1>5. Cardinality(Stored(x)) + Cardinality(Creating(x)) <= Cardinality(Callers)
  BY DEF FewCopies
<1> QED
  BY <1>2, <1>3, <1>4, <1>5

LEMMA CreateItemFew ==
    ASSUME Sound, Sound', FewCopies, NEW c \in Callers, CreateItem(c) PROVE FewCopies'
<1> SUFFICES ASSUME NEW x \in Contents
             PROVE Cardinality(Stored(x)') + Cardinality(Creating(x)') <= Cardinality(Callers)
  BY DEF FewCopies
<1> DEFINE i == req[c].on
<1>1. req[c].pc = "create" /\ items' = items \cup {i} /\ req' = [req EXCEPT ![c] = Idle]
  BY DEF CreateItem, At, Respond
<1>2. req \in [Callers -> Req]
  BY DEF Sound, Requested
<1>3. /\ IsFiniteSet(Stored(x)) /\ Cardinality(Stored(x)) \in Nat
      /\ IsFiniteSet(Creating(x)) /\ Cardinality(Creating(x)) \in Nat /\ Cardinality(Callers) \in Nat
  BY Finite
<1>4. Creating(x)' = Creating(x) \ {c}
  BY <1>1, <1>2 DEF Creating, Idle
<1>5. Cardinality(Stored(x)) + Cardinality(Creating(x)) <= Cardinality(Callers)
  BY DEF FewCopies
<1>6. CASE i.content = x
  <2>1. Stored(x)' = Stored(x) \cup {i} /\ c \in Creating(x)
    BY <1>1, <1>6 DEF Stored, Creating
  <2>2. Cardinality(Stored(x)') <= Cardinality(Stored(x)) + 1 /\ Cardinality(Stored(x)') \in Nat
    <3>1. CASE i \in Stored(x)
      <4>1. Stored(x)' = Stored(x)
        BY <2>1, <3>1
      <4> QED
        BY <4>1, <1>3
    <3>2. CASE i \notin Stored(x)
      <4>1. Cardinality(Stored(x) \cup {i}) = Cardinality(Stored(x)) + 1
        BY <3>2, <1>3, FS_AddElement
      <4> QED
        BY <2>1, <4>1, <1>3
    <3> QED
      BY <3>1, <3>2
  <2>3. Cardinality(Creating(x)') = Cardinality(Creating(x)) - 1
    BY <2>1, <1>3, <1>4, FS_RemoveElement
  <2> QED
    BY <1>3, <1>5, <2>2, <2>3
<1>7. CASE i.content # x
  <2>1. Stored(x)' = Stored(x) /\ Creating(x)' = Creating(x)
    BY <1>1, <1>4, <1>7 DEF Stored, Creating
  <2> QED
    BY <2>1, <1>5
<1> QED
  BY <1>6, <1>7

LEMMA IngestFew ==
    ASSUME Sound, Sound', FewCopies, NEW c \in Callers, NEW y \in Contents, Ingest(c, y)
    PROVE FewCopies'
<1> SUFFICES ASSUME NEW x \in Contents
             PROVE Cardinality(Stored(x)') + Cardinality(Creating(x)') <= Cardinality(Callers)
  BY DEF FewCopies
<1>1. req \in [Callers -> Req] /\ items' = items
  BY DEF Sound, Requested, Ingest, rows
<1>2. req' = [req EXCEPT ![c] = [Idle EXCEPT !.pc = "create", !.on = [content |-> y, copy |-> asked + 1], !.copy = None]]
  BY DEF Ingest, Begin
<1>3. Stored(x)' = Stored(x)
  BY <1>1 DEF Stored
<1>4. CASE x = y
  <2>1. Stored(x) = {}
    BY <1>4 DEF Ingest, Stored
  <2>2. Cardinality(Stored(x)') = 0
    BY <1>3, <2>1, FS_EmptySet
  <2>3. Creating(x)' \subseteq Callers /\ IsFiniteSet(Callers)
    BY ConstantsAssumption DEF Creating
  <2>4. Cardinality(Creating(x)') <= Cardinality(Callers) /\ Cardinality(Creating(x)') \in Nat
        /\ Cardinality(Callers) \in Nat
    BY <2>3, FS_Subset, FS_CardinalityType
  <2> QED
    BY <2>2, <2>4
<1>5. CASE x # y
  <2>1. req'[c].on.content = y /\ req'[c].pc = "create"
    BY <1>1, <1>2 DEF Idle
  <2>2. \A d \in Callers : d # c => req'[d] = req[d]
    BY <1>1, <1>2
  <2>3. req[c].pc # "create"
    BY DEF Ingest, Begin, Free, Busy
  <2>4. Creating(x)' = Creating(x)
    BY <1>5, <2>1, <2>2, <2>3 DEF Creating
  <2> QED
    BY <1>3, <2>4 DEF FewCopies
<1> QED
  BY <1>4, <1>5

LEMMA NextFew ==
    ASSUME Sound, Sound', FewCopies, [Next]_vars PROVE FewCopies'
<1>1. CASE UNCHANGED vars
  BY <1>1, FewerCopies DEF vars, rows
<1>2. ASSUME NEW c \in Callers, Step(c) PROVE FewCopies'
  <2>1. CASE \E x \in Contents : Ingest(c, x)
    BY <2>1, IngestFew
  <2>2. CASE CreateItem(c)
    BY <2>2, CreateItemFew
  <2>3. CASE ~CreateItem(c) /\ ~\E x \in Contents : Ingest(c, x)
    <3>1. items' \subseteq items
      <4>1. CASE Requests(c)
        BY <2>3, <4>1 DEF Requests, Submit, Explore, Assess, ReWonder, DeleteWonder, DeleteFeedback,
           CreateEdge, DeleteItem, Incubate, Wander, rows
      <4>2. CASE Fault(c)
        BY <4>2 DEF Fault, rows
      <4>3. CASE Judge(c) \/ Record(c) \/ Merge(c) \/ Pronounce(c) \/ Dream(c) \/ Rerun(c) \/ Adopt(c) \/ Supersede(c)
        BY <4>3 DEF Judge, Record, Merge, Pronounce, Dream, Rerun, Adopt, Supersede
      <4>4. CASE Activate(c) \/ Explored(c) \/ Stop(c) \/ Complete(c) \/ Hush(c) \/ ListChildren(c)
                 \/ Orphan(c) \/ RemoveWonder(c)
        BY <4>4 DEF Activate, Explored, Stop, Complete, Hush, ListChildren, Orphan, RemoveWonder, rows
      <4>5. CASE Link(c) \/ Unlink(c) \/ ListSeeds(c) \/ Unseed(c) \/ RemoveItem(c)
        BY <4>5 DEF Link, Unlink, ListSeeds, Unseed, RemoveItem, EraseItem, rows
      <4> QED
        BY <1>2, <2>3, <4>1, <4>2, <4>3, <4>4, <4>5 DEF Step, Steps
    <3>2. req'[c].pc # "create"
      BY <1>2, <2>3, Entering
    <3>3. \A d \in Callers : d # c => req'[d].pc = req[d].pc /\ req'[d].on = req[d].on
      BY <1>2, OthersSame DEF Same
    <3> QED
      BY <3>1, <3>2, <3>3, FewerCopies
  <2> QED
    BY <2>1, <2>2, <2>3
<1> QED
  BY <1>1, <1>2, NextIsStep

LEMMA InitFew == Init => FewCopies
<1> SUFFICES ASSUME Init, NEW x \in Contents
             PROVE Cardinality(Stored(x)) + Cardinality(Creating(x)) <= Cardinality(Callers)
  BY DEF FewCopies
<1>1. PICK y \in Contents : items = {First(y)}
  BY DEF Init
<1>2. Creating(x) = {}
  BY DEF Init, Creating, Idle
<1>3. Stored(x) \in {{}, {First(y)}}
  BY <1>1 DEF Stored
<1>4. Cardinality(Stored(x)) \in {0, 1} /\ Cardinality(Creating(x)) = 0
  BY <1>2, <1>3, FS_EmptySet, FS_Singleton
<1>5. PICK c \in Callers : TRUE
  BY ConstantsAssumption
<1>6. IsFiniteSet(Callers) /\ Cardinality(Callers) \in Nat
  BY ConstantsAssumption, FS_CardinalityType
<1>7. 1 <= Cardinality(Callers)
  <2>1. {c} \subseteq Callers
    BY <1>5
  <2>2. Cardinality({c}) = 1
    BY FS_Singleton
  <2>3. Cardinality({c}) <= Cardinality(Callers)
    BY <2>1, <1>6, FS_Subset
  <2> QED
    BY <2>2, <2>3
<1> QED
  BY <1>4, <1>6, <1>7

(* A text is stored at most as often as there are callers, although the    *)
(* search for it and the storing are two steps (ingestion.py:73-99).       *)
THEOREM DuplicatesFew == Spec => []DuplicatesBounded
<1>1. Sound /\ FewCopies => DuplicatesBounded
  <2> SUFFICES ASSUME Sound, FewCopies, NEW x \in Contents
               PROVE Cardinality({i \in items : i.content = x}) <= Cardinality(Callers)
    BY DEF DuplicatesBounded
  <2>1. Cardinality(Stored(x)) + Cardinality(Creating(x)) <= Cardinality(Callers)
    BY DEF FewCopies
  <2>2. Cardinality(Stored(x)) <= Cardinality(Callers)
    BY <2>1, Finite
  <2> QED
    BY <2>2 DEF Stored
<1>2. Init => FewCopies
  BY InitFew
<1>3. Sound /\ Sound' /\ FewCopies /\ [Next]_vars => FewCopies'
  BY NextFew
<1> QED
  BY <1>1, <1>2, <1>3, SoundAlways, PTL DEF Spec
-----------------------------------------------------------------------------
(* Lineage: how the child of a wonder and the parent of that child agree.  *)

Paired == \A w \in Live \ (raced \cup unwanted) : \A k \in Live \ raced :
            wonders[w].child = k => wonders[k].parent = w

(* A request that has linked the child still has to link the parent.       *)
Pairing(r) == r.pc = "supersede" /\ r.on \in Live \ unwanted /\ r.child \in Live \ raced =>
                wonders[r.child].parent = r.on

(* The copies of wonders a request has in hand.                            *)
Copies(r) == {row \in Row : \/ r.pc \in OnWonder /\ row = r.copy
                            \/ r.pc = "orphan" /\ \E p \in r.todo : p[2] = row}

(* A new child is known to the request that made it only.                  *)
Unclaimed(c, k) ==
    /\ \A w \in Live : wonders[w].child # k
    /\ \A d \in Callers : /\ \A row \in Copies(req[d]) : row.child # k
                          /\ d # c /\ req[d].pc \in {"adopt", "supersede"} => req[d].child # k

Linked == /\ Paired
          /\ \A c \in Callers : Pairing(req[c])
          /\ \A c \in Callers : req[c].pc = "adopt" => Unclaimed(c, req[c].child)

(* Copies are made of stored rows.                                         *)
LEMMA Copying ==
    ASSUME Sound, NEW c \in Callers, Step(c), NEW row \in Copies(req'[c])
    PROVE row \in Copies(req[c]) \/ \E w \in Live : row = wonders[w]
<1>1. req \in [Callers -> Req] /\ req[c] \in Req /\ req'[c].pc \in OnWonder \cup {"orphan"}
  BY DEF Sound, Requested, Copies
<1> DEFINE Good == row \in Copies(req[c]) \/ \E w \in Live : row = wonders[w]
           Gone == req'[c].pc \notin OnWonder \cup {"orphan"}
<1>2. CASE Requests(c)
  <2>1. CASE \E w \in Live, action \in Actions : Submit(c, w, action)
    <3>1. PICK w \in Live, action \in Actions : Submit(c, w, action)
      BY <2>1
    <3>2. req'[c].pc = "judge" /\ req'[c].copy = wonders[w]
      BY <1>1, <3>1 DEF Submit, Idle
    <3>3. row = wonders[w]
      BY <3>2 DEF Copies
    <3> QED
      BY <3>3
  <2>2. CASE \E w \in Live : Explore(c, w) \/ Assess(c, w) \/ ReWonder(c, w)
    <3>1. PICK w \in Live : Explore(c, w) \/ Assess(c, w) \/ ReWonder(c, w)
      BY <2>2
    <3>2. req'[c].pc \in {"merge", "verdict", "rerun"} /\ req'[c].copy = wonders[w]
      BY <1>1, <3>1 DEF Explore, Assess, ReWonder, Begin, Idle
    <3>3. row = wonders[w]
      BY <3>2 DEF Copies
    <3> QED
      BY <3>3
  <2>3. CASE \/ \E w \in Live : DeleteWonder(c, w)
             \/ \E i \in items : DeleteItem(c, i)
    <3>1. Gone
      BY <1>1, <2>3 DEF DeleteWonder, DeleteItem, Idle, OnWonder
    <3> QED
      BY <1>1, <3>1
  <2>4. CASE \E f \in feedback : DeleteFeedback(c, f)
    <3>1. req'[c] = req[c]
      BY <2>4 DEF DeleteFeedback
    <3> QED
      BY <3>1
  <2>5. CASE \/ \E x \in Contents : Ingest(c, x)
             \/ \E i, j \in items : CreateEdge(c, i, j)
             \/ Incubate(c) \/ Wander(c)
    <3>1. Gone
      BY <2>5, Landing DEF Ingest, CreateEdge, Incubate, Wander, OnWonder
    <3> QED
      BY <1>1, <3>1
  <2> QED
    BY <1>2, <2>1, <2>2, <2>3, <2>4, <2>5 DEF Requests
<1>3. CASE Fault(c)
  <2>1. Gone
    BY <1>1, <1>3 DEF Fault, Idle, OnWonder
  <2> QED
    BY <1>1, <2>1
<1>4. CASE Record(c) \/ Merge(c) \/ Pronounce(c) \/ Dream(c) \/ Supersede(c) \/ CreateItem(c) \/ Link(c)
           \/ RemoveWonder(c) \/ RemoveItem(c)
  <2>1. Gone
    BY <1>4, Landing DEF Record, Merge, Pronounce, Dream, Supersede, CreateItem, Link, RemoveWonder,
       RemoveItem, RefuseWonder, OnWonder
  <2> QED
    BY <1>1, <2>1
<1>5. CASE Activate(c) \/ Explored(c) \/ Stop(c) \/ Complete(c)
  <2>1. req'[c].pc \in {"explore", "failed", "complete", "stop", "idle"}
    BY <1>5, Landing DEF Activate, Explored, Stop, Complete
  <2> QED
    BY <1>1, <2>1 DEF OnWonder
<1>6. CASE Unlink(c) \/ ListSeeds(c) \/ Unseed(c)
  <2>1. Gone
    BY <1>6, Landing DEF Unlink, ListSeeds, Unseed, At, OnWonder
  <2> QED
    BY <1>1, <2>1
<1>7. CASE Judge(c) \/ Rerun(c) \/ Adopt(c)
  <2>1. req[c].pc \in OnWonder
    BY <1>7 DEF Judge, Rerun, Adopt, At, OnWonder
  <2>2. CASE Respond(c) \/ Raise(c)
    <3>1. Gone
      BY <2>2, Landing DEF OnWonder
    <3> QED
      BY <1>1, <3>1
  <2>3. CASE Goto(c, "record") \/ Goto(c, "supersede")
    <3>1. req'[c].copy = req[c].copy /\ req'[c].pc \in OnWonder
      BY <1>1, <2>3 DEF Goto, Req, OnWonder
    <3>2. row \in Copies(req[c])
      BY <2>1, <3>1 DEF Copies, OnWonder
    <3> QED
      BY <3>2
  <2>4. CASE req' = [req EXCEPT ![c].pc = "adopt", ![c].child = born']
    <3>1. req'[c].copy = req[c].copy /\ req'[c].pc \in OnWonder
      BY <1>1, <2>4 DEF Req, OnWonder
    <3>2. row \in Copies(req[c])
      BY <2>1, <3>1 DEF Copies, OnWonder
    <3> QED
      BY <3>2
  <2> QED
    BY <1>7, <2>2, <2>3, <2>4 DEF Judge, Rerun, Adopt, RefuseWonder
<1>8. CASE Hush(c)
  <2>1. Gone
    BY <1>1, <1>8 DEF Hush, At, Req, OnWonder
  <2> QED
    BY <1>1, <2>1
<1>9. CASE ListChildren(c)
  <2>1. /\ req'[c].pc = "orphan"
        /\ req'[c].todo = {<<v, wonders[v]>> : v \in {u \in Live : wonders[u].parent = req[c].on}}
    BY <1>1, <1>9 DEF ListChildren, Req
  <2>2. \E w \in Live : row = wonders[w]
    BY <2>1 DEF Copies, OnWonder
  <2> QED
    BY <2>2
<1>10. CASE Orphan(c)
  <2>1. \/ Raise(c)
        \/ \E p \in req[c].todo : req' = [req EXCEPT ![c].todo = @ \ {p}]
    BY <1>10 DEF Orphan, RefuseWonder
  <2>2. CASE Raise(c)
    <3>1. Gone
      BY <2>2, Landing DEF OnWonder
    <3> QED
      BY <1>1, <3>1
  <2>3. CASE \E p \in req[c].todo : req' = [req EXCEPT ![c].todo = @ \ {p}]
    <3>1. req[c].pc = "orphan" /\ req'[c].pc = "orphan" /\ req'[c].todo \subseteq req[c].todo
      BY <1>1, <1>10, <2>3 DEF Orphan, At, Req
    <3>2. row \in Copies(req[c])
      BY <3>1 DEF Copies, OnWonder
    <3> QED
      BY <3>2
  <2> QED
    BY <2>1, <2>2, <2>3
<1> QED
  BY <1>2, <1>3, <1>4, <1>5, <1>6, <1>7, <1>8, <1>9, <1>10 DEF Step, Steps

(* The stored copy of w, if none of its writers was raced.                 *)
LEMMA StoredRow ==
    ASSUME Sound, NEW w, NEW copy, NEW row, StoreWonder(w, copy, row)
    PROVE /\ Live' = Live /\ w \in Live /\ raced \subseteq raced'
          /\ \A v \in Live : wonders'[v] = IF v = w THEN row ELSE wonders[v]
          /\ w \notin raced' => wonders[w] = copy
          /\ \A v : v # w /\ v \notin raced' => v \notin raced
<1>1. wonders \in [Live -> Row]
  BY DEF Sound, Tables, WondersOK
<1> QED
  BY <1>1 DEF StoreWonder, Storable, Live

(* What a request stores, or that it stores nothing.                       *)
LEMMA Storing ==
    ASSUME Sound, NEW c \in Callers, Judge(c) \/ Merge(c) \/ Pronounce(c) \/ Orphan(c)
    PROVE \/ Still /\ unwanted' = unwanted
          \/ /\ UNCHANGED <<born, unwanted>>
             /\ \E w \in Live, copy \in Copies(req[c]), row \in Row :
                  /\ StoreWonder(w, copy, row) /\ row.child = copy.child
                  /\ row.parent = copy.parent \/ copy.parent \in unwanted
<1> DEFINE r == req[c]
<1>1. r \in Req /\ InHand(r, born, unwanted)
  BY Hand
<1>2. CASE Judge(c)
  <2> DEFINE row == Judged(r.copy, r.action)
  <2>1. r.pc = "judge" /\ r.copy \in Rows(r.on, born) /\ r.copy \in Row /\ r.action \in Actions
    BY <1>1, <1>2 DEF Judge, At, InHand, OnWonder, Rows
  <2>2. row \in Row /\ row.child = r.copy.child /\ row.parent = r.copy.parent
    <3>1. /\ row \in Rows(r.on, born)
          /\ row.child = r.copy.child /\ row.parent = r.copy.parent
      BY <2>1, JudgedRow
    <3> HIDE DEF row
    <3> QED
      BY <3>1 DEF Rows
  <2>3. r.copy \in Copies(r)
    BY <2>1 DEF Copies, OnWonder
  <2>4. RefuseWonder(c, r.on, row) => Still /\ unwanted' = unwanted
    BY <1>2 DEF Judge, RefuseWonder, Still
  <2>5. StoreWonder(r.on, r.copy, row) \/ RefuseWonder(c, r.on, row)
    BY <1>2 DEF Judge
  <2> HIDE DEF row
  <2>6. StoreWonder(r.on, r.copy, row) => r.on \in Live
    BY StoredRow
  <2>7. UNCHANGED <<born, unwanted>>
    BY <1>2 DEF Judge
  <2> QED
    BY <2>2, <2>3, <2>4, <2>5, <2>6, <2>7
<1>3. CASE Merge(c)
  <2> DEFINE row == [r.copy EXCEPT !.deep = TRUE]
  <2>1. r.pc = "merge" /\ r.copy \in Rows(r.on, born) /\ r.copy \in Row
    BY <1>1, <1>3 DEF Merge, At, InHand, OnWonder, Rows
  <2>2. row \in Row /\ row.child = r.copy.child /\ row.parent = r.copy.parent
    BY <2>1, MergedRow DEF Rows
  <2>3. r.copy \in Copies(r)
    BY <2>1 DEF Copies, OnWonder
  <2>4. RefuseWonder(c, r.on, row) => Still /\ unwanted' = unwanted
    BY <1>3 DEF Merge, RefuseWonder, Still
  <2>5. StoreWonder(r.on, r.copy, row) \/ RefuseWonder(c, r.on, row)
    BY <1>3 DEF Merge
  <2> HIDE DEF row
  <2>6. StoreWonder(r.on, r.copy, row) => r.on \in Live
    BY StoredRow
  <2>7. UNCHANGED <<born, unwanted>>
    BY <1>3 DEF Merge
  <2> QED
    BY <2>2, <2>3, <2>4, <2>5, <2>6, <2>7
<1>4. CASE Orphan(c)
  <2>1. PICK p \in r.todo : \/ StoreWonder(p[1], p[2], [p[2] EXCEPT !.parent = None])
                            \/ RefuseWonder(c, p[1], [p[2] EXCEPT !.parent = None])
    BY <1>4 DEF Orphan
  <2> DEFINE row == [p[2] EXCEPT !.parent = None]
  <2>2. r.pc = "orphan" /\ p[2] \in Rows(p[1], born) /\ p[2] \in Row /\ p[2].parent = r.on /\ r.on \in unwanted
    BY <1>1, <1>4 DEF Orphan, At, InHand, Rows
  <2>3. row \in Row /\ row.child = p[2].child
    BY <2>2, OrphanedRow DEF Rows
  <2>4. p[2] \in Copies(r) /\ p[2].parent \in unwanted
    BY <2>2 DEF Copies
  <2>5. RefuseWonder(c, p[1], row) => Still /\ unwanted' = unwanted
    BY <1>4 DEF Orphan, RefuseWonder, Still
  <2> HIDE DEF row
  <2>6. StoreWonder(p[1], p[2], row) => p[1] \in Live
    BY StoredRow
  <2>7. UNCHANGED <<born, unwanted>>
    BY <1>4 DEF Orphan
  <2>8. StoreWonder(p[1], p[2], row) \/ RefuseWonder(c, p[1], row)
    BY <2>1 DEF row
  <2> QED
    BY <2>3, <2>4, <2>5, <2>6, <2>7, <2>8
<1>5. CASE Pronounce(c)
  <2>1. r.pc = "verdict" /\ r.copy \in Rows(r.on, born) /\ r.copy \in Row
    BY <1>1, <1>5 DEF Pronounce, At, InHand, OnWonder, Rows
  <2>2. r.copy \in Copies(r)
    BY <2>1 DEF Copies, OnWonder
  <2>3. UNCHANGED <<born, feedback, acked, unsaid, unwanted>>
    BY <1>5 DEF Pronounce
  <2>4. CASE UNCHANGED <<wonders, raced>>
    BY <2>3, <2>4 DEF Still
  <2>5. CASE \E row \in {r.copy, Refused(r.copy)} : StoreWonder(r.on, r.copy, row)
    <3>1. PICK row \in {r.copy, Refused(r.copy)} : StoreWonder(r.on, r.copy, row)
      BY <2>5
    <3>2. row \in Row /\ row.child = r.copy.child /\ row.parent = r.copy.parent
      BY <2>1, PronouncedRow
    <3>3. r.on \in Live
      BY <3>1, StoredRow
    <3> QED
      BY <2>2, <2>3, <3>1, <3>2, <3>3
  <2> QED
    BY <1>5, <2>4, <2>5 DEF Pronounce, RefuseWonder
<1> QED
  BY <1>2, <1>3, <1>4, <1>5
-----------------------------------------------------------------------------
(* The parts of Linked, step by step.                                      *)

(* Requests that still have to link a parent, unchanged by a step.         *)
NoNewPairing == \A d \in Callers : req'[d].pc = "supersede" =>
    /\ req[d].pc = "supersede" /\ req'[d].on = req[d].on /\ req'[d].child = req[d].child

LEMMA PairsStay ==
    ASSUME Linked, wonders' = wonders, raced' = raced, unwanted \subseteq unwanted', NoNewPairing
    PROVE Paired' /\ \A d \in Callers : Pairing(req[d])'
<1>1. Live' = Live
  BY DEF Live
<1>2. Paired'
  BY <1>1 DEF Linked, Paired
<1>3. \A d \in Callers : Pairing(req[d])'
  BY <1>1 DEF Linked, Pairing, NoNewPairing
<1> QED
  BY <1>2, <1>3

LEMMA StorePairs ==
    ASSUME Sound, Linked, NEW w \in Live, NEW copy, NEW row, StoreWonder(w, copy, row),
           row.child = copy.child, row.parent = copy.parent \/ copy.parent \in unwanted,
           unwanted' = unwanted, NoNewPairing
    PROVE Paired' /\ \A d \in Callers : Pairing(req[d])'
<1>1. /\ Live' = Live /\ raced \subseteq raced'
      /\ \A v \in Live : wonders'[v] = IF v = w THEN row ELSE wonders[v]
      /\ w \notin raced' => wonders[w] = copy
  BY StoredRow
(* Read off a child that was not raced: its parent is as it was, or its    *)
(* parent is to be deleted.                                                *)
<1>2. ASSUME NEW v \in Live \ raced'
      PROVE /\ wonders'[v].child = wonders[v].child
            /\ wonders'[v].parent = wonders[v].parent \/ wonders[v].parent \in unwanted
  BY <1>1, <1>2
<1>3. Paired'
  <2> SUFFICES ASSUME NEW v \in Live' \ (raced' \cup unwanted'), NEW k \in Live' \ raced',
                      wonders'[v].child = k
               PROVE wonders'[k].parent = v
    BY DEF Paired
  <2>1. wonders[v].child = k /\ v \in Live \ (raced \cup unwanted) /\ k \in Live \ raced
    BY <1>1, <1>2
  <2>2. wonders[k].parent = v
    BY <2>1 DEF Linked, Paired
  <2> QED
    BY <1>1, <1>2, <2>1, <2>2
<1>4. ASSUME NEW d \in Callers PROVE Pairing(req[d])'
  <2> SUFFICES ASSUME req'[d].pc = "supersede", req'[d].on \in Live' \ unwanted',
                      req'[d].child \in Live' \ raced'
               PROVE wonders'[req'[d].child].parent = req'[d].on
    BY DEF Pairing
  <2>1. /\ req[d].pc = "supersede" /\ req'[d].on = req[d].on /\ req'[d].child = req[d].child
        /\ req[d].on \in Live \ unwanted /\ req[d].child \in Live \ raced'
    BY <1>1 DEF NoNewPairing
  <2>2. req[d].child \in Live \ raced
    BY <1>1, <2>1
  <2>3. wonders[req[d].child].parent = req[d].on
    BY <2>1, <2>2 DEF Linked, Pairing
  <2> QED
    BY <1>1, <1>2, <2>1, <2>3
<1> QED
  BY <1>3, <1>4

LEMMA AdoptPairs ==
    ASSUME Sound, Linked, NEW c \in Callers, Adopt(c), Step(c)
    PROVE Paired' /\ \A d \in Callers : Pairing(req[d])'
<1> DEFINE r == req[c]
           row == [Fresh EXCEPT !.parent = r.on]
<1>1. r \in Req /\ r.pc = "adopt" /\ InHand(r, born, unwanted) /\ req \in [Callers -> Req]
  BY Hand DEF Adopt, At, Sound, Requested
<1>2. r.on \in Nat /\ r.child \in Nat /\ r.on < r.child
  BY <1>1, Counters DEF InHand, OnWonder
<1>3. row.child = None /\ row.parent = r.on
  BY DEF Fresh
<1>4. Unclaimed(c, r.child)
  BY <1>1 DEF Linked
<1>5. unwanted' = unwanted /\ \A d \in Callers : d # c => Same(d)
  BY OthersSame DEF Adopt
<1>6. \/ StoreWonder(r.child, Fresh, row) /\ Goto(c, "supersede")
      \/ RefuseWonder(c, r.child, row)
  BY DEF Adopt
<1> HIDE DEF row
<1>7. CASE RefuseWonder(c, r.child, row)
  <2>1. NoNewPairing
    <3>1. req'[c].pc = "failed"
      BY <1>7, Landing DEF RefuseWonder
    <3> QED
      BY <3>1, <1>5 DEF NoNewPairing, Same
  <2> QED
    BY <2>1, <1>5, <1>7, PairsStay DEF RefuseWonder
<1>8. CASE StoreWonder(r.child, Fresh, row) /\ Goto(c, "supersede")
  <2>1. /\ Live' = Live /\ raced \subseteq raced' /\ r.child \in Live
        /\ \A v \in Live : wonders'[v] = IF v = r.child THEN row ELSE wonders[v]
    BY <1>8, StoredRow
  <2>2. Paired'
    <3> SUFFICES ASSUME NEW v \in Live' \ (raced' \cup unwanted'), NEW k \in Live' \ raced',
                        wonders'[v].child = k
                 PROVE wonders'[k].parent = v
      BY DEF Paired
    <3>1. k \in Nat /\ k # None
      BY <2>1, Counters, ConstantsAssumption
    <3>2. v # r.child
      BY <1>3, <2>1, <3>1
    <3>3. wonders[v].child = k /\ k # r.child
      BY <1>4, <2>1, <3>2 DEF Unclaimed
    <3>4. wonders[k].parent = v
      BY <1>5, <2>1, <3>3 DEF Linked, Paired
    <3> QED
      BY <2>1, <3>3, <3>4
  <2>3. ASSUME NEW d \in Callers PROVE Pairing(req[d])'
    <3>1. CASE d = c
      <4>1. req'[c].on = r.on /\ req'[c].child = r.child
        BY <1>1, <1>8 DEF Goto, Req
      <4> QED
        BY <1>3, <2>1, <3>1, <4>1 DEF Pairing
    <3>2. CASE d # c
      <4> SUFFICES ASSUME req'[d].pc = "supersede", req'[d].on \in Live' \ unwanted',
                          req'[d].child \in Live' \ raced'
                   PROVE wonders'[req'[d].child].parent = req'[d].on
        BY DEF Pairing
      <4>1. req[d].pc = "supersede" /\ req'[d].on = req[d].on /\ req'[d].child = req[d].child
        BY <1>5, <3>2 DEF Same
      <4>2. req[d].child # r.child
        BY <1>4, <3>2, <4>1 DEF Unclaimed
      <4>3. wonders[req[d].child].parent = req[d].on
        BY <1>5, <2>1, <4>1 DEF Linked, Pairing
      <4> QED
        BY <2>1, <4>1, <4>2, <4>3
    <3> QED
      BY <3>1, <3>2
  <2> QED
    BY <2>2, <2>3
<1> QED
  BY <1>6, <1>7, <1>8

LEMMA SupersedePairs ==
    ASSUME Sound, Linked, NEW c \in Callers, Supersede(c), Step(c)
    PROVE Paired' /\ \A d \in Callers : Pairing(req[d])'
<1> DEFINE r == req[c]
           row == Superseded(r.copy, r.child)
<1>1. r \in Req /\ r.pc = "supersede" /\ InHand(r, born, unwanted)
  BY Hand DEF Supersede, At
<1>2. /\ r.on \in Nat /\ r.child \in 1 .. born /\ r.on < r.child /\ r.child \in Nat
      /\ r.copy \in Rows(r.on, born)
  BY <1>1, Counters DEF InHand, OnWonder
<1>3. row.child = r.child /\ row.parent = r.copy.parent
  BY <1>2, Counters, SupersededRow
<1>4. unwanted' = unwanted /\ \A d \in Callers : d # c => Same(d)
  BY OthersSame DEF Supersede
<1>5. NoNewPairing
  <2>1. req'[c].pc \in {"idle", "failed"}
    BY Landing DEF Supersede, RefuseWonder
  <2> QED
    BY <1>4, <2>1 DEF NoNewPairing, Same
<1>6. StoreWonder(r.on, r.copy, row) \/ RefuseWonder(c, r.on, row)
  BY DEF Supersede
<1> HIDE DEF row
<1>7. CASE RefuseWonder(c, r.on, row)
  BY <1>4, <1>5, <1>7, PairsStay DEF RefuseWonder
<1>8. CASE StoreWonder(r.on, r.copy, row)
  <2>1. /\ Live' = Live /\ raced \subseteq raced' /\ r.on \in Live
        /\ \A v \in Live : wonders'[v] = IF v = r.on THEN row ELSE wonders[v]
        /\ r.on \notin raced' => wonders[r.on] = r.copy
    BY <1>8, StoredRow
  <2>2. \A v \in Live \ raced' : wonders'[v].parent = wonders[v].parent
    BY <1>3, <2>1
  <2>3. Paired'
    <3> SUFFICES ASSUME NEW v \in Live' \ (raced' \cup unwanted'), NEW k \in Live' \ raced',
                        wonders'[v].child = k
                 PROVE wonders'[k].parent = v
      BY DEF Paired
    <3>1. CASE v = r.on
      <4>1. k = r.child
        BY <1>3, <2>1, <3>1
      <4>2. wonders[r.child].parent = r.on
        BY <1>1, <1>4, <2>1, <3>1, <4>1 DEF Linked, Pairing
      <4> QED
        BY <2>1, <2>2, <3>1, <4>1, <4>2
    <3>2. CASE v # r.on
      <4>1. wonders[k].parent = v
        BY <1>4, <2>1, <3>2 DEF Linked, Paired
      <4> QED
        BY <2>1, <2>2, <4>1
    <3> QED
      BY <3>1, <3>2
  <2>4. ASSUME NEW d \in Callers PROVE Pairing(req[d])'
    <3> SUFFICES ASSUME req'[d].pc = "supersede", req'[d].on \in Live' \ unwanted',
                        req'[d].child \in Live' \ raced'
                 PROVE wonders'[req'[d].child].parent = req'[d].on
      BY DEF Pairing
    <3>1. req[d].pc = "supersede" /\ req'[d].on = req[d].on /\ req'[d].child = req[d].child
      BY <1>5 DEF NoNewPairing
    <3>2. wonders[req[d].child].parent = req[d].on
      BY <1>4, <2>1, <3>1 DEF Linked, Pairing
    <3> QED
      BY <2>1, <2>2, <3>1, <3>2
  <2> QED
    BY <2>3, <2>4
<1> QED
  BY <1>6, <1>7, <1>8

LEMMA CreatePairs ==
    ASSUME Sound, Linked, CreateWonder, raced' = raced, unwanted' = unwanted, NoNewPairing
    PROVE Paired' /\ \A d \in Callers : Pairing(req[d])'
<1>1. WondersOK /\ \A d \in Callers : req[d] \in Req /\ InHand(req[d], born, unwanted)
  BY Hand DEF Sound, Tables
<1>2. /\ born' = born + 1 /\ born' \in Nat /\ Live' = Live \cup {born'} /\ born' \notin Live
      /\ wonders'[born'] = Fresh /\ \A v \in Live : wonders'[v] = wonders[v]
  BY <1>1, Created
<1>3. born \in Nat /\ \A v \in Live : wonders[v].child # born'
  BY <1>1, <1>2, ConstantsAssumption DEF WondersOK, Rows, Row
<1>4. Fresh.child = None
  BY DEF Fresh
<1>5. Paired'
  <2> SUFFICES ASSUME NEW v \in Live' \ (raced' \cup unwanted'), NEW k \in Live' \ raced',
                      wonders'[v].child = k
               PROVE wonders'[k].parent = v
    BY DEF Paired
  <2>1. k \in Nat /\ k # None
    BY <1>1, <1>2, ConstantsAssumption DEF WondersOK
  <2>2. v \in Live /\ k \in Live /\ wonders[v].child = k
    BY <1>2, <1>3, <1>4, <2>1
  <2> QED
    BY <1>2, <2>2 DEF Linked, Paired
<1>6. ASSUME NEW d \in Callers PROVE Pairing(req[d])'
  <2> SUFFICES ASSUME req'[d].pc = "supersede", req'[d].on \in Live' \ unwanted',
                      req'[d].child \in Live' \ raced'
               PROVE wonders'[req'[d].child].parent = req'[d].on
    BY DEF Pairing
  <2>1. req[d].pc = "supersede" /\ req'[d].on = req[d].on /\ req'[d].child = req[d].child
    BY DEF NoNewPairing
  <2>2. req[d].on \in 1 .. born /\ req[d].child \in 1 .. born
    BY <1>1, <2>1 DEF InHand, OnWonder
  <2>3. req[d].on \in Live /\ req[d].child \in Live
    BY <1>2, <1>3, <2>1, <2>2
  <2> QED
    BY <1>2, <2>1, <2>3 DEF Linked, Pairing
<1> QED
  BY <1>5, <1>6

LEMMA RemovePairs ==
    ASSUME Sound, Linked, NEW c \in Callers, RemoveWonder(c), NoNewPairing
    PROVE Paired' /\ \A d \in Callers : Pairing(req[d])'
<1> DEFINE w == req[c].on
<1>1. UNCHANGED <<unwanted, raced>> /\ EraseWonder(w)
  BY DEF RemoveWonder, history
<1>2. Live' = Live \ {w}
      /\ \A v \in Live' : wonders'[v] = IF wonders[v].parent = w THEN [wonders[v] EXCEPT !.parent = None] ELSE wonders[v]
  BY <1>1 DEF EraseWonder, Live
<1>3. \A v \in Live : wonders[v] \in Row
  BY DEF Sound, Tables, WondersOK
<1>4. ASSUME NEW v \in Live'
      PROVE /\ wonders'[v].child = wonders[v].child
            /\ wonders[v].parent # w => wonders'[v].parent = wonders[v].parent
  BY <1>2, <1>3 DEF Row
<1>5. Paired'
  BY <1>1, <1>2, <1>4 DEF Linked, Paired
<1>6. ASSUME NEW d \in Callers PROVE Pairing(req[d])'
  <2> SUFFICES ASSUME req'[d].pc = "supersede", req'[d].on \in Live' \ unwanted',
                      req'[d].child \in Live' \ raced'
               PROVE wonders'[req'[d].child].parent = req'[d].on
    BY DEF Pairing
  <2>1. req[d].pc = "supersede" /\ req'[d].on = req[d].on /\ req'[d].child = req[d].child
    BY DEF NoNewPairing
  <2>2. wonders[req[d].child].parent = req[d].on
    BY <1>1, <1>2, <2>1 DEF Linked, Pairing
  <2> QED
    BY <1>2, <1>4, <2>1, <2>2
<1> QED
  BY <1>5, <1>6

LEMMA NextPairs ==
    ASSUME Sound, Linked, NEW c \in Callers, Step(c)
    PROVE Paired' /\ \A d \in Callers : Pairing(req[d])'
<1>1. CASE Adopt(c)
  BY <1>1, AdoptPairs
<1>2. CASE Supersede(c)
  BY <1>2, SupersedePairs
<1>3. CASE ~Adopt(c) /\ ~Supersede(c)
  <2>1. NoNewPairing
    <3>1. req'[c].pc # "supersede"
      BY <1>3, Entering
    <3> QED
      BY <3>1, OthersSame DEF NoNewPairing, Same
  <2>2. CASE Still
    BY <2>1, <2>2, PairsStay DEF Still
  <2>3. CASE Judge(c) \/ Merge(c) \/ Pronounce(c) \/ Orphan(c)
    <3>1. CASE Still
      BY <2>1, <3>1, PairsStay DEF Still
    <3>2. CASE ~Still
      BY <2>1, <2>3, <3>2, Storing, StorePairs
    <3> QED
      BY <3>1, <3>2
  <2>4. CASE Dream(c) \/ Rerun(c) \/ Explored(c)
    <3>1. UNCHANGED <<raced, unwanted>> /\ (CreateWonder \/ wonders' = wonders)
      BY <2>4 DEF Dream, Rerun, Explored, history
    <3> QED
      BY <2>1, <3>1, CreatePairs, PairsStay
  <2>5. CASE RemoveWonder(c)
    BY <2>1, <2>5, RemovePairs
  <2>6. CASE Record(c) \/ Hush(c) \/ \E f \in feedback : DeleteFeedback(c, f)
    <3>1. UNCHANGED <<wonders, raced, unwanted>>
      BY <2>6 DEF Record, Hush, DeleteFeedback, history
    <3> QED
      BY <2>1, <3>1, PairsStay
  <2> QED
    BY <1>3, <2>2, <2>3, <2>4, <2>5, <2>6, StepKinds
<1> QED
  BY <1>1, <1>2, <1>3
-----------------------------------------------------------------------------
(* The children that rows name.                                            *)

LEMMA Children ==
    ASSUME Sound, NEW c \in Callers, Step(c), NEW w \in Live'
    PROVE \/ wonders'[w].child = None
          \/ \E v \in Live : wonders'[w].child = wonders[v].child
          \/ \E row \in Copies(req[c]) : wonders'[w].child = row.child
          \/ req[c].pc = "supersede" /\ wonders'[w].child = req[c].child
<1> DEFINE r == req[c]
<1>1. r \in Req /\ InHand(r, born, unwanted) /\ WondersOK
  BY Hand DEF Sound, Tables
<1>2. CASE wonders' = wonders
  BY <1>2 DEF Live
<1>3. CASE Judge(c) \/ Merge(c) \/ Pronounce(c) \/ Orphan(c)
  <2>1. CASE Still
    BY <1>2, <2>1 DEF Still
  <2>2. CASE ~Still
    <3>1. PICK u \in Live, copy \in Copies(r), row \in Row : StoreWonder(u, copy, row) /\ row.child = copy.child
      BY <1>3, <2>2, Storing
    <3>2. Live' = Live /\ \A v \in Live : wonders'[v] = IF v = u THEN row ELSE wonders[v]
      BY <3>1, StoredRow
    <3> QED
      BY <3>1, <3>2
  <2> QED
    BY <2>1, <2>2
<1>4. CASE Adopt(c)
  <2> DEFINE row == [Fresh EXCEPT !.parent = r.on]
  <2>1. row.child = None
    BY DEF Fresh
  <2>2. StoreWonder(r.child, Fresh, row) \/ wonders' = wonders
    BY <1>4 DEF Adopt, RefuseWonder
  <2> HIDE DEF row
  <2>3. CASE StoreWonder(r.child, Fresh, row)
    <3>1. Live' = Live /\ \A v \in Live : wonders'[v] = IF v = r.child THEN row ELSE wonders[v]
      BY <2>3, StoredRow
    <3> QED
      BY <2>1, <3>1
  <2> QED
    BY <1>2, <2>2, <2>3
<1>5. CASE Supersede(c)
  <2> DEFINE row == Superseded(r.copy, r.child)
  <2>1. /\ r.pc = "supersede" /\ r.child \in 1 .. born /\ r.copy \in Rows(r.on, born)
    BY <1>1, <1>5 DEF Supersede, At, InHand, OnWonder
  <2>2. row.child = r.child
    BY <2>1, Counters, SupersededRow
  <2>3. StoreWonder(r.on, r.copy, row) \/ wonders' = wonders
    BY <1>5 DEF Supersede, RefuseWonder
  <2> HIDE DEF row
  <2>4. CASE StoreWonder(r.on, r.copy, row)
    <3>1. Live' = Live /\ \A v \in Live : wonders'[v] = IF v = r.on THEN row ELSE wonders[v]
      BY <2>4, StoredRow
    <3> QED
      BY <2>1, <2>2, <3>1
  <2> QED
    BY <1>2, <2>3, <2>4
<1>6. CASE Dream(c) \/ Rerun(c) \/ Explored(c)
  <2>1. raced' = raced /\ (CreateWonder \/ wonders' = wonders)
    BY <1>6 DEF Dream, Rerun, Explored, history
  <2>2. CASE CreateWonder
    <3>1. /\ Live' = Live \cup {born'} /\ wonders'[born'] = Fresh
          /\ \A v \in Live : wonders'[v] = wonders[v]
      BY <1>1, <2>1, <2>2, Created
    <3>2. Fresh.child = None
      BY DEF Fresh
    <3> QED
      BY <3>1, <3>2
  <2> QED
    BY <1>2, <2>1, <2>2
<1>7. CASE RemoveWonder(c)
  <2>1. EraseWonder(r.on) /\ UNCHANGED <<born, raced>>
    BY <1>7 DEF RemoveWonder, history
  <2>2. /\ Live' = Live \ {r.on}
        /\ \A v \in Live' : \E p \in {wonders[v].parent, None} : wonders'[v] = [wonders[v] EXCEPT !.parent = p]
    BY <1>1, <2>1, Erased
  <2>3. wonders[w] \in Row
    BY <1>1, <2>2 DEF WondersOK
  <2>4. wonders'[w].child = wonders[w].child
    BY <2>2, <2>3 DEF Row
  <2> QED
    BY <2>2, <2>4
<1>8. CASE Record(c) \/ Hush(c) \/ \E f \in feedback : DeleteFeedback(c, f)
  BY <1>2, <1>8 DEF Record, Hush, DeleteFeedback
<1> QED
  BY <1>2, <1>3, <1>4, <1>5, <1>6, <1>7, <1>8, StepKinds DEF Still

LEMMA KnownChildren ==
    ASSUME Sound
    PROVE /\ \A w \in Live : wonders[w].child \in Nat \cup {None}
          /\ \A w \in Live : wonders[w].child # None => wonders[w].child <= born
          /\ \A c \in Callers : \A row \in Copies(req[c]) :
               row.child \in Nat \cup {None} /\ (row.child # None => row.child <= born)
          /\ \A c \in Callers : req[c].pc \in {"adopt", "supersede"} =>
               req[c].child \in Nat /\ req[c].child <= born
<1>1. \A w \in Live : wonders[w] \in Rows(w, born) /\ wonders[w] \in Row
  BY DEF Sound, Tables, WondersOK
<1>2. \A c \in Callers : InHand(req[c], born, unwanted)
  BY Hand
<1>3. ASSUME NEW c \in Callers, NEW row \in Copies(req[c])
      PROVE row \in Row /\ (row.child # None => row.child <= born)
  <2>1. \E w : row \in Rows(w, born)
    BY <1>2 DEF Copies, InHand
  <2> QED
    BY <2>1 DEF Rows
<1>4. \A c \in Callers : req[c].pc \in {"adopt", "supersede"} => req[c].child \in Nat /\ req[c].child <= born
  BY <1>2, Counters DEF InHand
<1> QED
  BY <1>1, <1>3, <1>4 DEF Rows, Row

LEMMA SameCopies ==
    ASSUME NEW d \in Callers, Same(d) PROVE Copies(req'[d]) = Copies(req[d])
  BY DEF Same, Copies

LEMMA NextUnclaimed ==
    ASSUME Sound, Linked, NEW c \in Callers, Step(c), NEW a \in Callers, req'[a].pc = "adopt"
    PROVE Unclaimed(a, req[a].child)'
<1> DEFINE k == req'[a].child
<1>1. \A d \in Callers : d # c => Same(d) /\ Copies(req'[d]) = Copies(req[d])
  BY OthersSame, SameCopies
<1>2. \A row \in Copies(req'[c]) : row \in Copies(req[c]) \/ \E w \in Live : row = wonders[w]
  BY Copying
<1>3. req \in [Callers -> Req] /\ born \in Nat
  BY Counters DEF Sound, Requested
<1>4. Rerun(c) /\ req'[c].pc = "adopt" => req'[c].child = born + 1
  <2> SUFFICES ASSUME Rerun(c), req'[c].pc = "adopt" PROVE req'[c].child = born + 1
    OBVIOUS
  <2>1. ~Respond(c)
    BY Landing
  <2>2. req' = [req EXCEPT ![c].pc = "adopt", ![c].child = born'] /\ born' = born + 1
    BY <2>1 DEF Rerun, CreateWonder
  <2>3. [[req[c] EXCEPT !.pc = "adopt"] EXCEPT !.child = born'].child = born'
    BY <1>3 DEF Req
  <2> QED
    BY <1>3, <2>2, <2>3
(* No row and no copy names k, and no other request was given it.          *)
<1>5. CASE a = c
  <2>1. k = born + 1 /\ k \in Nat /\ k # None
    BY <1>3, <1>4, <1>5, Entering, ConstantsAssumption
  <2>2. \A w \in Live : wonders[w].child # k
    BY <2>1, <1>3, KnownChildren
  <2>3. \A d \in Callers : \A row \in Copies(req[d]) : row.child # k
    BY <2>1, <1>3, KnownChildren
  <2>4. \A d \in Callers : req[d].pc \in {"adopt", "supersede"} => req[d].child # k
    BY <2>1, <1>3, KnownChildren
  <2>5. \A w \in Live' : wonders'[w].child # k
    BY <2>1, <2>2, <2>3, <2>4, Children
  <2>6. \A d \in Callers : \A row \in Copies(req'[d]) : row.child # k
    BY <1>1, <1>2, <2>2, <2>3
  <2>7. \A d \in Callers : d # a /\ req'[d].pc \in {"adopt", "supersede"} => req'[d].child # k
    BY <1>1, <1>5, <2>4 DEF Same
  <2> QED
    BY <2>5, <2>6, <2>7 DEF Unclaimed
<1>6. CASE a # c
  <2>1. req[a].pc = "adopt" /\ k = req[a].child
    BY <1>1, <1>6 DEF Same
  <2>2. Unclaimed(a, k)
    BY <2>1 DEF Linked
  <2>3. k \in Nat /\ k <= born /\ k # None
    BY <2>1, KnownChildren, ConstantsAssumption
  <2>4. \A w \in Live' : wonders'[w].child # k
    BY <1>6, <2>2, <2>3, Children DEF Unclaimed
  <2>5. \A d \in Callers : \A row \in Copies(req'[d]) : row.child # k
    BY <1>1, <1>2, <2>2 DEF Unclaimed
  <2>6. \A d \in Callers : d # a /\ d # c /\ req'[d].pc \in {"adopt", "supersede"} => req'[d].child # k
    BY <1>1, <2>2 DEF Unclaimed, Same
  <2>7. req'[c].pc \in {"adopt", "supersede"} => req'[c].child # k
    <3>1. CASE req'[c].pc = "adopt"
      <4>1. req'[c].child = born + 1
        BY <1>4, <3>1, Entering
      <4> QED
        BY <1>3, <2>3, <4>1
    <3>2. CASE req'[c].pc = "supersede"
      <4>1. Adopt(c)
        BY <3>2, Entering
      <4>2. ~Raise(c)
        BY <3>2, Landing
      <4>3. req[c].pc = "adopt" /\ Goto(c, "supersede")
        BY <4>1, <4>2 DEF Adopt, At, RefuseWonder
      <4>4. req'[c].child = req[c].child
        BY <1>3, <4>3 DEF Goto, Req
      <4> QED
        BY <1>6, <2>2, <4>3, <4>4 DEF Unclaimed
    <3> QED
      BY <3>1, <3>2
  <2> QED
    BY <2>4, <2>5, <2>6, <2>7 DEF Unclaimed
<1> QED
  BY <1>5, <1>6

LEMMA NextLinked ==
    ASSUME Sound, Linked, [Next]_vars PROVE Linked'
<1>1. CASE UNCHANGED vars
  BY <1>1 DEF vars, rows, history, Linked, Paired, Pairing, Unclaimed, Copies, Live
<1>2. ASSUME NEW c \in Callers, Step(c) PROVE Linked'
  BY <1>2, NextPairs, NextUnclaimed DEF Linked
<1> QED
  BY <1>1, <1>2, NextIsStep

LEMMA InitLinked == Init => Linked
<1> SUFFICES ASSUME Init PROVE Linked
  OBVIOUS
<1>1. Live = {1} /\ wonders[1] = Fresh /\ req = [c \in Callers |-> Idle]
  BY DEF Init, Live
<1>2. Fresh.child = None /\ None # 1
  BY ConstantsAssumption DEF Fresh
<1> QED
  BY <1>1, <1>2 DEF Linked, Paired, Pairing, Idle

(* A superseded wonder and the one that replaced it name each other, and   *)
(* parents are stored and older (incubation_service.py:101-106).           *)
THEOREM LineageAlways == Spec => []Lineage
<1>1. Sound /\ Linked => Lineage
  <2> SUFFICES ASSUME Sound, Linked PROVE Lineage
    OBVIOUS
  <2>1. WondersOK
    BY DEF Sound, Tables
  <2>2. \A w \in Live : wonders[w].parent \in {None} \cup (Live \cap 1 .. w - 1)
    <3> SUFFICES ASSUME NEW w \in Live, wonders[w].parent # None
                 PROVE wonders[w].parent \in Live /\ wonders[w].parent \in 1 .. w - 1
      OBVIOUS
    <3>1. w \in 1 .. born /\ born \in Nat /\ wonders[w].parent < w /\ wonders[w].parent \in Live
      BY <2>1 DEF WondersOK, Rows
    <3>2. wonders[w].parent \in 1 .. born
      BY <2>1, <3>1 DEF WondersOK
    <3> QED
      BY <3>1, <3>2
  <2>3. \A w \in Live : wonders[w].status = "superseded" => wonders[w].child # None
    BY <2>1 DEF WondersOK, Rows
  <2> QED
    BY <2>2, <2>3 DEF Lineage, Linked, Paired
<1>2. Init => Linked
  BY InitLinked
<1>3. Sound /\ Linked /\ [Next]_vars => Linked'
  BY NextLinked
<1> QED
  BY <1>1, <1>2, <1>3, SoundAlways, PTL DEF Spec
-----------------------------------------------------------------------------
(* What a wonder shows of the feedback on it.                              *)

Later(w, k)  == {j \in DOMAIN acked : acked[j].on = w /\ j > k}
Recording(w) == {d \in Callers : req[d].pc = "record" /\ req[d].on = w}

(* The last action a wonder shows: none yet, the one of a request that has *)
(* still to record it, or one that was recorded.  Since then only those    *)
(* have recorded who had judged before, so they are fewer than the callers.*)
Unjudged(w) == wonders[w].last = None /\ Recording(w) = {} /\ \A k \in DOMAIN acked : acked[k].on # w
Pending(w)  == \E d \in Recording(w) : req[d].action = wonders[w].last
Said(w)     == \E k \in DOMAIN acked :
                 /\ acked[k].on = w /\ acked[k].action = wonders[w].last
                 /\ Cardinality(Later(w, k)) + Cardinality(Recording(w)) < Cardinality(Callers)

Shows(w) == Unjudged(w) \/ Pending(w) \/ Said(w)
Shown    == faults = 0 => \A w \in Live \ raced : Shows(w)

LEMMA FiniteSaid ==
    ASSUME Sound, NEW w, NEW k
    PROVE /\ IsFiniteSet(Later(w, k)) /\ Cardinality(Later(w, k)) \in Nat
          /\ IsFiniteSet(Recording(w)) /\ Cardinality(Recording(w)) \in Nat
          /\ Cardinality(Recording(w)) <= Cardinality(Callers) /\ Cardinality(Callers) \in Nat
<1>1. acked \in Seq(Note) /\ DOMAIN acked = 1 .. Len(acked) /\ Len(acked) \in Nat
  BY DEF Sound, Tables, NotesOK
<1>2. IsFiniteSet(DOMAIN acked) /\ Later(w, k) \subseteq DOMAIN acked
  BY <1>1, FS_Interval DEF Later
<1>3. IsFiniteSet(Callers) /\ Recording(w) \subseteq Callers
  BY ConstantsAssumption DEF Recording
<1>4. IsFiniteSet(Later(w, k))
  BY <1>2, FS_Subset
<1>5. IsFiniteSet(Recording(w)) /\ Cardinality(Recording(w)) <= Cardinality(Callers)
  BY <1>3, FS_Subset
<1> QED
  BY <1>3, <1>4, <1>5, FS_CardinalityType

LEMMA ShowsStays ==
    ASSUME NEW w, Shows(w), acked' = acked, wonders'[w].last = wonders[w].last,
           Recording(w)' = Recording(w),
           \A d \in Callers : d \in Recording(w) => req'[d].action = req[d].action
    PROVE Shows(w)'
<1>1. \A k : Later(w, k)' = Later(w, k)
  BY DEF Later
<1>2. CASE Unjudged(w)
  <2>1. Unjudged(w)'
    BY <1>2 DEF Unjudged
  <2> QED
    BY <2>1 DEF Shows
<1>3. CASE Pending(w)
  <2>1. Pending(w)'
    BY <1>3 DEF Pending, Recording
  <2> QED
    BY <2>1 DEF Shows
<1>4. CASE Said(w)
  <2>1. Said(w)'
    BY <1>1, <1>4 DEF Said
  <2> QED
    BY <2>1 DEF Shows
<1> QED
  BY <1>2, <1>3, <1>4 DEF Shows

(* Recording(w) changes only by Judge and Record of w, and by Fault.       *)
LEMMA RecordingStays ==
    ASSUME Sound, NEW c \in Callers, Step(c), NEW w,
           ~(Judge(c) /\ req[c].on = w), ~(Record(c) /\ req[c].on = w), ~Fault(c)
    PROVE /\ Recording(w)' = Recording(w)
          /\ \A d \in Callers : d \in Recording(w) => req'[d].action = req[d].action
<1>1. \A d \in Callers : d # c => Same(d)
  BY OthersSame
<1>2. c \notin Recording(w)' \/ req'[c] = req[c]
  <2>1. CASE req'[c].pc = "record"
    <3>1. Judge(c) /\ ~Raise(c)
      BY <2>1, Entering, Landing
    <3>2. Goto(c, "record")
      BY <3>1 DEF Judge, RefuseWonder
    <3>3. req'[c].on = req[c].on
      BY <3>2 DEF Goto, Req, Sound, Requested
    <3> QED
      BY <3>1, <3>3 DEF Recording
  <2>2. CASE req'[c].pc # "record"
    BY <2>2 DEF Recording
  <2> QED
    BY <2>1, <2>2
<1>3. c \notin Recording(w) \/ req'[c] = req[c]
  <2> SUFFICES ASSUME c \in Recording(w) PROVE req'[c] = req[c]
    OBVIOUS
  <2>1. req[c].pc = "record" /\ req[c].on = w
    BY DEF Recording
  <2>2. ~Requests(c) \/ \E f \in feedback : DeleteFeedback(c, f)
    BY <2>1 DEF Requests, Submit, Explore, Assess, ReWonder, DeleteWonder, Ingest, CreateEdge, DeleteItem,
       Incubate, Wander, Begin, Free, Busy
  <2>3. ~Steps(c)
    BY <2>1 DEF Steps, Judge, Record, Merge, Pronounce, Dream, Rerun, Adopt, Supersede, Activate, Explored,
       Stop, Complete, Hush, ListChildren, Orphan, RemoveWonder, CreateItem, Link, Unlink,
       ListSeeds, Unseed, RemoveItem, At
  <2> QED
    BY <2>2, <2>3 DEF Step, DeleteFeedback
<1> QED
  BY <1>1, <1>2, <1>3 DEF Recording, Same

(* Other writers show what was shown, or race.                             *)
LEMMA LastStays ==
    ASSUME Sound, NEW c \in Callers, Step(c), NEW w \in Live' \ raced',
           ~(Judge(c) /\ req[c].on = w)
    PROVE \/ w \in Live \ raced /\ wonders'[w].last = wonders[w].last
          \/ w \notin Live /\ w = born' /\ CreateWonder /\ wonders'[w] = Fresh
<1> DEFINE r == req[c]
           Goal == w \in Live \ raced /\ wonders'[w].last = wonders[w].last
<1>1. r \in Req /\ InHand(r, born, unwanted) /\ WondersOK
  BY Hand DEF Sound, Tables
<1>2. CASE UNCHANGED <<wonders, raced>>
  BY <1>2 DEF Live
<1>3. ASSUME NEW u, NEW copy, NEW row, StoreWonder(u, copy, row),
             u = w => row.last = copy.last
      PROVE Goal
  BY <1>3, StoredRow
<1>4. CASE Judge(c)
  <2>1. r.on # w
    BY <1>4
  <2> QED
    BY <1>2, <1>3, <1>4, <2>1 DEF Judge, RefuseWonder
<1>5. CASE Merge(c)
  <2> DEFINE row == [r.copy EXCEPT !.deep = TRUE]
  <2>1. r.copy \in Rows(r.on, born)
    BY <1>1, <1>5 DEF Merge, At, InHand, OnWonder
  <2>2. row.last = r.copy.last
    BY <2>1, MergedRow
  <2>3. StoreWonder(r.on, r.copy, row) \/ UNCHANGED <<wonders, raced>>
    BY <1>5 DEF Merge, RefuseWonder
  <2> HIDE DEF row
  <2> QED
    BY <1>2, <1>3, <2>2, <2>3
<1>6. CASE Adopt(c)
  <2> DEFINE row == [Fresh EXCEPT !.parent = r.on]
  <2>1. row.last = Fresh.last
    BY DEF Fresh
  <2>2. StoreWonder(r.child, Fresh, row) \/ UNCHANGED <<wonders, raced>>
    BY <1>6 DEF Adopt, RefuseWonder
  <2> HIDE DEF row
  <2> QED
    BY <1>2, <1>3, <2>1, <2>2
<1>7. CASE Supersede(c)
  <2> DEFINE row == Superseded(r.copy, r.child)
  <2>1. r.copy \in Rows(r.on, born) /\ r.child \in 1 .. born
    BY <1>1, <1>7 DEF Supersede, At, InHand, OnWonder
  <2>2. row.last = r.copy.last
    BY <2>1, Counters, SupersededRow
  <2>3. StoreWonder(r.on, r.copy, row) \/ UNCHANGED <<wonders, raced>>
    BY <1>7 DEF Supersede, RefuseWonder
  <2> HIDE DEF row
  <2> QED
    BY <1>2, <1>3, <2>2, <2>3
<1>8. CASE Orphan(c)
  <2>1. PICK p \in r.todo : \/ StoreWonder(p[1], p[2], [p[2] EXCEPT !.parent = None])
                            \/ RefuseWonder(c, p[1], [p[2] EXCEPT !.parent = None])
    BY <1>8 DEF Orphan
  <2> DEFINE row == [p[2] EXCEPT !.parent = None]
  <2>2. p[2] \in Rows(p[1], born)
    BY <1>1, <1>8 DEF Orphan, At, InHand
  <2>3. row.last = p[2].last
    BY <2>2, OrphanedRow
  <2>4. StoreWonder(p[1], p[2], row) \/ UNCHANGED <<wonders, raced>>
    BY <2>1 DEF RefuseWonder
  <2> HIDE DEF row
  <2> QED
    BY <1>2, <1>3, <2>3, <2>4
<1>9. CASE Dream(c) \/ Rerun(c) \/ Explored(c)
  <2>1. raced' = raced /\ (CreateWonder \/ wonders' = wonders)
    BY <1>9 DEF Dream, Rerun, Explored, history
  <2>2. CASE CreateWonder
    <3>1. /\ Live' = Live \cup {born'} /\ wonders'[born'] = Fresh /\ born' \notin Live
          /\ \A v \in Live : wonders'[v] = wonders[v]
      BY <1>1, <2>1, <2>2, Created
    <3> QED
      BY <2>1, <2>2, <3>1
  <2> QED
    BY <1>2, <2>1, <2>2
<1>10. CASE RemoveWonder(c)
  <2>1. EraseWonder(r.on) /\ UNCHANGED <<born, raced>>
    BY <1>10 DEF RemoveWonder, history
  <2>2. /\ Live' = Live \ {r.on}
        /\ \A v \in Live' : \E p \in {wonders[v].parent, None} : wonders'[v] = [wonders[v] EXCEPT !.parent = p]
    BY <1>1, <2>1, Erased
  <2>3. wonders[w] \in Row
    BY <1>1, <2>2 DEF WondersOK
  <2>4. wonders'[w].last = wonders[w].last
    BY <2>2, <2>3 DEF Row
  <2> QED
    BY <2>1, <2>2, <2>4
<1>11. CASE Record(c) \/ Hush(c) \/ \E f \in feedback : DeleteFeedback(c, f)
  BY <1>2, <1>11 DEF Record, Hush, DeleteFeedback, history
<1>12. CASE Pronounce(c)
  <2>1. r.copy \in Rows(r.on, born)
    BY <1>1, <1>12 DEF Pronounce, At, InHand, OnWonder
  <2>2. ASSUME NEW row \in {r.copy, Refused(r.copy)}, StoreWonder(r.on, r.copy, row) PROVE Goal
    <3>1. row.last = r.copy.last
      BY <2>1, PronouncedRow
    <3> QED
      BY <1>3, <2>2, <3>1
  <2>3. \/ UNCHANGED <<wonders, raced>>
        \/ \E row \in {r.copy, Refused(r.copy)} : StoreWonder(r.on, r.copy, row)
    BY <1>12 DEF Pronounce, RefuseWonder
  <2> QED
    BY <1>2, <2>2, <2>3
<1> QED
  BY <1>2, <1>4, <1>5, <1>6, <1>7, <1>8, <1>9, <1>10, <1>11, <1>12, StepKinds DEF Still

(* Only Record tells users of feedback.                                    *)
LEMMA AckedStays ==
    ASSUME NEW c \in Callers, Step(c), ~Record(c) PROVE acked' = acked
<1>1. CASE Judge(c) \/ Merge(c) \/ Pronounce(c) \/ Adopt(c) \/ Supersede(c) \/ Orphan(c)
  BY <1>1 DEF Judge, Merge, Pronounce, Adopt, Supersede, Orphan
<1>2. CASE Dream(c) \/ Rerun(c) \/ Explored(c) \/ RemoveWonder(c) \/ Hush(c)
           \/ \E f \in feedback : DeleteFeedback(c, f)
  BY <1>2 DEF Dream, Rerun, Explored, RemoveWonder, Hush, DeleteFeedback, history
<1> QED
  BY <1>1, <1>2, StepKinds DEF Still

LEMMA FaultsStay ==
    ASSUME Sound, NEW c \in Callers, Step(c), faults' = 0 PROVE faults = 0 /\ ~Fault(c)
<1>1. faults \in Nat
  BY Counters
<1>2. ~Fault(c)
  BY <1>1 DEF Fault
<1>3. CASE Requests(c)
  BY <1>2, <1>3 DEF Requests, Submit, Explore, Assess, ReWonder, DeleteWonder, DeleteFeedback, Ingest,
     CreateEdge, DeleteItem, Incubate, Wander, Begin
<1>4. CASE Judge(c) \/ Record(c) \/ Merge(c) \/ Pronounce(c) \/ Dream(c) \/ Rerun(c) \/ Adopt(c) \/ Supersede(c)
  BY <1>2, <1>4 DEF Judge, Record, Merge, Pronounce, Dream, Rerun, Adopt, Supersede
<1>5. CASE Activate(c) \/ Explored(c) \/ Stop(c) \/ Complete(c) \/ Hush(c) \/ ListChildren(c)
           \/ Orphan(c) \/ RemoveWonder(c)
  BY <1>2, <1>5 DEF Activate, Explored, Stop, Complete, Hush, ListChildren, Orphan, RemoveWonder
<1>6. CASE CreateItem(c) \/ Link(c) \/ Unlink(c) \/ ListSeeds(c) \/ Unseed(c) \/ RemoveItem(c)
  BY <1>2, <1>6 DEF CreateItem, Link, Unlink, ListSeeds, Unseed, RemoveItem
<1> QED
  BY <1>2, <1>3, <1>4, <1>5, <1>6 DEF Step, Steps

LEMMA RecordShows ==
    ASSUME Sound, Shown, NEW c \in Callers, Record(c), Step(c), faults' = 0,
           NEW w \in Live' \ raced', req[c].on = w
    PROVE Shows(w)'
<1> DEFINE r == req[c]
           f == [on |-> r.on, action |-> r.action, number |-> Len(acked) + 1]
<1>1. /\ Live' = Live /\ w \in Live \ raced /\ wonders' = wonders /\ r.pc = "record"
  BY DEF Record, At, Live
<1>2. Shows(w) /\ c \in Recording(w)
  BY <1>1, FaultsStay DEF Shown, Recording
<1>3. acked' = Append(acked, f) /\ req' = [req EXCEPT ![c] = Idle]
  BY <1>1 DEF Record, Respond
<1>4. acked \in Seq(Note) /\ req \in [Callers -> Req] /\ f.on = w /\ f.action = r.action
  BY DEF Sound, Tables, NotesOK, Requested
<1>0. PICK n : n = Len(acked) + 1
  OBVIOUS
<1> HIDE DEF f
<1>5. /\ n \in Nat /\ n \in 1 .. n /\ DOMAIN acked = 1 .. (n - 1) /\ DOMAIN acked' = 1 .. n /\ acked'[n] = f
      /\ \A k \in DOMAIN acked : acked'[k] = acked[k]
  BY <1>3, <1>4, <1>0
<1>6. Recording(w)' = Recording(w) \ {c} /\ \A d \in Recording(w) \ {c} : req'[d] = req[d]
  BY <1>3, <1>4 DEF Recording, Idle
<1>7. /\ IsFiniteSet(Recording(w)) /\ Cardinality(Recording(w)) \in Nat
      /\ Cardinality(Recording(w)) <= Cardinality(Callers) /\ Cardinality(Callers) \in Nat
  BY FiniteSaid
<1>8. Cardinality(Recording(w)') = Cardinality(Recording(w)) - 1
  BY <1>2, <1>6, <1>7, FS_RemoveElement
<1>9. CASE Pending(w)
  <2>1. PICK d \in Recording(w) : req[d].action = wonders[w].last
    BY <1>9 DEF Pending
  <2>2. CASE d = c
    <3>1. Later(w, n)' = {}
      BY <1>5 DEF Later
    <3>2. Cardinality(Later(w, n)') = 0
      BY <3>1, FS_EmptySet
    <3>3. n \in DOMAIN acked' /\ acked'[n].on = w /\ acked'[n].action = wonders'[w].last
      BY <1>1, <1>4, <1>5, <2>1, <2>2
    <3>4. Cardinality(Later(w, n)') + Cardinality(Recording(w)') < Cardinality(Callers)
      BY <1>7, <1>8, <3>2
    <3>5. Said(w)'
      BY <3>3, <3>4 DEF Said
    <3> QED
      BY <3>5 DEF Shows
  <2>3. CASE d # c
    <3>1. Pending(w)'
      BY <1>1, <1>6, <2>1, <2>3 DEF Pending
    <3> QED
      BY <3>1 DEF Shows
  <2> QED
    BY <2>2, <2>3
<1>10. CASE Said(w)
  <2>1. PICK k \in DOMAIN acked :
          /\ acked[k].on = w /\ acked[k].action = wonders[w].last
          /\ Cardinality(Later(w, k)) + Cardinality(Recording(w)) < Cardinality(Callers)
    BY <1>10 DEF Said
  <2>2. Later(w, k)' = Later(w, k) \cup {n} /\ n \notin Later(w, k)
    BY <1>4, <1>5 DEF Later
  <2>3. IsFiniteSet(Later(w, k)) /\ Cardinality(Later(w, k)) \in Nat
    BY FiniteSaid
  <2>4. Cardinality(Later(w, k) \cup {n}) = Cardinality(Later(w, k)) + 1
    BY <2>2, <2>3, FS_AddElement
  <2>5. Cardinality(Later(w, k)') + Cardinality(Recording(w)') < Cardinality(Callers)
    BY <1>7, <1>8, <2>1, <2>2, <2>3, <2>4
  <2>6. Said(w)'
    BY <1>1, <1>5, <2>1, <2>5 DEF Said
  <2> QED
    BY <2>6 DEF Shows
<1>11. ~Unjudged(w)
  BY <1>2 DEF Unjudged
<1> QED
  BY <1>2, <1>9, <1>10, <1>11 DEF Shows

(* Feedback on another wonder.                                             *)
LEMMA RecordOther ==
    ASSUME Sound, Shown, NEW c \in Callers, Record(c), Step(c), faults' = 0,
           NEW w \in Live' \ raced', req[c].on # w
    PROVE Shows(w)'
<1> DEFINE r == req[c]
           f == [on |-> r.on, action |-> r.action, number |-> Len(acked) + 1]
<1>1. Live' = Live /\ w \in Live \ raced /\ wonders' = wonders
  BY DEF Record, Live
<1>2. Shows(w) /\ ~Fault(c)
  BY <1>1, FaultsStay DEF Shown
<1>3. ~Judge(c)
  BY DEF Judge, Record, At
<1>4. /\ Recording(w)' = Recording(w)
      /\ \A d \in Callers : d \in Recording(w) => req'[d].action = req[d].action
  BY <1>2, <1>3, RecordingStays
<1>5. CASE acked' = acked
  BY <1>1, <1>2, <1>4, <1>5, ShowsStays
<1>6. CASE acked' = Append(acked, f)
  <2> DEFINE n == Len(acked) + 1
  <2>1. acked \in Seq(Note) /\ f.on # w
    BY DEF Sound, Tables, NotesOK
  <2> HIDE DEF f
  <2>2. /\ n \in Nat /\ DOMAIN acked = 1 .. (n - 1) /\ DOMAIN acked' = 1 .. n /\ acked'[n] = f
        /\ \A k \in DOMAIN acked : acked'[k] = acked[k]
    BY <1>6, <2>1
  <2> HIDE DEF n
  <2>3. \A k \in DOMAIN acked' : acked'[k].on = w => k \in DOMAIN acked
    BY <2>1, <2>2
  <2>4. \A k : Later(w, k)' = Later(w, k)
    BY <2>2, <2>3 DEF Later
  <2>5. CASE Unjudged(w)
    <3>1. Unjudged(w)'
      BY <1>1, <1>4, <2>2, <2>3, <2>5 DEF Unjudged
    <3> QED
      BY <3>1 DEF Shows
  <2>6. CASE Pending(w)
    <3>1. Pending(w)'
      BY <1>1, <1>4, <2>6 DEF Pending, Recording
    <3> QED
      BY <3>1 DEF Shows
  <2>7. CASE Said(w)
    <3>1. PICK k \in DOMAIN acked :
            /\ acked[k].on = w /\ acked[k].action = wonders[w].last
            /\ Cardinality(Later(w, k)) + Cardinality(Recording(w)) < Cardinality(Callers)
      BY <2>7 DEF Said
    <3>2. k \in DOMAIN acked' /\ acked'[k] = acked[k]
      BY <2>2
    <3>3. Said(w)'
      BY <1>1, <1>4, <2>4, <3>1, <3>2 DEF Said
    <3> QED
      BY <3>3 DEF Shows
  <2> QED
    BY <1>2, <2>5, <2>6, <2>7 DEF Shows
<1> QED
  BY <1>5, <1>6 DEF Record

LEMMA JudgeShows ==
    ASSUME Sound, NEW c \in Callers, Judge(c), NEW w \in Live' \ raced', req[c].on = w,
           Shown, Step(c), faults' = 0
    PROVE Shows(w)'
<1> DEFINE r == req[c]
           row == Judged(r.copy, r.action)
<1>1. r \in Req /\ r.pc = "judge" /\ r.copy \in Rows(r.on, born) /\ r.action \in Actions
      /\ req \in [Callers -> Req]
  BY Hand DEF Judge, At, InHand, OnWonder, Sound, Requested
<1>2. row.last = r.action
  BY <1>1, JudgedRow
<1>3. \/ StoreWonder(r.on, r.copy, row) /\ Goto(c, "record")
      \/ RefuseWonder(c, r.on, row)
  BY DEF Judge
<1> HIDE DEF row
<1>4. CASE RefuseWonder(c, r.on, row)
  <2>1. w \in Live \ raced /\ wonders' = wonders /\ acked' = acked
    BY <1>4 DEF RefuseWonder, Live, Judge
  <2>2. Shows(w)
    BY <2>1, FaultsStay DEF Shown
  <2>3. c \notin Recording(w) /\ c \notin Recording(w)'
    BY <1>1, <1>4, Landing DEF Recording, RefuseWonder
  <2>4. \A d \in Callers : d # c => Same(d)
    BY OthersSame
  <2>5. /\ Recording(w)' = Recording(w)
        /\ \A d \in Callers : d \in Recording(w) => req'[d].action = req[d].action
    BY <2>3, <2>4 DEF Recording, Same
  <2> QED
    BY <2>1, <2>2, <2>5, ShowsStays
<1>5. CASE StoreWonder(r.on, r.copy, row) /\ Goto(c, "record")
  <2>1. wonders'[w] = row
    BY <1>5, StoredRow
  <2>2. req'[c].pc = "record" /\ req'[c].on = w /\ req'[c].action = r.action
    BY <1>1, <1>5 DEF Goto, Req
  <2>3. Pending(w)'
    BY <1>2, <2>1, <2>2 DEF Pending, Recording
  <2> QED
    BY <2>3 DEF Shows
<1> QED
  BY <1>3, <1>4, <1>5

LEMMA NextShown ==
    ASSUME Sound, Shown, [Next]_vars PROVE Shown'
<1>1. CASE UNCHANGED vars
  BY <1>1 DEF vars, rows, history, Shown, Shows, Unjudged, Pending, Said, Later, Recording, Live
<1>2. ASSUME NEW c \in Callers, Step(c) PROVE Shown'
  <2> SUFFICES ASSUME faults' = 0, NEW w \in Live' \ raced' PROVE Shows(w)'
    BY DEF Shown
  <2>1. faults = 0 /\ ~Fault(c)
    BY <1>2, FaultsStay
  <2>2. CASE Record(c)
    BY <1>2, <2>2, RecordShows, RecordOther
  <2>3. CASE Judge(c) /\ req[c].on = w
    BY <1>2, <2>3, JudgeShows
  <2>4. CASE ~Record(c) /\ ~(Judge(c) /\ req[c].on = w)
    <3>1. acked' = acked
      BY <1>2, <2>4, AckedStays
    <3>2. /\ Recording(w)' = Recording(w)
          /\ \A d \in Callers : d \in Recording(w) => req'[d].action = req[d].action
      BY <1>2, <2>1, <2>4, RecordingStays
    <3>3. CASE w \in Live \ raced /\ wonders'[w].last = wonders[w].last
      <4>1. Shows(w)
        BY <2>1, <3>3 DEF Shown
      <4> QED
        BY <3>1, <3>2, <3>3, <4>1, ShowsStays
    <3>4. CASE w \notin Live /\ w = born' /\ CreateWonder /\ wonders'[w] = Fresh
      <4>1. born \in Nat /\ w = born + 1
        BY <3>4, Counters DEF CreateWonder
      <4>2. \A k \in DOMAIN acked : acked[k].on # w
        <5>1. \A k \in DOMAIN acked : acked[k].on \in Nat /\ acked[k].on <= born
          <6>1. \A k \in DOMAIN acked : acked[k] \in Note /\ acked[k].on <= born
            BY DEF Sound, Tables, NotesOK
          <6> QED
            BY <6>1 DEF Note
        <5> QED
          BY <4>1, <5>1
      <4>3. Recording(w) = {}
        <5>1. \A d \in Callers : req[d].pc = "record" => req[d].on \in 1 .. born
          BY Hand DEF InHand, OnWonder
        <5> QED
          BY <4>1, <5>1 DEF Recording
      <4>4. Unjudged(w)'
        BY <3>1, <3>2, <3>4, <4>2, <4>3 DEF Unjudged, Fresh
      <4> QED
        BY <4>4 DEF Shows
    <3> QED
      BY <1>2, <2>4, <3>3, <3>4, LastStays
  <2> QED
    BY <2>2, <2>3, <2>4
<1> QED
  BY <1>1, <1>2, NextIsStep

LEMMA InitShown == Init => Shown
<1> SUFFICES ASSUME Init, NEW w \in Live PROVE Unjudged(w)
  BY DEF Shown, Shows
<1>1. Live = {1} /\ wonders[1] = Fresh /\ req = [c \in Callers |-> Idle] /\ acked = <<>>
  BY DEF Init, Live
<1> QED
  BY <1>1 DEF Unjudged, Recording, Fresh, Idle

(* What a wonder shows is among the latest feedback on it, unless a stale  *)
(* copy was written, and its status follows, unless it was superseded or   *)
(* the autopilot refused it afterwards (wonder_service.py:66-94).          *)
THEOREM StatusFollows == Spec => []StatusFollowsFeedback
<1>1. Sound /\ Shown => StatusFollowsFeedback
  <2> SUFFICES ASSUME Sound, Shown, NEW w \in Live \ raced, faults = 0,
                      \A c \in Callers : ~WorksOn(c, w)
               PROVE  LET given == {k \in DOMAIN acked: acked[k].on = w}
                          latest == {k \in given: Cardinality({j \in given: j > k}) < Cardinality(Callers)}
                          row == wonders[w] IN
                      /\ IF given = {} THEN row.last = None ELSE row.last \in {acked[k].action : k \in latest}
                      /\ row.last # None /\ Verdict(row.last) # None =>
                            row.status \in {Verdict(row.last), "superseded"} \/ (row.held /\ row.status = "incubating")
    BY DEF StatusFollowsFeedback
  <2> DEFINE given == {k \in DOMAIN acked: acked[k].on = w}
             latest == {k \in given: Cardinality({j \in given: j > k}) < Cardinality(Callers)}
  <2>1. wonders[w] \in Rows(w, born)
    BY DEF Sound, Tables, WondersOK
  <2>2. wonders[w].last # None /\ Verdict(wonders[w].last) # None =>
          \/ wonders[w].status \in {Verdict(wonders[w].last), "superseded"}
          \/ wonders[w].held /\ wonders[w].status = "incubating"
    BY <2>1 DEF Rows
  <2>3. Recording(w) = {}
    BY DEF Recording, WorksOn
  <2>4. Unjudged(w) \/ Said(w)
    BY <2>3 DEF Shown, Shows, Pending
  <2>5. CASE Unjudged(w)
    <3>1. given = {} /\ wonders[w].last = None
      BY <2>5 DEF Unjudged
    <3> QED
      BY <2>2, <3>1
  <2>6. CASE Said(w)
    <3>1. PICK k \in DOMAIN acked :
            /\ acked[k].on = w /\ acked[k].action = wonders[w].last
            /\ Cardinality(Later(w, k)) + Cardinality(Recording(w)) < Cardinality(Callers)
      BY <2>6 DEF Said
    <3>2. {j \in given : j > k} = Later(w, k)
      BY DEF Later
    <3>3. Cardinality(Later(w, k)) < Cardinality(Callers)
      BY <3>1, FiniteSaid
    <3>4. k \in given /\ k \in latest
      BY <3>1, <3>2, <3>3
    <3>5. given # {} /\ wonders[w].last \in {acked[l].action : l \in latest}
      BY <3>1, <3>4
    <3> HIDE DEF latest, given
    <3> QED
      BY <2>2, <3>5 DEF latest, given
  <2> QED
    BY <2>4, <2>5, <2>6
<1>2. Init => Shown
  BY InitShown
<1>3. Sound /\ Shown /\ [Next]_vars => Shown'
  BY NextShown
<1> QED
  BY <1>1, <1>2, <1>3, SoundAlways, PTL DEF Spec
=============================================================================
