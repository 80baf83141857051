------------------------------ MODULE Library ------------------------------
(***************************************************************************)
(* The rows that request handlers share: knowledge items and the edges     *)
(* between them, one seed, wonders and the feedback on them.               *)
(*                                                                         *)
(* A repository method is one transaction, hence one step.  Everything a   *)
(* handler does between two of them works on copies of rows, and an update *)
(* writes a whole row back: what others wrote in between is lost.  A       *)
(* handler is a sequence of such steps, and the handlers of two callers    *)
(* interleave at every one of them.  The database enforces references: a   *)
(* row that would point to a deleted one is refused, and a deletion clears *)
(* or cascades along the references to its row.                            *)
(*                                                                         *)
(* Texts, scores and evidence are left out; a copy of a wonder keeps the   *)
(* fields its writers disagree about.  Existence checks that only lead to  *)
(* an earlier 404 are merged with the read that follows them.              *)
(***************************************************************************)
EXTENDS Integers, FiniteSets, Sequences

CONSTANTS
  Callers,      \* requests that can be in progress at once
  Contents,     \* normalized texts of knowledge items
  Actions,      \* feedback actions users give
  MaxRequests,  \* bound: requests made in all
  MaxWonders,   \* bound: wonders ever created
  MaxFaults,    \* bound: repository calls that raise for an external reason
  None

ASSUME ConstantsAssumption ==
  /\ IsFiniteSet(Callers) /\ Callers # {}
  /\ {MaxRequests, MaxWonders, MaxFaults} \subseteq Nat
  /\ None \notin Nat \union Actions

VARIABLES
  items,      \* knowledge rows: [content, copy]
  edges,      \* pairs of items with an edge row between them
  seed,       \* the seed's row: [status, item]
  wonders,    \* wonder rows by number, in the order of their creation
  feedback,   \* feedback rows: [on, action, number]
  req,        \* what the request of each caller is doing
  asked,      \* number of requests made
  born,       \* number of wonders created
  acked,      \* feedback acknowledged to users, in order
  unwanted,   \* wonders whose deletion was asked for
  unsaid,     \* feedback users have deleted
  raced,      \* wonders a request has written over with a copy that was stale
  faults      \* repository calls that have raised for an external reason

rows == <<items, edges, seed, wonders, feedback>>
history == <<acked, unwanted, unsaid, raced>>
vars == <<rows, req, asked, born, history, faults>>

\* How a feedback action changes the status of its wonder.
Verdict(action) ==
  CASE action \in {"save", "save_for_later"} -> "saved"
    [] action \in {"not_interesting", "already_knew", "obvious", "random", "too_random", "wrong", "irrelevant"} -> "dismissed"
    [] action \in {"continue", "continue_explore", "inspired_new_idea"} -> "incubating"
    [] OTHER -> None

\* held, a history: whether the autopilot was the last to set the status.
Fresh == [status |-> "active", held |-> FALSE, parent |-> None, child |-> None, last |-> None, deep |-> FALSE]
Idle == [pc |-> "idle", on |-> None, copy |-> None, action |-> None, child |-> None, todo |-> {}, lost |-> FALSE]
First(x) == [content |-> x, copy |-> 0]

Init ==
  \E x \in Contents:
    /\ items = {First(x)} /\ edges = {} /\ seed = [status |-> "pending", item |-> First(x)]
    /\ wonders = [w \in {1} |-> Fresh] /\ feedback = {}
    /\ req = [c \in Callers |-> Idle]
    /\ asked = 0 /\ born = 1 /\ faults = 0
    /\ acked = <<>> /\ unwanted = {} /\ unsaid = {} /\ raced = {}

-----------------------------------------------------------------------------
(* Requests. *)

Live == DOMAIN wonders
At(c, pc) == req[c].pc = pc
Busy(c) == req[c].pc \notin {"idle", "failed"}
Free(c) == ~Busy(c) /\ asked < MaxRequests

\* Caller c starts a request that continues at pc with what it has read.
Begin(c, pc, on, copy) ==
  /\ Free(c)
  /\ asked' = asked + 1
  /\ req' = [req EXCEPT ![c] = [Idle EXCEPT !.pc = pc, !.on = on, !.copy = copy]]

Goto(c, pc) == req' = [req EXCEPT ![c].pc = pc]
Respond(c) == req' = [req EXCEPT ![c] = Idle]

\* An exception no handler expects ends the request with an internal error.
Raise(c) == req' = [req EXCEPT ![c] = [Idle EXCEPT !.pc = "failed", !.lost = req[c].lost]]

\* Caller c ends its request by deleting a row: the others that are in progress may have read it.
EndDeleting(c) ==
  req' = [d \in Callers |-> IF d = c THEN Idle ELSE [req[d] EXCEPT !.lost = @ \/ Busy(d)]]

-----------------------------------------------------------------------------
(* Repositories. *)

\* Row of wonder w, made from copy, can be stored: w is still there and so is its parent.
Storable(w, row) == w \in Live /\ row.parent \in Live \union {None}

\* update() of a wonder: the whole row is written, whatever it has become since it was read.
StoreWonder(w, copy, row) ==
  /\ Storable(w, row)
  /\ wonders' = [wonders EXCEPT ![w] = row]
  /\ raced' = IF wonders[w] = copy THEN raced ELSE raced \union {w}

RefuseWonder(c, w, row) ==
  ~Storable(w, row) /\ Raise(c) /\ UNCHANGED <<wonders, raced>>

CreateWonder ==
  /\ born < MaxWonders /\ born' = born + 1
  /\ wonders' = [w \in Live \union {born + 1} |-> IF w \in Live THEN wonders[w] ELSE Fresh]

\* delete() of a wonder: its feedback goes with it, its children lose their parent.
EraseWonder(w) ==
  /\ wonders' = [v \in Live \ {w} |-> IF wonders[v].parent = w THEN [wonders[v] EXCEPT !.parent = None] ELSE wonders[v]]
  /\ feedback' = {f \in feedback: f.on # w}

\* update() of the seed.
SeedStorable(row) == row.item \in items \union {None}

\* Bug variant: the seed keeps its reference.
EraseItemOnly(i) ==
  items' = items \ {i} /\ edges' = {e \in edges: i \notin {e[1], e[2]}} /\ UNCHANGED seed

\* delete() of an item: its edges go with it, the seed forgets it.
EraseItem(i) ==
  /\ items' = items \ {i}
  /\ edges' = {e \in edges: i \notin {e[1], e[2]}}
  /\ seed' = IF seed.item = i THEN [seed EXCEPT !.item = None] ELSE seed

-----------------------------------------------------------------------------
(* Feedback on a wonder: its row is updated first, the feedback stored after. *)

Judged(row, action) ==
  [row EXCEPT !.last = action, !.status = IF Verdict(action) = None THEN @ ELSE Verdict(action),
              !.held = @ /\ Verdict(action) = None]

Submit(c, w, action) ==
  /\ w \in Live
  /\ Free(c) /\ asked' = asked + 1
  /\ req' = [req EXCEPT ![c] = [Idle EXCEPT !.pc = "judge", !.on = w, !.copy = wonders[w], !.action = action]]
  /\ UNCHANGED <<rows, born, history, faults>>

Judge(c) ==
  /\ At(c, "judge")
  /\ LET r == req[c] row == Judged(r.copy, r.action) IN
     \/ StoreWonder(r.on, r.copy, row) /\ Goto(c, "record")
     \/ RefuseWonder(c, r.on, row)
  /\ UNCHANGED <<items, edges, seed, feedback, asked, born, acked, unwanted, unsaid, faults>>

Record(c) ==
  /\ At(c, "record")
  /\ LET r == req[c] f == [on |-> r.on, action |-> r.action, number |-> Len(acked) + 1] IN
     \/ r.on \in Live /\ feedback' = feedback \union {f} /\ acked' = Append(acked, f) /\ Respond(c)
     \/ r.on \notin Live /\ Raise(c) /\ UNCHANGED <<feedback, acked>>
  /\ UNCHANGED <<items, edges, seed, wonders, asked, born, unwanted, unsaid, raced, faults>>

DeleteFeedback(c, f) ==
  /\ Free(c) /\ asked' = asked + 1
  /\ feedback' = feedback \ {f} /\ unsaid' = unsaid \union {f}
  /\ UNCHANGED <<items, edges, seed, wonders, req, born, acked, unwanted, raced, faults>>

-----------------------------------------------------------------------------
(* Deep exploration: the row read before the evaluation is written after it. *)

Explore(c, w) ==
  /\ w \in Live /\ Begin(c, "merge", w, wonders[w])
  /\ UNCHANGED <<rows, born, history, faults>>

Merge(c) ==
  /\ At(c, "merge")
  /\ LET r == req[c] row == [r.copy EXCEPT !.deep = TRUE] IN
     \/ StoreWonder(r.on, r.copy, row) /\ Respond(c)
     \/ RefuseWonder(c, r.on, row)
  /\ UNCHANGED <<items, edges, seed, feedback, asked, born, acked, unwanted, unsaid, faults>>

-----------------------------------------------------------------------------
(* The autopilot looks at a wonder when it finalizes a cycle and whenever  *)
(* it starts, and writes it back with its verdict: a refused one incubates.*)

Assess(c, w) ==
  /\ w \in Live /\ Begin(c, "verdict", w, wonders[w])
  /\ UNCHANGED <<rows, born, history, faults>>

Refused(row) == [row EXCEPT !.status = "incubating", !.held = TRUE]

\* A promoted wonder is not written when a cycle is finalized.
Pronounce(c) ==
  /\ At(c, "verdict")
  /\ LET r == req[c] IN
     \/ Respond(c) /\ UNCHANGED <<wonders, raced>>
     \/ \E row \in {r.copy, Refused(r.copy)}:
          \/ StoreWonder(r.on, r.copy, row) /\ Respond(c)
          \/ RefuseWonder(c, r.on, row)
  /\ UNCHANGED <<items, edges, seed, feedback, asked, born, acked, unwanted, unsaid, faults>>

-----------------------------------------------------------------------------
(* Incubation and re-wonder: an engine run over a seed of their own. *)

Incubate(c) ==
  /\ Begin(c, "dream", None, None)
  /\ UNCHANGED <<rows, born, history, faults>>

Dream(c) ==
  /\ At(c, "dream") /\ Respond(c)
  /\ CreateWonder \/ UNCHANGED <<wonders, born>>
  /\ UNCHANGED <<items, edges, seed, feedback, asked, history, faults>>

ReWonder(c, w) ==
  /\ w \in Live /\ Begin(c, "rerun", w, wonders[w])
  /\ UNCHANGED <<rows, born, history, faults>>

Rerun(c) ==
  /\ At(c, "rerun")
  /\ \/ Respond(c) /\ UNCHANGED <<wonders, born>>
     \/ CreateWonder /\ req' = [req EXCEPT ![c].pc = "adopt", ![c].child = born']
  /\ UNCHANGED <<items, edges, seed, feedback, asked, history, faults>>

\* Bug variant: the child is not linked to its parent.
AdoptUnlinked(c) ==
  /\ At(c, "adopt") /\ Goto(c, "supersede")
  /\ UNCHANGED <<rows, asked, born, history, faults>>

Adopt(c) ==
  /\ At(c, "adopt")
  /\ LET r == req[c] row == [Fresh EXCEPT !.parent = r.on] IN
     \/ StoreWonder(r.child, Fresh, row) /\ Goto(c, "supersede")
     \/ RefuseWonder(c, r.child, row)
  /\ UNCHANGED <<items, edges, seed, feedback, asked, born, acked, unwanted, unsaid, faults>>

\* Bug variant: the metadata are replaced, not extended.
SupersededAfresh(row, child) == [row EXCEPT !.status = "superseded", !.last = None, !.child = child]

Superseded(row, child) == [row EXCEPT !.status = "superseded", !.child = child]

Supersede(c) ==
  /\ At(c, "supersede")
  /\ LET r == req[c] row == Superseded(r.copy, r.child) IN
     \/ StoreWonder(r.on, r.copy, row) /\ Respond(c)
     \/ RefuseWonder(c, r.on, row)
  /\ UNCHANGED <<items, edges, seed, feedback, asked, born, acked, unwanted, unsaid, faults>>

-----------------------------------------------------------------------------
(* A wander run over the seed, which may come from a knowledge item. *)

Wander(c) ==
  /\ Begin(c, "activate", None, seed)
  /\ UNCHANGED <<rows, born, history, faults>>

Activate(c) ==
  /\ At(c, "activate")
  /\ LET row == [req[c].copy EXCEPT !.status = "active"] IN
     \/ SeedStorable(row) /\ seed' = row /\ req' = [req EXCEPT ![c].pc = "explore", ![c].copy = row]
     \/ ~SeedStorable(row) /\ Raise(c) /\ UNCHANGED seed
  /\ UNCHANGED <<items, edges, wonders, feedback, asked, born, history, faults>>

\* The run ends with its first wonder, with a stop that completes it, or with one that does not.
Explored(c) ==
  /\ At(c, "explore")
  /\ \/ CreateWonder /\ Goto(c, "complete")
     \/ Goto(c, "stop") /\ UNCHANGED <<wonders, born>>
     \/ Respond(c) /\ UNCHANGED <<wonders, born>>
  /\ UNCHANGED <<items, edges, seed, feedback, asked, history, faults>>

\* _stop reads the seed again, _complete writes the copy read before the run.
Stop(c) ==
  /\ At(c, "stop")
  /\ req' = [req EXCEPT ![c].pc = "complete", ![c].copy = seed]
  /\ UNCHANGED <<rows, asked, born, history, faults>>

Complete(c) ==
  /\ At(c, "complete")
  /\ LET row == [req[c].copy EXCEPT !.status = "used"] IN
     \/ SeedStorable(row) /\ seed' = row /\ Respond(c)
     \/ ~SeedStorable(row) /\ Raise(c) /\ UNCHANGED seed
  /\ UNCHANGED <<items, edges, wonders, feedback, asked, born, history, faults>>

-----------------------------------------------------------------------------
(* Deletion of a wonder: feedback, references of its children, row. *)

\* Bug variant: all feedback is deleted.
DeleteWonderUnfiltered(c, w) ==
  /\ w \in Live /\ Free(c) /\ asked' = asked + 1
  /\ req' = [req EXCEPT ![c] = [Idle EXCEPT !.pc = "hush", !.on = w, !.todo = feedback]]
  /\ unwanted' = unwanted \union {w}
  /\ UNCHANGED <<rows, born, acked, unsaid, raced, faults>>

DeleteWonder(c, w) ==
  /\ w \in Live /\ Free(c) /\ asked' = asked + 1
  /\ req' = [req EXCEPT ![c] = [Idle EXCEPT !.pc = "hush", !.on = w, !.todo = {f \in feedback: f.on = w}]]
  /\ unwanted' = unwanted \union {w}
  /\ UNCHANGED <<rows, born, acked, unsaid, raced, faults>>

Hush(c) ==
  /\ At(c, "hush")
  /\ \E f \in req[c].todo:
       feedback' = feedback \ {f} /\ req' = [req EXCEPT ![c].todo = @ \ {f}]
  /\ UNCHANGED <<items, edges, seed, wonders, asked, born, history, faults>>

ListChildren(c) ==
  /\ At(c, "hush") /\ req[c].todo = {}
  /\ req' = [req EXCEPT ![c].pc = "orphan",
                        ![c].todo = {<<v, wonders[v]>> : v \in {u \in Live: wonders[u].parent = req[c].on}}]
  /\ UNCHANGED <<rows, asked, born, history, faults>>

Orphan(c) ==
  /\ At(c, "orphan")
  /\ \E child \in req[c].todo:
       LET row == [child[2] EXCEPT !.parent = None] IN
       \/ StoreWonder(child[1], child[2], row) /\ req' = [req EXCEPT ![c].todo = @ \ {child}]
       \/ RefuseWonder(c, child[1], row)
  /\ UNCHANGED <<items, edges, seed, feedback, asked, born, acked, unwanted, unsaid, faults>>

RemoveWonder(c) ==
  /\ At(c, "orphan") /\ req[c].todo = {}
  /\ EraseWonder(req[c].on) /\ EndDeleting(c)
  /\ UNCHANGED <<items, edges, seed, asked, born, history, faults>>

-----------------------------------------------------------------------------
(* Knowledge: ingestion, edges, deletion. *)

\* Bug variant: the text is not looked for.
IngestUnchecked(c, x) ==
  /\ Begin(c, "create", [content |-> x, copy |-> asked + 1], None)
  /\ UNCHANGED <<rows, born, history, faults>>

\* The texts already stored are compared before the new item is created.
Ingest(c, x) ==
  /\ \A i \in items: i.content # x
  /\ Begin(c, "create", [content |-> x, copy |-> asked + 1], None)
  /\ UNCHANGED <<rows, born, history, faults>>

CreateItem(c) ==
  /\ At(c, "create") /\ Respond(c)
  /\ items' = items \union {req[c].on}
  /\ UNCHANGED <<edges, seed, wonders, feedback, asked, born, history, faults>>

CreateEdge(c, i, j) ==
  /\ Begin(c, "link", <<i, j>>, None)
  /\ UNCHANGED <<rows, born, history, faults>>

Link(c) ==
  /\ At(c, "link")
  /\ LET e == req[c].on IN
     \/ {e[1], e[2]} \subseteq items /\ edges' = edges \union {e} /\ Respond(c)
     \/ ~({e[1], e[2]} \subseteq items) /\ Raise(c) /\ UNCHANGED edges
  /\ UNCHANGED <<items, seed, wonders, feedback, asked, born, history, faults>>

DeleteItem(c, i) ==
  /\ Free(c) /\ asked' = asked + 1
  /\ req' = [req EXCEPT ![c] = [Idle EXCEPT !.pc = "unlink", !.on = i, !.todo = {e \in edges: i \in {e[1], e[2]}}]]
  /\ UNCHANGED <<rows, born, history, faults>>

Unlink(c) ==
  /\ At(c, "unlink")
  /\ \E e \in req[c].todo: edges' = edges \ {e} /\ req' = [req EXCEPT ![c].todo = @ \ {e}]
  /\ UNCHANGED <<items, seed, wonders, feedback, asked, born, history, faults>>

ListSeeds(c) ==
  /\ At(c, "unlink") /\ req[c].todo = {}
  /\ req' = [req EXCEPT ![c].pc = IF seed.item = req[c].on THEN "unseed" ELSE "remove", ![c].copy = seed]
  /\ UNCHANGED <<rows, asked, born, history, faults>>

Unseed(c) ==
  /\ At(c, "unseed") /\ Goto(c, "remove")
  /\ seed' = [req[c].copy EXCEPT !.item = None]
  /\ UNCHANGED <<items, edges, wonders, feedback, asked, born, history, faults>>

RemoveItem(c) ==
  /\ At(c, "remove")
  /\ EraseItem(req[c].on) /\ EndDeleting(c)
  /\ UNCHANGED <<wonders, feedback, asked, born, history, faults>>

-----------------------------------------------------------------------------
\* A repository call raises for a reason of its own: the request ends where it is.
Fault(c) ==
  /\ Busy(c) /\ faults < MaxFaults
  /\ faults' = faults + 1
  /\ req' = [req EXCEPT ![c] = [Idle EXCEPT !.pc = "failed", !.lost = TRUE]]
  /\ UNCHANGED <<rows, asked, born, history>>

\* All requests of the bound have been made and answered.
Terminated ==
  /\ asked = MaxRequests /\ \A c \in Callers: ~Busy(c)
  /\ UNCHANGED vars

Requests(c) ==
  \/ \E w \in Live: \E action \in Actions: Submit(c, w, action)
  \/ \E w \in Live: Explore(c, w) \/ Assess(c, w) \/ ReWonder(c, w) \/ DeleteWonder(c, w)
  \/ \E f \in feedback: DeleteFeedback(c, f)
  \/ \E x \in Contents: Ingest(c, x)
  \/ \E i, j \in items: i # j /\ CreateEdge(c, i, j)
  \/ \E i \in items: DeleteItem(c, i)
  \/ Incubate(c) \/ Wander(c)

Steps(c) ==
  \/ Judge(c) \/ Record(c) \/ Merge(c) \/ Pronounce(c) \/ Dream(c) \/ Rerun(c) \/ Adopt(c) \/ Supersede(c)
  \/ Activate(c) \/ Explored(c) \/ Stop(c) \/ Complete(c)
  \/ Hush(c) \/ ListChildren(c) \/ Orphan(c) \/ RemoveWonder(c)
  \/ CreateItem(c) \/ Link(c) \/ Unlink(c) \/ ListSeeds(c) \/ Unseed(c) \/ RemoveItem(c)

Next == Terminated \/ \E c \in Callers: Requests(c) \/ Steps(c) \/ Fault(c)

Spec == Init /\ [][Next]_vars

-----------------------------------------------------------------------------
(* Properties. *)

\* Ingestion looks for duplicates in one step and stores in another: a text may be stored more
\* than once, but never more often than requests can be in progress (ingestion.py:73-99).
DuplicatesBounded ==
  \A x \in Contents: Cardinality({i \in items: i.content = x}) <= Cardinality(Callers)

\* What a user was told is recorded stays recorded, and so does the wonder it is about, whatever
\* else is explored, re-wondered, deleted or fails, until a user deletes one of them
\* (wonder_service.py:94, deletion_service.py:24-40).
FeedbackKept ==
  \A k \in DOMAIN acked:
    \/ acked[k] \in feedback /\ acked[k].on \in Live
    \/ acked[k] \in unsaid \/ acked[k].on \in unwanted

\* Caller c has a copy of wonder w in hand.
WorksOn(c, w) ==
  /\ req[c].pc \in {"judge", "record", "merge", "verdict", "rerun", "adopt", "supersede", "hush", "orphan"}
  /\ w \in {req[c].on, req[c].child}

\* A wonder nobody is working on shows the feedback it was given, unless a stale copy was written
\* over it: the last action shown is among the latest given, as many as can be in progress at
\* once.  Its status follows from this action, unless it was superseded or the autopilot refused
\* it after the action set it (wonder_service.py:66-94 and autopilot_service.py:445, 587 against
\* every other writer).
StatusFollowsFeedback ==
  \A w \in Live \ raced:
    faults = 0 /\ (\A c \in Callers: ~WorksOn(c, w)) =>
      LET given == {k \in DOMAIN acked: acked[k].on = w}
          latest == {k \in given: Cardinality({j \in given: j > k}) < Cardinality(Callers)}
          row == wonders[w] IN
      /\ IF given = {} THEN row.last = None ELSE row.last \in {acked[k].action : k \in latest}
      /\ row.last # None /\ Verdict(row.last) # None =>
            row.status \in {Verdict(row.last), "superseded"} \/ (row.held /\ row.status = "incubating")

\* A wonder that was superseded points to the one that replaced it, and that one back to it, as
\* long as it is stored and neither was overwritten by a stale copy or is being deleted; a wonder
\* nobody re-wondered is not superseded (incubation_service.py:101-106).  A parent is stored and
\* older than its child, whoever was deleted meanwhile, so lineage has no cycle.
Lineage ==
  /\ \A w \in Live: wonders[w].parent \in {None} \union (Live \intersect 1 .. w - 1)
  /\ \A w \in Live \ (raced \union unwanted):
       /\ wonders[w].child \in Live \ raced => wonders[wonders[w].child].parent = w
       /\ wonders[w].status = "superseded" => wonders[w].child # None

\* Alone, every request is answered: an internal error has a cause, which is a row deleted by
\* another request while this one worked on its copy, or a fault of the database.
FailsForCause == \A c \in Callers: At(c, "failed") => req[c].lost
=============================================================================
