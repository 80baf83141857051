------------------------------ MODULE Autopilot ------------------------------
(***************************************************************************)
(* AutopilotSupervisor: the campaign row and those who write it.  The tick *)
(* of the worker and the control calls hold the supervisor's lock from     *)
(* their first read to their last write; the worker's error handler and    *)
(* the reconciliation run by start() read and write the whole row without  *)
(* it.  Sessions are what SessionContract says, plus deletion: they open,  *)
(* settle by themselves or by coordinator.stop, and are deleted by a user. *)
(***************************************************************************)
EXTENDS Naturals, FiniteSets

CONSTANTS
    Cycles,      \* bound: session ids, one per started cycle
    Callers,     \* concurrent callers of the control endpoints
    OverflowAt,  \* 2**consecutive_failures * 5.0 overflows from here on
    MaxFaults,   \* bound: failing database calls
    MaxCrashes,  \* bound: crashes of the process
    MaxDeletes,  \* bound: sessions deleted by users
    MaxTroubles  \* bound: all of these together

ASSUME ConstantsAssumption ==
    /\ Cycles \subseteq Nat \ {0}
    /\ "loop" \notin Callers /\ "free" \notin Callers
    /\ OverflowAt \in Nat \ {0}
    /\ {MaxFaults, MaxCrashes, MaxDeletes, MaxTroubles} \subseteq Nat

VARIABLES
    camp,      \* the campaign row
    sess,      \* status of the session rows
    wonder,    \* the wonder a session may have produced
    knowledge, \* the knowledge item promoted from it, and its edges
    proc,      \* the worker ("loop") and the control calls
    guard,     \* start(), at boot and when called by ServiceGuardian
    lock,      \* holder of the supervisor's lock, or "free"
    up,        \* the API is served
    faults, crashes, deletes

vars == <<camp, sess, wonder, knowledge, proc, guard, lock, up,
          faults, crashes, deletes>>

Procs    == {"loop"} \cup Callers
None     == 0
Ops      == {"tick", "resume", "pause", "objective"}
Settled  == {"ended", "failed"}   \* completed and stopped end a cycle alike
Wonders  == {"none", "weak", "good", "skipped", "promoted"}
Campaign == [status : {"active", "paused"}, cur : Cycles \cup {None},
             started : Nat, completed : Nat, promoted : Nat, fails : Nat]
NewCampaign == [status |-> "active", cur |-> None, started |-> 0,
                completed |-> 0, promoted |-> 0, fails |-> 0]
NoProc   == [pc |-> "idle", op |-> "tick", copy |-> NewCampaign,
             seen |-> "none", found |-> "none", got |-> 0]
NoGuard  == [pc |-> "idle", copy |-> NewCampaign, wonder |-> [i \in Cycles |-> "none"]]

Init ==
    /\ camp = NewCampaign
    /\ sess = [i \in Cycles |-> "none"]
    /\ wonder = [i \in Cycles |-> "none"]
    /\ knowledge = [i \in Cycles |-> "none"]
    /\ proc = [x \in Procs |-> IF x = "loop" THEN [NoProc EXCEPT !.pc = "dead"] ELSE NoProc]
    /\ guard = NoGuard
    /\ lock = "free"
    /\ up = FALSE
    /\ faults = 0 /\ crashes = 0 /\ deletes = 0

-----------------------------------------------------------------------------
(* The building blocks of a locked operation of process x.                 *)

At(x, pc)     == proc[x].pc = pc
Goto(x, pc)   == proc' = [proc EXCEPT ![x].pc = pc, ![x].found = "none"] /\ lock' = lock
Release(x)    == proc' = [proc EXCEPT ![x] = NoProc] /\ lock' = "free"

(* Bug variant: the lock is not released when an operation fails.          *)
RaiseHolding(x) ==
    /\ proc' = [proc EXCEPT ![x] = IF x = "loop" THEN [NoProc EXCEPT !.pc = "eget"]
                                   ELSE NoProc]
    /\ lock' = lock

(* An exception leaves the lock; the worker goes on to _record_loop_error, *)
(* a control call answers with an error.                                   *)
Raise(x) ==
    /\ proc' = [proc EXCEPT ![x] = IF x = "loop" THEN [NoProc EXCEPT !.pc = "eget"]
                                   ELSE NoProc]
    /\ lock' = "free"

(* current_session_id is a foreign key.                                    *)
Storable(c) == c.cur = None \/ sess[c.cur] # "deleted"

(* Write the whole campaign row, then go on with A.                        *)
Save(x, c, A) ==
    IF Storable(c) THEN camp' = c /\ A ELSE camp' = camp /\ Raise(x)

(* Saturating: from OverflowAt on all values behave alike.                 *)
OneMore(n) == IF n < OverflowAt THEN n + 1 ELSE n

(* A session ends; it may leave a wonder, below the quality gate or not.   *)
End(i, status) ==
    /\ sess' = [sess EXCEPT ![i] = status]
    /\ \E w \in {"none", "weak", "good"} : wonder' = [wonder EXCEPT ![i] = w]
-----------------------------------------------------------------------------
(* Beginning an operation: the worker ticks; a caller resumes (or starts), *)
(* pauses (or stops), or sets the objective.                               *)

Begin(x, op) ==
    /\ At(x, "idle")
    /\ IF x = "loop" THEN op = "tick" ELSE up /\ op \in {"resume", "pause", "objective"}
    /\ proc' = [proc EXCEPT ![x].pc = "lock", ![x].op = op]
    /\ UNCHANGED <<camp, sess, wonder, knowledge, lock>>

(* Bug variant: an operation does not wait for the lock.                   *)
AcquireUnlocked(x) ==
    /\ At(x, "lock")
    /\ lock' = x
    /\ proc' = [proc EXCEPT ![x].pc = "get"]
    /\ UNCHANGED <<camp, sess, wonder, knowledge>>

Acquire(x) ==
    /\ At(x, "lock")
    /\ lock = "free"
    /\ lock' = x
    /\ proc' = [proc EXCEPT ![x].pc = "get"]
    /\ UNCHANGED <<camp, sess, wonder, knowledge>>

(* Bug variant: the worker does not look at the status of the campaign.    *)
TickGetAlways(x) ==
    /\ At(x, "get")
    /\ proc[x].op = "tick"
    /\ proc' = [proc EXCEPT ![x].pc = IF camp.cur = None THEN "plan" ELSE "sget",
                            ![x].copy = camp]
    /\ UNCHANGED <<camp, sess, wonder, knowledge, lock>>

(* _tick_locked: read the campaign and choose.                             *)
TickGet(x) ==
    /\ At(x, "get")
    /\ proc[x].op = "tick"
    /\ \/ /\ camp.status = "active" /\ camp.cur # None
          /\ proc' = [proc EXCEPT ![x].pc = "sget", ![x].copy = camp]
          /\ lock' = lock
       \/ /\ camp.status = "active" /\ camp.cur = None
          /\ proc' = [proc EXCEPT ![x].pc = "plan", ![x].copy = camp]
          /\ lock' = lock
       \/ camp.status # "active" /\ Release(x)
    /\ UNCHANGED <<camp, sess, wonder, knowledge>>

(* start_or_resume and _set_terminal_control set the status in the copy;   *)
(* update_objective leaves it.                                             *)
ControlGet(x) ==
    /\ At(x, "get")
    /\ proc[x].op # "tick"
    /\ proc' = [proc EXCEPT ![x].pc = "csave",
                            ![x].copy = [camp EXCEPT !.status =
                                CASE proc[x].op = "resume" -> "active"
                                  [] proc[x].op = "pause"  -> "paused"
                                  [] OTHER                 -> @]]
    /\ UNCHANGED <<camp, sess, wonder, knowledge, lock>>

ControlSave(x) ==
    LET c == proc[x].copy IN
    /\ At(x, "csave")
    /\ Save(x, c,
            IF proc[x].op = "resume"
            THEN /\ proc' = [proc EXCEPT ![x].pc = "get", ![x].op = "tick"]
                 /\ lock' = lock
            ELSE IF proc[x].op = "pause" /\ c.cur # None
            THEN Goto(x, "stop")
            ELSE Release(x))
    /\ UNCHANGED <<sess, wonder, knowledge>>

(* coordinator.stop returns once the session is no longer open.            *)
ControlStop(x) ==
    LET i == proc[x].copy.cur IN
    /\ At(x, "stop")
    /\ IF sess[i] = "open" THEN End(i, "ended") ELSE UNCHANGED <<sess, wonder>>
    /\ Goto(x, "sget")
    /\ UNCHANGED <<camp, knowledge>>

(* Read the current session: gone, still open (submit changes no row), or  *)
(* settled.                                                                *)
SessionGet(x) ==
    LET i == proc[x].copy.cur IN
    /\ At(x, "sget")
    /\ \/ /\ sess[i] = "deleted" /\ proc[x].op = "tick"
          /\ Goto(x, "missing")
       \/ /\ sess[i] = "open" \/ (sess[i] = "deleted" /\ proc[x].op = "pause")
          /\ Release(x)
       \/ /\ sess[i] \in Settled
          /\ proc' = [proc EXCEPT ![x].pc = "promote", ![x].seen = sess[i],
                                   ![x].found = wonder[i]]
          /\ lock' = lock
    /\ UNCHANGED <<camp, sess, wonder, knowledge>>

Missing(x) ==
    /\ At(x, "missing")
    /\ Save(x, [proc[x].copy EXCEPT !.cur = None], Release(x))
    /\ UNCHANGED <<sess, wonder, knowledge>>

(* _start_cycle: not due yet; too little knowledge, which saves the row;   *)
(* or a new session, created before the campaign refers to it.             *)
NotDue(x) ==
    /\ At(x, "plan")
    /\ Release(x)
    /\ UNCHANGED <<camp, sess, wonder, knowledge>>

TooLittle(x) ==
    /\ At(x, "plan")
    /\ Save(x, proc[x].copy, Release(x))
    /\ UNCHANGED <<sess, wonder, knowledge>>

StartCycle(x, i) ==
    /\ At(x, "plan")
    /\ sess[i] = "none"
    /\ sess' = [sess EXCEPT ![i] = "open"]
    /\ proc' = [proc EXCEPT ![x].pc = "ssave",
                            ![x].copy.cur = i, ![x].copy.started = @ + 1]
    /\ UNCHANGED <<camp, wonder, knowledge, lock>>

StartSave(x) ==
    /\ At(x, "ssave")
    /\ Save(x, proc[x].copy, Release(x))
    /\ UNCHANGED <<sess, wonder, knowledge>>
-----------------------------------------------------------------------------
(* _finalize_cycle: promote the session's wonder, then write the counters. *)

(* A wonder deleted since it was read cannot be updated any more.          *)
Update(x, i, value, A) ==
    IF sess[i] = "deleted"
    THEN wonder' = wonder /\ Raise(x)
    ELSE wonder' = [wonder EXCEPT ![i] = value] /\ A

(* No wonder, or one promoted before.                                      *)
PromoteNothing(x) ==
    /\ At(x, "promote")
    /\ proc[x].found \in {"none", "promoted"}
    /\ Goto(x, "fsave")
    /\ UNCHANGED <<camp, sess, wonder, knowledge>>

(* Below the quality gate: the wonder goes back to incubation.             *)
Incubate(x) ==
    LET i == proc[x].copy.cur IN
    /\ At(x, "promote")
    /\ proc[x].found = "weak"
    /\ Update(x, i, "weak", Goto(x, "fsave"))
    /\ UNCHANGED <<camp, sess, knowledge>>

(* Bug variants: an ingestion that is rejected because the text is already *)
(* held marks the wonder as promoted, or is counted as a promotion.        *)
IngestMarked(x) ==
    LET i == proc[x].copy.cur IN
    /\ At(x, "promote")
    /\ proc[x].found \in {"good", "skipped"}
    /\ IF knowledge[i] = "none"
       THEN /\ knowledge' = [knowledge EXCEPT ![i] = "item"]
            /\ Goto(x, "link")
            /\ wonder' = wonder
       ELSE /\ Update(x, i, "promoted", Goto(x, "fsave"))
            /\ knowledge' = knowledge
    /\ UNCHANGED <<camp, sess>>

IngestCounted(x) ==
    LET i == proc[x].copy.cur IN
    /\ At(x, "promote")
    /\ proc[x].found \in {"good", "skipped"}
    /\ knowledge' = [knowledge EXCEPT ![i] = IF @ = "none" THEN "item" ELSE @]
    /\ proc' = [proc EXCEPT ![x].pc = IF knowledge[i] = "none" THEN "link" ELSE "fsave",
                            ![x].got = 1, ![x].found = "none"]
    /\ UNCHANGED <<camp, sess, wonder, lock>>

(* Ingestion, which rejects a text it already holds.                       *)
Ingest(x) ==
    LET i == proc[x].copy.cur IN
    /\ At(x, "promote")
    /\ proc[x].found \in {"good", "skipped"}
    /\ IF knowledge[i] = "none"
       THEN /\ knowledge' = [knowledge EXCEPT ![i] = "item"]
            /\ Goto(x, "link")
            /\ wonder' = wonder
       ELSE /\ Update(x, i, "skipped", Goto(x, "fsave"))
            /\ knowledge' = knowledge
    /\ UNCHANGED <<camp, sess>>

(* The item's DERIVED_FROM edges.                                          *)
Link(x) ==
    LET i == proc[x].copy.cur IN
    /\ At(x, "link")
    /\ knowledge' = [knowledge EXCEPT ![i] = "linked"]
    /\ Goto(x, "wsave")
    /\ UNCHANGED <<camp, sess, wonder>>

WonderSave(x) ==
    LET i == proc[x].copy.cur IN
    /\ At(x, "wsave")
    /\ Update(x, i, "promoted",
              /\ proc' = [proc EXCEPT ![x].pc = "fsave", ![x].got = 1]
              /\ lock' = lock)
    /\ UNCHANGED <<camp, sess, knowledge>>

Finalized(c, failed, got) ==
    [c EXCEPT !.cur = None, !.completed = @ + 1, !.promoted = @ + got,
              !.fails = IF failed THEN OneMore(@) ELSE 0]

(* The back-off of a failed cycle is computed in floating point before the *)
(* row is written.                                                         *)
FinalSave(x) ==
    LET c == Finalized(proc[x].copy, proc[x].seen = "failed", proc[x].got) IN
    /\ At(x, "fsave")
    /\ IF c.fails >= OverflowAt
       THEN camp' = camp /\ Raise(x)
       ELSE Save(x, c, Release(x))
    /\ UNCHANGED <<sess, wonder, knowledge>>

Step(x) ==
    /\ \/ Acquire(x) \/ TickGet(x) \/ ControlGet(x) \/ ControlSave(x)
       \/ ControlStop(x) \/ SessionGet(x) \/ Missing(x)
       \/ TooLittle(x) \/ StartSave(x)
       \/ \E i \in Cycles : StartCycle(x, i)
       \/ PromoteNothing(x) \/ Incubate(x) \/ Ingest(x) \/ Link(x) \/ WonderSave(x) \/ FinalSave(x)
    /\ UNCHANGED <<guard, up, faults, crashes, deletes>>
-----------------------------------------------------------------------------
(* The writers without the lock.                                           *)

(* _record_loop_error reads the campaign ...                               *)
ErrorGet ==
    /\ At("loop", "eget")
    /\ proc' = [proc EXCEPT !["loop"].pc = "eput", !["loop"].copy = camp]
    /\ UNCHANGED <<camp, sess, wonder, knowledge, guard, lock, up, faults, crashes, deletes>>

(* ... and writes it back; an exception here ends the worker.              *)
ErrorPut ==
    LET c == [proc["loop"].copy EXCEPT !.fails = OneMore(@)] IN
    /\ At("loop", "eput")
    /\ camp' = IF Storable(c) THEN c ELSE camp
    /\ proc' = [proc EXCEPT !["loop"] =
                  IF Storable(c) THEN NoProc ELSE [NoProc EXCEPT !.pc = "dead"]]
    /\ UNCHANGED <<sess, wonder, knowledge, guard, lock, up, faults, crashes, deletes>>

(* start(), at boot or by the guardian when the worker is dead, reconciles *)
(* the promoted knowledge: it reads the wonders, writes their rows back,   *)
(* reads the campaign, writes it back, and then creates the worker.        *)
StartWorker ==
    /\ proc' = [proc EXCEPT !["loop"] = NoProc]
    /\ up' = TRUE

Generated == {i \in Cycles : knowledge[i] # "none" /\ wonder[i] # "none"}

StartGet ==
    /\ guard.pc = "idle"
    /\ At("loop", "dead")
    /\ IF \E i \in Cycles : knowledge[i] # "none"
       THEN /\ guard' = [guard EXCEPT !.pc = "wonders",
                             !.wonder = [i \in Cycles |-> IF i \in Generated THEN wonder[i] ELSE "none"]]
            /\ UNCHANGED <<proc, up>>
       ELSE guard' = guard /\ StartWorker
    /\ UNCHANGED <<camp, sess, wonder, knowledge, lock, faults, crashes, deletes>>

(* A wonder deleted meanwhile cannot be updated: start() fails.            *)
StartWonders ==
    LET copied == {i \in Cycles : guard.wonder[i] # "none"} IN
    /\ guard.pc = "wonders"
    /\ IF \E i \in copied : sess[i] = "deleted"
       THEN guard' = NoGuard /\ wonder' = wonder
       ELSE /\ guard' = [NoGuard EXCEPT !.pc = "put", !.copy = camp]
            /\ wonder' = [i \in Cycles |-> IF i \in copied THEN guard.wonder[i] ELSE wonder[i]]
    /\ UNCHANGED <<camp, sess, knowledge, proc, lock, up, faults, crashes, deletes>>

StartPut ==
    /\ guard.pc = "put"
    /\ guard' = NoGuard
    /\ IF Storable(guard.copy)
       THEN camp' = guard.copy /\ StartWorker
       ELSE UNCHANGED <<camp, proc, up>>
    /\ UNCHANGED <<sess, wonder, knowledge, lock, faults, crashes, deletes>>
-----------------------------------------------------------------------------
(* The surroundings.                                                       *)

Troubled == faults + crashes + deletes >= MaxTroubles

Settle(i) ==
    /\ sess[i] = "open"
    /\ \E status \in Settled : End(i, status)
    /\ UNCHANGED <<camp, knowledge, proc, guard, lock, up, faults, crashes, deletes>>

(* DELETE /wander/{id}: its wonders go, and the foreign key is set NULL.   *)
Delete(i) ==
    /\ up
    /\ deletes < MaxDeletes /\ ~Troubled
    /\ sess[i] \in Settled \cup {"open"}
    /\ deletes' = deletes + 1
    /\ sess' = [sess EXCEPT ![i] = "deleted"]
    /\ wonder' = [wonder EXCEPT ![i] = "none"]
    /\ camp' = IF camp.cur = i THEN [camp EXCEPT !.cur = None] ELSE camp
    /\ UNCHANGED <<knowledge, proc, guard, lock, up, faults, crashes>>

(* A database call of x fails.                                             *)
Fault(x) ==
    /\ proc[x].pc \notin {"idle", "lock", "dead"}
    /\ faults < MaxFaults /\ ~Troubled
    /\ faults' = faults + 1
    /\ IF proc[x].pc \in {"eget", "eput"}
       THEN proc' = [proc EXCEPT ![x] = [NoProc EXCEPT !.pc = "dead"]] /\ lock' = lock
       ELSE Raise(x)
    /\ UNCHANGED <<camp, sess, wonder, knowledge, guard, up, crashes, deletes>>

(* The process ends, by shutdown() or without: the worker is cancelled     *)
(* wherever it is, and the calls with it.                                  *)
Crash ==
    /\ crashes < MaxCrashes /\ ~Troubled
    /\ crashes' = crashes + 1
    /\ proc' = [x \in Procs |-> IF x = "loop" THEN [NoProc EXCEPT !.pc = "dead"] ELSE NoProc]
    /\ guard' = NoGuard
    /\ lock' = "free"
    /\ up' = FALSE
    /\ UNCHANGED <<camp, sess, wonder, knowledge, faults, deletes>>

Idle(x) ==
    /\ \E op \in Ops : Begin(x, op)
    /\ UNCHANGED <<guard, up, faults, crashes, deletes>>

Later(x) ==
    /\ NotDue(x)
    /\ UNCHANGED <<guard, up, faults, crashes, deletes>>

Next ==
    \/ \E x \in Procs : Idle(x) \/ Step(x) \/ Later(x) \/ Fault(x)
    \/ ErrorGet \/ ErrorPut \/ StartGet \/ StartWonders \/ StartPut
    \/ \E i \in Cycles : Settle(i) \/ Delete(i)
    \/ Crash

(* asyncio.Lock serves its waiters in order of arrival.                    *)
Take(x) ==
    /\ Acquire(x)
    /\ UNCHANGED <<guard, up, faults, crashes, deletes>>

(* The worker polls forever, begun operations go on, start() runs at boot  *)
(* and from the guardian's loop, sessions settle (SessionContract).        *)
Fairness ==
    /\ WF_vars(Idle("loop"))
    /\ \A x \in Procs : WF_vars(Step(x)) /\ SF_vars(Take(x))
    /\ WF_vars(ErrorGet \/ ErrorPut)
    /\ WF_vars(StartGet \/ StartWonders \/ StartPut)
    /\ \A i \in Cycles : WF_vars(Settle(i))

Spec == Init /\ [][Next]_vars /\ Fairness
-----------------------------------------------------------------------------
(* A paused campaign has no session: pause() stops and finalizes the       *)
(* current one before it lets go of the lock, also when the worker was     *)
(* about to start a cycle.  (Not when a fault, a crash or the overflow of  *)
(* the back-off cuts pause short, nor when the worker failed on a deleted  *)
(* session and its error handler writes back a row read during pause().)   *)
PausedIsIdle ==
    camp.status = "paused" /\ lock = "free" /\ faults + crashes + deletes = 0
    /\ camp.fails + 1 < OverflowAt =>
        camp.cur = None /\ \A i \in Cycles : sess[i] # "open"

(* The worker and the callers never start two cycles; what is lost costs   *)
(* sessions nobody finalizes.  A fault costs at most two: one created and  *)
(* not saved in the campaign, and one whose campaign row is overwritten by *)
(* the error handler, or by start(), with what it read before; a crash the *)
(* first only, a deletion, which makes the tick fail, the second only.     *)
NoExtraCycles ==
    Cardinality({i \in Cycles : sess[i] = "open"}) <= 1 + 2 * faults + crashes + deletes

(* A wonder marked as promoted has its knowledge item with all its edges,  *)
(* whatever was interrupted before and repeated since.                     *)
PromotedIsLinked ==
    \A i \in Cycles : wonder[i] = "promoted" => knowledge[i] = "linked"

(* The cumulative count of promotions, which is written after the wonders  *)
(* they are about: never ahead of the knowledge, although a cycle can be   *)
(* finalized again after its promotions were done; behind the promoted     *)
(* wonders by at most one cycle per crash.  (An exception in a tick lets   *)
(* the error handler write an old row back: then there is no such bound.)  *)
CountsNear ==
    /\ camp.promoted <= Cardinality({i \in Cycles : knowledge[i] = "linked"})
    /\ camp.cur = None /\ faults = 0 /\ deletes = 0 =>
          Cardinality({i \in Cycles : wonder[i] = "promoted"}) <= camp.promoted + crashes

(* The current session of an active campaign, once settled, is finalized:  *)
(* it is never the settled one for good.  (Unless the next failure is the  *)
(* one whose back-off overflows before the campaign is saved.)             *)
CyclesEnd ==
    []<>(camp.status = "active" /\ camp.cur # None =>
            sess[camp.cur] \notin Settled \/ camp.fails + 1 >= OverflowAt)

(* What the campaign row promises to a reader.                             *)
Contract == INSTANCE CampaignContract WITH
    status <- camp.status, cur <- camp.cur,
    started <- camp.started, completed <- camp.completed
ImplementsContract == Contract!Spec

(* As long as no tick has raised an exception, a paused campaign becomes   *)
(* active again only through resume: start() reads the row without the     *)
(* lock, but then nothing else writes it.  (After an exception the error   *)
(* handler of the loop, and a start() by the guardian, may undo a pause.)  *)
PauseIsKept ==
    [][camp.status = "paused" /\ faults + deletes = 0 /\ camp.fails + 1 < OverflowAt
         => \/ camp'.status # "active"
            \/ \E x \in Callers : At(x, "csave") /\ proc[x].op = "resume"]_vars
=============================================================================
