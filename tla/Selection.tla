----------------------------- MODULE Selection -----------------------------
(***************************************************************************)
(* Which two items are thought about next.  The autopilot plans a pair of  *)
(* original items from the attempts its seeds record, the incubator a pair *)
(* no wonder has come from; a user's seed names none, and a request        *)
(* without a seed takes over one that was left open.  The engine compares  *)
(* the planned pair first and then every other pair, changes between the   *)
(* patches of the items only so often, and picks a cognitive operator for  *)
(* each.  Meanwhile items are added, generated, rejected and deleted, and  *)
(* runs are stopped or crash.                                              *)
(*                                                                         *)
(* Items are numbers in the order of their creation.  The distance of an   *)
(* item to the seed is chosen when a run begins.  Runs come one at a time; *)
(* a re-wonder runs like a user's seed, a resumed run as in WanderEngine.  *)
(***************************************************************************)
EXTENDS Integers, Sequences, FiniteSets, SequencesExt, FiniteSetsExt, Functions

CONSTANTS
    MaxItems,     \* bound: items ever created
    FirstItems,   \* items there from the beginning
    SampleSize,   \* of the incubator
    Distances,    \* distances an item may have to a seed
    Labels,       \* of each item: its domain, topics, month and cluster
    MaxSwitches,  \* max_patch_switches of the budget
    MaxWonders,   \* bound: wonders of a run
    MaxCycles,    \* bound: cycles of the autopilot
    MaxRuns,      \* bound: engine runs in all
    MaxLooked     \* bound: the first runs, those whose pairs are followed

ASSUME SelectionAssumption ==
    /\ {MaxItems, FirstItems, SampleSize, MaxSwitches, MaxWonders, MaxCycles, MaxRuns, MaxLooked}
          \subseteq Nat
    /\ FirstItems <= MaxItems /\ SampleSize >= 2 /\ Distances \subseteq Nat
    /\ \A i \in 1 .. MaxItems : Labels[i] # {}

Numbers == 1 .. MaxItems
Pairs(S) == kSubset(2, S)
None == {}

VARIABLES
    kind,       \* of each item: "unborn", "original", "derived", "rejected", "gone"
    attempts,   \* seeds of the campaign, by pair
    cycles,     \* cycles_started
    open,       \* the seeds that are not used up, in the order of their creation: [by, pair]
    wondered,   \* pairs a wonder has come from
    runs,       \* engine runs so far
    run         \* the engine run: [pc, seed, active, patch, looked, queue, switches, used, applied, found]

vars == <<kind, attempts, cycles, open, wondered, runs, run>>

NoRun == [pc |-> "idle", seed |-> 0, active |-> {}, patch |-> <<>>, looked |-> <<>>,
          queue |-> <<>>, switches |-> 0, used |-> {}, applied |-> 0, found |-> 0]

Pinned == open[run.seed].pair

Stored == {i \in Numbers : kind[i] \notin {"unborn", "gone"}}
Original == {i \in Numbers : kind[i] = "original"}
Active == {i \in Numbers : kind[i] \in {"original", "derived"}}

Init ==
    /\ kind = [i \in Numbers |-> IF i <= FirstItems THEN "original" ELSE "unborn"]
    /\ attempts = [p \in Pairs(Numbers) |-> 0]
    /\ cycles = 0 /\ open = <<>> /\ wondered = {} /\ runs = 0
    /\ run = NoRun

-----------------------------------------------------------------------------
(* The elements of S in their order: the n-th has n - 1 before it.         *)
Ranked(S, Before(_, _)) ==
    [n \in 1 .. Cardinality(S) |->
        CHOOSE x \in S : Cardinality({y \in S : Before(y, x)}) = n - 1]

(* The autopilot's planner.                                                *)

Youngest(p) == Max(p)
Oldest(p) == Min(p)
AgeGap(p) == Youngest(p) - Oldest(p)

(* Pairs tried equally often: the greatest difference in age comes first.  *)
RanksBefore(p, q) ==
    \/ AgeGap(p) > AgeGap(q)
    \/ AgeGap(p) = AgeGap(q) /\ Oldest(p) < Oldest(q)

Frontier ==
    LET pairs == Pairs(Original)
        least == Min({attempts[p] : p \in pairs}) IN
    Ranked({p \in pairs : attempts[p] = least}, RanksBefore)

(* Bug variant: the number of the cycle alone chooses the pair.            *)
PlannedInTurn ==
    LET ranked == Ranked(Pairs(Original), RanksBefore) IN
    ranked[(cycles % Len(ranked)) + 1]

Planned == Frontier[(cycles % Len(Frontier)) + 1]

(* A new seed, for a run that comes to pc next.                            *)
Sow(by, pair, pc) ==
    /\ run.pc = "idle" /\ runs < MaxRuns
    /\ open' = Append(open, [by |-> by, pair |-> pair])
    /\ run' = [NoRun EXCEPT !.pc = pc, !.seed = Len(open) + 1]
    /\ runs' = runs + 1

(* The seed is created first, which counts the attempt ...                 *)
Plan ==
    /\ cycles < MaxCycles /\ Cardinality(Original) >= 2
    /\ Sow("autopilot", Planned, "planned")
    /\ attempts' = [attempts EXCEPT ![Planned] = @ + 1]
    /\ UNCHANGED <<kind, cycles, wondered>>

(* ... the session and the campaign after it, which count the cycle.       *)
Start ==
    /\ run.pc = "planned"
    /\ cycles' = cycles + 1
    /\ run' = [run EXCEPT !.pc = "submitted"]
    /\ UNCHANGED <<kind, attempts, open, wondered, runs>>

-----------------------------------------------------------------------------
(* The incubator's sampler.                                                *)

FirstOf(S, n) == {i \in S : Cardinality({j \in S : j < i}) < n}
LastOf(S, n) == {i \in S : Cardinality({j \in S : j > i}) < n}

(* The oldest half and the most recent half of everything stored.          *)
Sample ==
    IF Cardinality(Stored) <= SampleSize THEN Stored
    ELSE LET half == SampleSize \div 2 IN
         FirstOf(Stored, half) \union LastOf(Stored, SampleSize - half)

(* The most recent item that has a partner, and the oldest of its partners.*)
Incubate ==
    /\ LET fresh == {p \in Pairs(Sample) : p \notin wondered}
           recent == Max(UNION fresh)
           old == Min({i \in Sample : {i, recent} \in fresh}) IN
       fresh # {} /\ Sow("incubator", {recent, old}, "submitted")
    /\ UNCHANGED <<kind, attempts, cycles, wondered>>

-----------------------------------------------------------------------------
(* The requests of users.                                                  *)

(* Priority of an open seed: by its source, then by its own priority.      *)
Rank(by) == CASE by = "user" -> 4 [] by = "recent" -> 3 [] by = "autopilot" -> 2 [] by = "incubator" -> 1

(* The seed to take over: the youngest one of the highest priority.        *)
Selected ==
    CHOOSE n \in DOMAIN open : \A k \in DOMAIN open :
        Rank(open[n].by) > Rank(open[k].by) \/ (open[n].by = open[k].by /\ n >= k)

TakeOver ==
    /\ run.pc = "idle" /\ runs < MaxRuns /\ open # <<>>
    /\ run' = [NoRun EXCEPT !.pc = "submitted", !.seed = Selected]
    /\ runs' = runs + 1 /\ open' = open

(* With a text, without a seed, or without any seed to take over.          *)
Ask ==
    /\ Cardinality(Stored) >= 2
    /\ \/ Sow("user", None, "submitted")
       \/ TakeOver
       \/ open = <<>> /\ Sow("recent", None, "submitted")
    /\ UNCHANGED <<kind, attempts, cycles, wondered>>

-----------------------------------------------------------------------------
(* The engine: pairs and operators.                                        *)

(* Ranking by distance to the seed, of equal ones the youngest first.      *)
Closer(distance, i, j) == distance[i] < distance[j] \/ (distance[i] = distance[j] /\ i > j)

(* The two items of a pair in the order of the ranking.                    *)
Left(distance, p) == CHOOSE i \in p : \A j \in p \ {i} : Closer(distance, i, j)
Right(distance, p) == CHOOSE i \in p : i # Left(distance, p)

(* The pair whose distances differ most comes first, then the one that is  *)
(* closer to the seed, then the order of the ranking.                      *)
PairBefore(distance, p, q) ==
    LET left(r) == Left(distance, r)
        right(r) == Right(distance, r)
        gap(r) == distance[right(r)] - distance[left(r)]
        sum(r) == distance[left(r)] + distance[right(r)] IN
    \/ gap(p) > gap(q)
    \/ gap(p) = gap(q) /\ sum(p) < sum(q)
    \/ gap(p) = gap(q) /\ sum(p) = sum(q) /\ Closer(distance, left(p), left(q))
    \/ gap(p) = gap(q) /\ left(p) = left(q) /\ Closer(distance, right(p), right(q))

(* Bug variant: the planned pair is not remembered as seen.                *)
CandidatePairsRepeating(items, pinned, distance) ==
    (IF pinned \in Pairs(items) THEN <<pinned>> ELSE <<>>)
        \o Ranked(Pairs(items), LAMBDA p, q : PairBefore(distance, p, q))

(* The planned pair, if both items are active, and every other pair.       *)
CandidatePairs(items, pinned, distance) ==
    (IF pinned \in Pairs(items) THEN <<pinned>> ELSE <<>>)
        \o Ranked(Pairs(items) \ {pinned}, LAMBDA p, q : PairBefore(distance, p, q))

(* An item belongs to the largest patch of its labels, of equally large    *)
(* ones to the most coherent.                                              *)
PatchOf(i, items, coherence) ==
    LET size(l) == Cardinality({j \in items : l \in Labels[j]}) IN
    CHOOSE l \in Labels[i] : \A k \in Labels[i] :
        size(l) > size(k) \/ (size(l) = size(k) /\ coherence[l] >= coherence[k])

AllLabels == UNION {Labels[i] : i \in Numbers}

(* What the embeddings and the words of the items may come to: a distance  *)
(* of each item to the text of the seed, and how close together the items  *)
(* of each patch are, in any order of the patches.                         *)
Distance(items) == [items -> Distances]
Coherence == Injection(AllLabels, 1 .. Cardinality(AllLabels))

Begin ==
    /\ run.pc = "submitted" /\ runs <= MaxLooked
    /\ Cardinality(Active) >= 2
    /\ \E distance \in Distance(Active), coherence \in Coherence :
          run' = [run EXCEPT !.pc = "loop", !.active = Active,
                             !.patch = [i \in Active |-> PatchOf(i, Active, coherence)],
                             !.queue = CandidatePairs(Active, Pinned, distance)]
    /\ UNCHANGED <<kind, attempts, cycles, open, wondered, runs>>

Operators == <<"analogy", "conceptual_blend", "counterfactual", "inversion", "abstraction", "second_order">>

Preferred ==
    {<<"counterfactual", "inversion", "abstraction">>,
     <<"second_order", "counterfactual", "abstraction">>,
     <<"abstraction", "conceptual_blend", "analogy">>,
     <<"analogy", "conceptual_blend", "inversion">>,
     <<"conceptual_blend", "analogy", "abstraction">>}

FirstUnused(names, used) == names[Min({n \in DOMAIN names : names[n] \notin used})]

(* A preferred operator that was not used, any other, or the first choice. *)
Select(preferred, used) ==
    IF ~(ToSet(preferred) \subseteq used) THEN FirstUnused(preferred, used)
    ELSE IF ~(ToSet(Operators) \subseteq used) THEN FirstUnused(Operators, used)
    ELSE preferred[1]

Looked == [run EXCEPT !.looked = Append(@, Head(run.queue)), !.queue = Tail(@)]

(* Two items of different patches: a change, as long as the budget allows. *)
Changes == Cardinality({run.patch[i] : i \in Head(run.queue)}) = 2
Moved == IF Changes THEN [Looked EXCEPT !.switches = @ + 1] ELSE Looked

Refuse ==
    /\ run.pc = "loop" /\ run.queue # <<>>
    /\ Changes /\ run.switches >= MaxSwitches
    /\ run' = Looked
    /\ UNCHANGED <<kind, attempts, cycles, open, wondered, runs>>

(* A weak association.                                                     *)
Discard ==
    /\ run.pc = "loop" /\ run.queue # <<>>
    /\ Changes => run.switches < MaxSwitches
    /\ run' = Moved
    /\ UNCHANGED <<kind, attempts, cycles, open, wondered, runs>>

(* The preference follows from the type of the association.                *)
Apply ==
    /\ run.pc = "loop" /\ run.queue # <<>>
    /\ Changes => run.switches < MaxSwitches
    /\ \E preferred \in Preferred, wonder \in BOOLEAN :
          /\ wonder => run.found < MaxWonders
          /\ run' = [Moved EXCEPT !.used = @ \union {Select(preferred, run.used)}, !.applied = @ + 1,
                                  !.found = IF wonder THEN @ + 1 ELSE @]
          /\ wondered' = IF wonder THEN wondered \union {Head(run.queue)} ELSE wondered
    /\ UNCHANGED <<kind, attempts, cycles, open, runs>>

(* The target is reached, or the pairs or a budget are exhausted: the seed *)
(* is used up.                                                             *)
Complete ==
    /\ run.pc = "loop"
    /\ run' = NoRun
    /\ open' = RemoveAt(open, run.seed)
    /\ UNCHANGED <<kind, attempts, cycles, wondered, runs>>

(* A crash, a stop, a failure or too few items leaves the seed open.       *)
End ==
    /\ run.pc # "idle"
    /\ run' = NoRun
    /\ UNCHANGED <<kind, attempts, cycles, open, wondered, runs>>

-----------------------------------------------------------------------------
(* The library.  A run works on copies, so what happens to the items while *)
(* it looks at its pairs shows when it has ended.                          *)

Become(i, now) ==
    /\ run.pc # "loop"
    /\ kind' = [kind EXCEPT ![i] = now]
    /\ UNCHANGED <<attempts, cycles, open, wondered, runs, run>>

Add(i) ==
    /\ kind[i] = "unborn" /\ \A j \in 1 .. i - 1 : kind[j] # "unborn"
    /\ \E now \in {"original", "derived"} : Become(i, now)

Reject(i) == kind[i] = "derived" /\ Become(i, "rejected")

Erase(i) == i \in Stored /\ Become(i, "gone")

Next ==
    \/ Plan \/ Start \/ Incubate \/ Ask
    \/ Begin \/ Refuse \/ Discard \/ Apply \/ Complete \/ End
    \/ \E i \in Numbers : Add(i) \/ Reject(i) \/ Erase(i)

Spec == Init /\ [][Next]_vars
-----------------------------------------------------------------------------
(* The autopilot neglects no pair: pairs that were there from the start    *)
(* have been tried equally often, give or take one, although cycles are    *)
(* lost, items come and go and new pairs catch up first; and no available  *)
(* pair has been tried more often than one of those plus one.              *)
PairsEven ==
    \A p \in Pairs(Original \intersect 1 .. FirstItems), q \in Pairs(Original) :
        attempts[q] <= attempts[p] + 1

(* A run looks at every pair of the items that were active when it began,  *)
(* at none of them twice, and at the planned pair first; no operator is    *)
(* used again before each of them was.                                     *)
RunVaried ==
    LET all == run.looked \o run.queue IN
    run.pc = "loop" =>
        /\ ToSet(all) = Pairs(run.active) /\ IsInjective(all)
        /\ Pinned \in Pairs(run.active) => Head(all) = Pinned
        /\ run.applied <= Len(Operators) => Cardinality(run.used) = run.applied
=============================================================================
