------------------------ MODULE CodexRuntime_proofs ------------------------
(***************************************************************************)
(* Proofs about CodexRuntime, for every finite set of agents, any number   *)
(* of retries and any number and mixture of troubles.                      *)
(*                                                                         *)
(* The properties hold of agents that met no trouble of some kind, while   *)
(* the others lose processes, answers and notifications.  The invariant    *)
(* therefore says for each agent, by what it has met, which of its         *)
(* requests, turns and notifications can be under way at each place.       *)
(***************************************************************************)
EXTENDS CodexRuntime, FiniteSetTheorems, TLAPS
-----------------------------------------------------------------------------
Ids      == Agents \X Nat
Methods  == {"initialize", "thread/start", "turn/start", "turn/interrupt", "thread/archive"}
Outcomes == {"none", "answer", "broken", "cancelled", "timeout", "error", "unavailable", "bad",
             "interrupted"}
Statuses == {"active", "interrupted", "completed", "closed"}
Pcs      == Waiting \cup {"idle", "spawn", "run", "loop", "close", "done"}

AgentType == [pc : Pcs, n : Nat, reply : {"none", "ok", "error", "late", "gone", "odd"},
              status : Statuses, tries : Nat, turn : Ids \cup {NoTurn}, got : Nat,
              outcome : Outcomes, saw : SUBSET {"failed", "cut", "overran", "cancelled"}]
RowType   == [status : Statuses \cup {"none"}, calls : Nat, failures : Nat]
Request   == [id : Ids, method : Methods, turn : Ids \cup {NoTurn}, to : Nat]
Note      == [thread : Agents, turn : Ids \cup {NoTurn}, what : {"delta", "good", "bad", "odd"}]

Types ==
    /\ agent \in [Agents -> AgentType] /\ row \in [Agents -> RowType]
    /\ proc \in Nat /\ spawned \in Nat /\ alive \subseteq 1 .. spawned /\ readers \subseteq Nat
    /\ active \in [Agents -> Ids \cup {NoTurn}] /\ queue \in Seq(Note)
    /\ sent \subseteq Request /\ IsFiniteSet(sent)
    /\ turns \subseteq [turn : Ids, at : Nat] /\ ran \in [Agents -> Nat]
    /\ errors \in Nat

(* The request each wait is for.                                           *)
MethodAt(pc) == CASE pc = "init" -> "initialize" [] pc = "thread" -> "thread/start"
                  [] pc = "turn" -> "turn/start" [] pc = "arch" -> "thread/archive"
                  [] OTHER -> "turn/interrupt"

(* A request is that of its agent's last call or an earlier one; its       *)
(* future is registered only while it is awaited, or after a cut.          *)
CallOK(r) ==
    LET me == agent[Owner(r.id)] IN
    /\ r.id[2] > 0
    /\ r.method = "turn/interrupt" => r.turn # NoTurn /\ Owner(r.turn) = Owner(r.id)
    /\ me.pc # "done" => r.id[2] <= me.n
    /\ me.pc \in Waiting /\ r.id[2] = me.n =>
         r.method = MethodAt(me.pc) /\ (me.pc \in {"intr", "cintr"} => r.turn = active[Owner(r.id)])
    /\ r.id \in pending => Awaited(r.id) \/ "cut" \in me.saw

CallsOK == /\ \A r \in sent : CallOK(r)
           /\ \A r, s \in sent : r.id = s.id => r = s
           /\ \A a \in Agents : /\ agent[a].pc \in {"idle", "spawn"} => agent[a].n = 0 /\ agent[a].reply = "none"
                                /\ active[a] # NoTurn => Owner(active[a]) = a

TurnsOf(a) == {t \in turns : Owner(t.turn) = a}
Starts(a)  == {r \in sent : Owner(r.id) = a /\ r.method = "turn/start"}
Ends(a)    == {i \in 1 .. Len(queue) : queue[i].thread = a /\ queue[i].what # "delta"}
Clean(a)   == agent[a].saw \cap {"failed", "cut"} = {}

(* An agent none of whose calls failed or was cut short has one turn at a  *)
(* time: asked for, running, or with its end in the queue.                 *)
Turned(a) ==
    LET me == agent[a] IN Clean(a) =>
    /\ \A t \in TurnsOf(a) : \/ me.pc = "turn" /\ me.reply \in {"none", "ok"} /\ t.turn = <<a, me.n>>
                             \/ me.pc \in {"loop", "close"} /\ t.turn = active[a]
                             \/ me.pc \in {"intr", "cintr"} /\ me.reply = "none" /\ t.turn = active[a]
    /\ \A t, u \in TurnsOf(a) : t = u
    /\ \A r \in Starts(a) : me.pc = "turn" /\ me.reply = "none" /\ r.id = <<a, me.n>>
    /\ Starts(a) # {} => TurnsOf(a) = {} /\ Ends(a) = {}
    /\ \A i, j \in Ends(a) : i = j
    /\ Ends(a) # {} =>
         /\ TurnsOf(a) = {}
         /\ \/ me.pc \in {"loop", "intr", "cintr", "close", "arch", "done"}
            \/ me.pc = "turn" /\ me.reply \in {"none", "ok"}
            \/ me.pc = "run" /\ me.status = "interrupted"
    /\ me.pc = "loop" => active[a] = me.turn
    /\ me.pc \in Waiting /\ me.reply = "none" => <<a, me.n>> \in pending
    /\ me.pc \in Waiting => me.reply \in {"none", "ok"} \/ (me.reply = "error" /\ me.pc \in {"intr", "cintr"})

(* Every attempt asks for one turn at most and is counted at its end.      *)
InAttempt == {"turn", "loop", "intr"}
Accounts(a) ==
    LET me == agent[a] IN
    /\ Cardinality(Starts(a)) + ran[a] <= row[a].calls + (IF me.pc \in InAttempt THEN 1 ELSE 0)
                                          + (IF "cancelled" \in me.saw THEN 1 ELSE 0)
    /\ me.pc \notin {"close", "cintr", "arch", "done"} => me.outcome = "none" /\ "cancelled" \notin me.saw
    /\ me.outcome = "none" => row[a].failures = row[a].calls
    /\ me.outcome = "answer" => row[a].failures = row[a].calls - 1

(* An agent that met nothing is about to archive its thread, or has.       *)
Undisturbed(a) ==
    LET me == agent[a] IN me.saw = {} =>
    /\ me.pc \notin {"intr", "cintr"} /\ me.status # "interrupted"
    /\ active[a] # NoTurn => me.pc = "loop"
    /\ me.pc \in Waiting => me.reply \in {"none", "ok"}
    /\ me.pc = "arch" /\ me.reply = "ok" => a \in archived
    /\ me.pc = "done" => a \in archived /\ row[a].status = "closed"

Fine(a) == Turned(a) /\ Accounts(a) /\ Undisturbed(a)

Sound == Types /\ CallsOK /\ ReaderSurvives /\ \A a \in Agents : Fine(a)
-----------------------------------------------------------------------------
LEMMA NoTurnIsNoId == NoTurn \notin Ids
BY DEF NoTurn, Ids

LEMMA IdParts == \A id \in Ids : Owner(id) \in Agents /\ id[2] \in Nat /\ id = <<Owner(id), id[2]>>
BY DEF Ids, Owner

(* What a call, the end of a task and the end of an agent call leave.      *)
CallMakes(a, me, method, pc, broken, q, r) ==
    /\ agent' = [agent EXCEPT ![a] = q] /\ pending' = pending \cup {r.id}
    /\ r.id = <<a, me.n + 1>> /\ r.method = method /\ r.turn = active[a] /\ q.n = me.n + 1
    /\ \/ /\ proc \in alive /\ sent' = sent \cup {r}
          /\ q.pc = pc /\ q.reply = "none" /\ q.status = me.status /\ q.turn = me.turn
          /\ q.outcome = me.outcome /\ q.saw = me.saw
       \/ /\ proc \notin alive /\ sent' = sent
          /\ q.pc = broken.pc /\ q.reply = broken.reply /\ q.status = broken.status
          /\ q.outcome = broken.outcome /\ q.saw = broken.saw \cup {"failed"}

LEMMA Called ==
    ASSUME NEW a \in Agents, NEW me \in AgentType, NEW method \in Methods, NEW pc \in Waiting,
           NEW broken \in AgentType, Types, Call(a, me, method, pc, broken)
    PROVE  \E q \in AgentType, r \in Request : CallMakes(a, me, method, pc, broken, q, r)
<1> DEFINE r == [id |-> <<a, me.n + 1>>, method |-> method, turn |-> active[a], to |-> proc]
           live == [me EXCEPT !.pc = pc, !.n = @ + 1, !.reply = "none"]
           dead == [broken EXCEPT !.n = me.n + 1, !.saw = @ \cup {"failed"}]
<1>1. me.n \in Nat /\ me.n + 1 \in Nat /\ pc \in Pcs
  BY DEF AgentType, Pcs
<1>2. r \in Request
  BY <1>1 DEF Types, Request, Ids
<1>3. live \in AgentType /\ live.n = me.n + 1 /\ live.pc = pc /\ live.reply = "none" /\ live.status = me.status
      /\ live.turn = me.turn /\ live.outcome = me.outcome /\ live.saw = me.saw
  BY <1>1 DEF AgentType
<1>4. dead \in AgentType /\ dead.n = me.n + 1 /\ dead.pc = broken.pc /\ dead.reply = broken.reply
      /\ dead.status = broken.status /\ dead.outcome = broken.outcome
      /\ dead.saw = broken.saw \cup {"failed"}
  BY <1>1 DEF AgentType
<1>5. CASE proc \in alive
  <2>1. sent' = sent \cup {r} /\ agent' = [agent EXCEPT ![a] = live] /\ pending' = pending \cup {r.id}
    BY <1>5 DEF Call, Become
  <2>2. CallMakes(a, me, method, pc, broken, live, r)
    BY <1>3, <1>5, <2>1 DEF CallMakes
  <2> QED BY <1>2, <1>3, <2>2
<1>6. CASE proc \notin alive
  <2>1. sent' = sent /\ agent' = [agent EXCEPT ![a] = dead] /\ pending' = pending \cup {r.id}
    BY <1>6 DEF Call, Become
  <2>2. CallMakes(a, me, method, pc, broken, dead, r)
    BY <1>4, <1>6, <2>1 DEF CallMakes
  <2> QED BY <1>2, <1>4, <2>2
<1> QED BY <1>5, <1>6

LEMMA Ended ==
    ASSUME NEW me \in AgentType, NEW outcome \in Outcomes
    PROVE  /\ Closing(me, outcome) \in AgentType
           /\ Closing(me, outcome).pc = "close" /\ Closing(me, outcome).outcome = outcome
           /\ Closing(me, outcome).n = me.n /\ Closing(me, outcome).status = me.status
           /\ Closing(me, outcome).saw = me.saw
           /\ Done(me, outcome) \in AgentType
           /\ Done(me, outcome).pc = "done" /\ Done(me, outcome).outcome = outcome
           /\ Done(me, outcome).saw = me.saw /\ Done(me, outcome).status = "active"
BY DEF Closing, Done, NoAgent, AgentType, Pcs, Statuses

LEMMA Erred ==
    ASSUME NEW me \in AgentType, NEW error \in Outcomes
    PROVE  LET q == AfterError(me, error) IN
           /\ q \in AgentType /\ q.n = me.n /\ q.status = me.status /\ q.saw = me.saw
           /\ \/ q.pc = "run" /\ q.outcome = me.outcome /\ error \in Retryable
              \/ q.pc = "close" /\ q.outcome = error
<1> DEFINE again == [me EXCEPT !.pc = "run", !.tries = @ + 1]
<1>0. me.tries + 1 \in Nat /\ "run" \in Pcs
  BY DEF AgentType, Pcs
<1>1. again \in AgentType /\ again.n = me.n /\ again.status = me.status /\ again.saw = me.saw
      /\ again.pc = "run" /\ again.outcome = me.outcome
  BY <1>0 DEF AgentType
<1>2. CASE error \in Retryable /\ me.tries < MaxRetries
  <2>1. AfterError(me, error) = again
    BY <1>2 DEF AfterError
  <2> QED BY <1>1, <1>2, <2>1
<1>3. CASE ~(error \in Retryable /\ me.tries < MaxRetries)
  <2>1. AfterError(me, error) = Closing(me, error)
    BY <1>3 DEF AfterError
  <2> QED BY <2>1, Ended
<1> QED BY <1>2, <1>3

LEMMA Errors ==
    ASSUME NEW reply \in {"ok", "error", "late", "gone", "odd"}, reply # "ok"
    PROVE  /\ Error(reply) \in {"timeout", "error", "unavailable", "bad"} /\ Error(reply) \in Outcomes
           /\ reply = "error" => Error(reply) \notin Retryable
BY DEF Error, Outcomes, Retryable
-----------------------------------------------------------------------------
LEMMA StartsFinite == Types => \A b \in Agents : IsFiniteSet(Starts(b)) /\ Cardinality(Starts(b)) \in Nat
<1> SUFFICES ASSUME Types, NEW b \in Agents PROVE IsFiniteSet(Starts(b)) /\ Cardinality(Starts(b)) \in Nat
  OBVIOUS
<1>1. Starts(b) \subseteq sent /\ IsFiniteSet(sent)
  BY DEF Starts, Types
<1>2. IsFiniteSet(Starts(b))
  BY <1>1, FS_Subset
<1> QED BY <1>2, FS_CardinalityType

LEMMA FewerStarts ==
    ASSUME Types, NEW b \in Agents, Starts(b)' \subseteq Starts(b)
    PROVE  Cardinality(Starts(b)') \in Nat /\ Cardinality(Starts(b)') <= Cardinality(Starts(b))
<1>1. IsFiniteSet(Starts(b))
  BY StartsFinite
<1>2. IsFiniteSet(Starts(b)') /\ Cardinality(Starts(b)') <= Cardinality(Starts(b))
  BY <1>1, FS_Subset
<1> QED BY <1>2, FS_CardinalityType

(* An agent that does nothing stays in order, whatever leaves it its own   *)
(* requests, turns and notifications or takes some of them away.           *)
EndsKept(b) ==
    /\ Ends(b)' # {} => Ends(b) # {}
    /\ (\A i, j \in Ends(b) : i = j) => \A i, j \in Ends(b)' : i = j

LEMMA OthersFine ==
    ASSUME Types, NEW b \in Agents, Fine(b), row'[b] = row[b], active'[b] = active[b],
           agent'[b] = agent[b],
           ran'[b] = ran[b], TurnsOf(b)' \subseteq TurnsOf(b), Starts(b)' \subseteq Starts(b),
           EndsKept(b),
           archived \subseteq archived',
           agent[b].pc \in Waiting /\ agent[b].reply = "none" /\ <<b, agent[b].n>> \in pending
               => <<b, agent[b].n>> \in pending'
    PROVE  Fine(b)'
<1>1. Turned(b)'
  <2> SUFFICES ASSUME Clean(b)' PROVE Turned(b)'
    BY DEF Turned
  <2>3. Clean(b)
    BY DEF Clean
  <2>a. Turned(b)
    BY DEF Fine
  <2>4. \A t \in TurnsOf(b)' :
           \/ agent[b].pc = "turn" /\ agent[b].reply \in {"none", "ok"} /\ t.turn = <<b, agent[b].n>>
           \/ agent[b].pc \in {"loop", "close"} /\ t.turn = active[b]
           \/ agent[b].pc \in {"intr", "cintr"} /\ agent[b].reply = "none" /\ t.turn = active[b]
    BY <2>3, <2>a DEF Turned
  <2>5. \A t, u \in TurnsOf(b)' : t = u
    BY <2>3, <2>a DEF Turned
  <2>6. \A r \in Starts(b)' : agent[b].pc = "turn" /\ agent[b].reply = "none" /\ r.id = <<b, agent[b].n>>
    BY <2>3, <2>a DEF Turned
  <2>7. \A i, j \in Ends(b)' : i = j
    BY <2>3, <2>a DEF Turned, EndsKept
  <2>b. Starts(b)' # {} => TurnsOf(b)' = {} /\ Ends(b)' = {}
    BY <2>3, <2>a DEF Turned, EndsKept
  <2>8. Ends(b)' # {} =>
         /\ TurnsOf(b)' = {}
         /\ \/ agent[b].pc \in {"loop", "intr", "cintr", "close", "arch", "done"}
            \/ agent[b].pc = "turn" /\ agent[b].reply \in {"none", "ok"}
            \/ agent[b].pc = "run" /\ agent[b].status = "interrupted"
    BY <2>3, <2>a DEF Turned, EndsKept
  <2>9. /\ agent[b].pc = "loop" => active[b] = agent[b].turn
        /\ agent[b].pc \in Waiting /\ agent[b].reply = "none" => <<b, agent[b].n>> \in pending
        /\ agent[b].pc \in Waiting => agent[b].reply \in {"none", "ok"}
                                       \/ (agent[b].reply = "error" /\ agent[b].pc \in {"intr", "cintr"})
    BY <2>3, <2>a DEF Turned
  <2> HIDE DEF Waiting
  <2> QED BY <2>4, <2>5, <2>6, <2>7, <2>8, <2>9, <2>b DEF Turned
<1>2. Accounts(b)'
  <2>1. Cardinality(Starts(b)') \in Nat /\ Cardinality(Starts(b)') <= Cardinality(Starts(b))
    BY FewerStarts
  <2>2. Cardinality(Starts(b)) \in Nat /\ ran[b] \in Nat /\ row[b].calls \in Nat
    BY StartsFinite DEF Types, RowType
  <2>3. Accounts(b)
    BY DEF Fine
  <2> QED BY <2>1, <2>2, <2>3 DEF Accounts
<1>3. Undisturbed(b)'
  BY DEF Undisturbed, Fine
<1> QED BY <1>1, <1>2, <1>3 DEF Fine
-----------------------------------------------------------------------------
(* A step of one agent that makes no request, or that makes one: what it   *)
(* leaves of the requests, the other agents and the readers.               *)
LEMMA CallsKept ==
    ASSUME Types, CallsOK, NEW a \in Agents, NEW q \in AgentType, agent' = [agent EXCEPT ![a] = q],
           agent[a].pc # "done", q.pc # "done" => q.n >= agent[a].n,
           q.pc \in {"idle", "spawn"} => q.n = 0 /\ q.reply = "none", agent[a].saw \subseteq q.saw,
           q.pc \in Waiting => q.pc = agent[a].pc /\ q.n = agent[a].n,
           Awaited(<<a, agent[a].n>>) => "cut" \in q.saw \/ <<a, agent[a].n>> \notin pending',
           pending' \subseteq pending \cup {<<a, agent[a].n + 1>>}, sent' = sent,
           \A b \in Agents : active'[b] # NoTurn => Owner(active'[b]) = b,
           \A b \in Agents \ {a} : active'[b] = active[b],
           q.pc \in Waiting => active'[a] = active[a]
    PROVE  CallsOK'
<1>1. agent[a] \in AgentType /\ agent[a].n \in Nat /\ q.n \in Nat /\ agent'[a] = q
      /\ \A b \in Agents \ {a} : agent'[b] = agent[b]
  BY DEF Types, AgentType
<1>2. ASSUME NEW r \in sent' PROVE CallOK(r)'
  <2>1. r \in sent /\ r.id \in Ids /\ CallOK(r) /\ Owner(r.id) \in Agents /\ r.id[2] \in Nat
        /\ r.id = <<Owner(r.id), r.id[2]>>
    BY <1>2, IdParts DEF CallsOK, Types, Request
  <2>2. CASE Owner(r.id) = a
    <3>1. r.id[2] <= agent[a].n /\ r.id[2] # agent[a].n + 1
      BY <1>1, <2>1, <2>2 DEF CallOK
    <3>2. r.id # <<a, agent[a].n + 1>>
      BY <2>1, <3>1
    <3>3. r.id \in pending' => r.id \in pending
      BY <3>2
    <3>4. q.pc # "done" => r.id[2] <= q.n
      BY <1>1, <2>1, <3>1
    <3>5. q.pc \in Waiting /\ r.id[2] = q.n =>
            r.method = MethodAt(q.pc) /\ (q.pc \in {"intr", "cintr"} => r.turn = active'[a])
      BY <2>1, <2>2 DEF CallOK
    <3>6. r.id \in pending' => Awaited(r.id)' \/ "cut" \in q.saw
      <4>1. SUFFICES ASSUME r.id \in pending', "cut" \notin q.saw PROVE FALSE
        OBVIOUS
      <4>2. "cut" \notin agent[a].saw
        BY <4>1
      <4>3. Awaited(r.id)
        BY <2>1, <2>2, <3>3, <4>1, <4>2 DEF CallOK
      <4>4. r.id[2] = agent[a].n
        BY <2>2, <4>3 DEF Awaited
      <4>5. r.id = <<a, agent[a].n>>
        BY <2>1, <2>2, <4>4
      <4> QED BY <4>1, <4>3, <4>5
    <3>7. r.id[2] > 0 /\ (r.method = "turn/interrupt" => r.turn # NoTurn /\ Owner(r.turn) = Owner(r.id))
      BY <2>1 DEF CallOK
    <3> QED BY <1>1, <2>2, <3>4, <3>5, <3>6, <3>7 DEF CallOK
  <2>3. CASE Owner(r.id) # a
    <3>1. agent'[Owner(r.id)] = agent[Owner(r.id)] /\ active'[Owner(r.id)] = active[Owner(r.id)]
      BY <1>1, <2>1, <2>3
    <3>2. r.id # <<a, agent[a].n + 1>>
      BY <2>3 DEF Owner
    <3>3. r.id \in pending' => r.id \in pending
      BY <3>2
    <3>4. Awaited(r.id) => Awaited(r.id)'
      BY <3>1 DEF Awaited
    <3> QED BY <2>1, <3>1, <3>3, <3>4 DEF CallOK
  <2> QED BY <2>2, <2>3
<1>3. \A r, s \in sent' : r.id = s.id => r = s
  BY DEF CallsOK
<1>4. \A b \in Agents : agent'[b].pc \in {"idle", "spawn"} => agent'[b].n = 0 /\ agent'[b].reply = "none"
  <2>1. \A b \in Agents : agent[b].pc \in {"idle", "spawn"} => agent[b].n = 0 /\ agent[b].reply = "none"
    BY DEF CallsOK
  <2> QED BY <1>1, <2>1
<1> QED BY <1>2, <1>3, <1>4 DEF CallsOK

LEMMA CallsAdded ==
    ASSUME Types, CallsOK, NEW a \in Agents, NEW q \in AgentType, agent' = [agent EXCEPT ![a] = q],
           agent[a].pc # "done", q.pc \in Waiting, q.n = agent[a].n + 1, q.reply = "none",
           agent[a].saw \subseteq q.saw,
           Awaited(<<a, agent[a].n>>) => "cut" \in q.saw,
           NEW r \in Request, r.id = <<a, agent[a].n + 1>>, r.method = MethodAt(q.pc),
           r.method = "turn/interrupt" => r.turn = active[a] /\ active[a] # NoTurn,
           pending' = pending \cup {r.id}, sent' = sent \cup {r}, active' = active
    PROVE  CallsOK'
<1>1. agent[a] \in AgentType /\ agent[a].n \in Nat /\ q.n \in Nat /\ agent'[a] = q
      /\ \A b \in Agents \ {a} : agent'[b] = agent[b]
  BY DEF Types, AgentType
<1>2. \A s \in sent : /\ s.id \in Ids /\ CallOK(s) /\ Owner(s.id) \in Agents /\ s.id[2] \in Nat
                      /\ s.id = <<Owner(s.id), s.id[2]>>
  BY IdParts DEF CallsOK, Types, Request
<1>3. \A s \in sent : Owner(s.id) = a => s.id[2] <= agent[a].n
  BY <1>1, <1>2 DEF CallOK
<1>4. \A s \in sent : s.id # r.id
  <2>1. ASSUME NEW s \in sent, s.id = r.id PROVE FALSE
    <3>1. Owner(s.id) = a /\ s.id[2] = agent[a].n + 1
      BY <2>1 DEF Owner
    <3>2. s.id[2] <= agent[a].n
      BY <3>1, <1>3
    <3> QED BY <3>1, <3>2, <1>1
  <2> QED BY <2>1
<1>5. ASSUME NEW s \in sent PROVE CallOK(s)'
  <2>1. CallOK(s) /\ s.id # r.id /\ (s.id \in pending' => s.id \in pending)
    BY <1>2, <1>4
  <2>2. CASE Owner(s.id) = a
    <3>1. s.id[2] <= agent[a].n /\ s.id[2] <= q.n /\ s.id[2] # q.n
      BY <1>1, <1>2, <1>3, <2>2
    <3>2. s.id \in pending' => Awaited(s.id)' \/ "cut" \in q.saw
      <4>1. SUFFICES ASSUME s.id \in pending', "cut" \notin q.saw PROVE FALSE
        OBVIOUS
      <4>2. "cut" \notin agent[a].saw
        BY <4>1
      <4>3. Awaited(s.id)
        BY <2>1, <2>2, <4>1, <4>2 DEF CallOK
      <4>4. s.id[2] = agent[a].n
        BY <2>2, <4>3 DEF Awaited
      <4>5. s.id = <<a, agent[a].n>>
        BY <1>2, <2>2, <4>4
      <4> QED BY <4>1, <4>3, <4>5
    <3>3. s.id[2] > 0 /\ (s.method = "turn/interrupt" => s.turn # NoTurn /\ Owner(s.turn) = Owner(s.id))
      BY <2>1 DEF CallOK
    <3> QED BY <1>1, <2>2, <3>1, <3>2, <3>3 DEF CallOK
  <2>3. CASE Owner(s.id) # a
    <3>1. agent'[Owner(s.id)] = agent[Owner(s.id)]
      BY <1>1, <1>2, <2>3
    <3>2. Awaited(s.id) => Awaited(s.id)'
      BY <3>1 DEF Awaited
    <3> QED BY <2>1, <3>1, <3>2 DEF CallOK
  <2> QED BY <2>2, <2>3
<1>6. CallOK(r)'
  <2>1. Owner(r.id) = a /\ r.id[2] = q.n /\ q.n > 0
    BY <1>1 DEF Owner
  <2>2. q.pc \in {"intr", "cintr"} => r.method = "turn/interrupt"
    BY DEF MethodAt
  <2>3. Awaited(r.id)'
    BY <1>1, <2>1 DEF Awaited
  <2>4. active[a] # NoTurn => Owner(active[a]) = a
    BY DEF CallsOK
  <2> QED BY <1>1, <2>1, <2>2, <2>3, <2>4 DEF CallOK
<1>7. \A s, t \in sent' : s.id = t.id => s = t
  BY <1>4 DEF CallsOK
<1>8. \A b \in Agents : /\ agent'[b].pc \in {"idle", "spawn"} => agent'[b].n = 0 /\ agent'[b].reply = "none"
                        /\ active'[b] # NoTurn => Owner(active'[b]) = b
  <2>1. \A b \in Agents : agent[b].pc \in {"idle", "spawn"} => agent[b].n = 0 /\ agent[b].reply = "none"
    BY DEF CallsOK
  <2>2. \A b \in Agents : active[b] # NoTurn => Owner(active[b]) = b
    BY DEF CallsOK
  <2>3. q.pc \notin {"idle", "spawn"}
    BY DEF Waiting
  <2> QED BY <1>1, <2>1, <2>2, <2>3
<1> QED BY <1>5, <1>6, <1>7, <1>8 DEF CallsOK

LEMMA OthersKept ==
    ASSUME Types, NEW a \in Agents, \A b \in Agents \ {a} : Fine(b),
           \A b \in Agents \ {a} : /\ agent'[b] = agent[b] /\ row'[b] = row[b] /\ active'[b] = active[b]
                                   /\ EndsKept(b),
           turns' = turns, ran' = ran, archived' = archived,
           \A r \in sent' : r \in sent \/ Owner(r.id) = a,
           \A id \in pending : Owner(id) # a => id \in pending'
    PROVE  \A b \in Agents \ {a} : Fine(b)'
<1> SUFFICES ASSUME NEW b \in Agents \ {a} PROVE Fine(b)'
  OBVIOUS
<1>1. b \in Agents /\ Fine(b) /\ agent'[b] = agent[b] /\ row'[b] = row[b] /\ active'[b] = active[b] /\ EndsKept(b)
  OBVIOUS
<1>2. TurnsOf(b)' \subseteq TurnsOf(b)
  BY DEF TurnsOf
<1>3. Starts(b)' \subseteq Starts(b)
  BY DEF Starts
<1>4. <<b, agent[b].n>> \in pending => <<b, agent[b].n>> \in pending'
  BY DEF Owner
<1> QED BY <1>1, <1>2, <1>3, <1>4, OthersFine

LEMMA SameEnds == queue' = queue => \A b \in Agents : EndsKept(b) /\ Ends(b)' = Ends(b)
BY DEF EndsKept, Ends

LEMMA SameReader ==
    ASSUME Types, ReaderSurvives, UNCHANGED <<proc, alive, readers, garbled>>,
           \A b \in Agents : agent[b].saw \subseteq agent'[b].saw
    PROVE  ReaderSurvives'
BY DEF ReaderSurvives
-----------------------------------------------------------------------------
(* The typed part of a step of one agent, and the step itself: a local one *)
(* and one with a request to a process that runs.                          *)
Stepping(a, q) ==
    /\ agent' = [agent EXCEPT ![a] = q] /\ agent[a].pc # "done" /\ agent[a].saw \subseteq q.saw
    /\ Awaited(<<a, agent[a].n>>) => "cut" \in q.saw \/ <<a, agent[a].n>> \notin pending'
    /\ row' \in [Agents -> RowType] /\ \A b \in Agents \ {a} : row'[b] = row[b]
    /\ active' \in [Agents -> Ids \cup {NoTurn}] /\ \A b \in Agents \ {a} : active'[b] = active[b]
    /\ active'[a] # NoTurn => Owner(active'[a]) = a
    /\ queue' \in Seq(Note) /\ \A b \in Agents \ {a} : EndsKept(b)
    /\ UNCHANGED <<turns, ran, archived, procs>> /\ errors' \in Nat

LEMMA AgentActs ==
    ASSUME Sound, NEW a \in Agents, NEW q \in AgentType, Stepping(a, q), sent' = sent,
           q.pc # "done" => q.n >= agent[a].n, q.pc \in {"idle", "spawn"} => q.n = 0 /\ q.reply = "none",
           q.pc \in Waiting => q.pc = agent[a].pc /\ q.n = agent[a].n /\ active'[a] = active[a],
           pending \subseteq pending' \cup {<<a, agent[a].n>>},
           pending' \subseteq pending \cup {<<a, agent[a].n + 1>>},
           Fine(a)'
    PROVE  Sound'
<1>1. Types /\ CallsOK /\ ReaderSurvives /\ \A b \in Agents : Fine(b)
  BY DEF Sound
<1>2. Types'
  BY <1>1 DEF Types, Stepping, procs
<1>3. \A b \in Agents : active'[b] # NoTurn => Owner(active'[b]) = b
  BY <1>1 DEF CallsOK, Stepping
<1>4. CallsOK'
  BY <1>1, <1>3, CallsKept DEF Stepping
<1>5. \A b \in Agents \ {a} : agent'[b] = agent[b] /\ row'[b] = row[b] /\ active'[b] = active[b]
                              /\ EndsKept(b)
  BY <1>1 DEF Types, Stepping
<1>6. \A id \in pending : Owner(id) # a => id \in pending'
  BY DEF Owner
<1>7. \A b \in Agents \ {a} : Fine(b)'
  BY <1>1, <1>5, <1>6, OthersKept DEF Stepping
<1>8. \A b \in Agents : agent[b].saw \subseteq agent'[b].saw
  BY <1>1 DEF Types, Stepping
<1>9. ReaderSurvives'
  BY <1>1, <1>8, SameReader DEF Stepping, procs
<1> QED BY <1>2, <1>4, <1>7, <1>9 DEF Sound

LEMMA AgentCalls ==
    ASSUME Sound, NEW a \in Agents, NEW q \in AgentType, Stepping(a, q), active' = active,
           q.pc \in Waiting, q.n = agent[a].n + 1, q.reply = "none",
           Awaited(<<a, agent[a].n>>) => "cut" \in q.saw,
           NEW r \in Request, r.id = <<a, agent[a].n + 1>>, r.method = MethodAt(q.pc),
           r.method = "turn/interrupt" => r.turn = active[a] /\ active[a] # NoTurn,
           pending' = pending \cup {r.id}, sent' = sent \cup {r},
           Fine(a)'
    PROVE  Sound'
<1>1. Types /\ CallsOK /\ ReaderSurvives /\ \A b \in Agents : Fine(b)
  BY DEF Sound
<1>2. Types'
  <2>1. IsFiniteSet(sent') /\ sent' \subseteq Request
    BY <1>1, FS_AddElement DEF Types
  <2> QED BY <1>1, <2>1 DEF Types, Stepping, procs
<1>4. CallsOK'
  BY <1>1, CallsAdded DEF Stepping
<1>5. \A b \in Agents \ {a} : agent'[b] = agent[b] /\ row'[b] = row[b] /\ active'[b] = active[b]
                              /\ EndsKept(b)
  BY <1>1 DEF Types, Stepping
<1>6. Owner(r.id) = a
  BY DEF Owner
<1>7. \A b \in Agents \ {a} : Fine(b)'
  BY <1>1, <1>5, <1>6, OthersKept DEF Stepping
<1>8. \A b \in Agents : agent[b].saw \subseteq agent'[b].saw
  BY <1>1 DEF Types, Stepping
<1>9. ReaderSurvives'
  BY <1>1, <1>8, SameReader DEF Stepping, procs
<1> QED BY <1>2, <1>4, <1>7, <1>9 DEF Sound
-----------------------------------------------------------------------------
(* What a step of one agent leaves as it is.                               *)
LEMMA OwnWork ==
    ASSUME UNCHANGED <<turns, ran, sent, queue>>
    PROVE  \A a \in Agents : /\ TurnsOf(a)' = TurnsOf(a) /\ Starts(a)' = Starts(a)
                             /\ Ends(a)' = Ends(a) /\ EndsKept(a)
BY DEF TurnsOf, Starts, Ends, EndsKept

LEMMA Known ==
    ASSUME Sound, NEW a \in Agents
    PROVE  /\ Types /\ CallsOK /\ Turned(a) /\ Accounts(a) /\ Undisturbed(a)
           /\ agent[a] \in AgentType /\ agent[a].n \in Nat
           /\ agent[a].saw \subseteq {"failed", "cut", "overran", "cancelled"}
           /\ agent[a].outcome \in Outcomes /\ agent[a].status \in Statuses
           /\ row[a] \in RowType /\ row[a].calls \in Nat /\ row[a].failures \in Nat /\ ran[a] \in Nat
           /\ active[a] \in Ids \cup {NoTurn} /\ (active[a] # NoTurn => Owner(active[a]) = a)
           /\ queue \in Seq(Note) /\ errors \in Nat
           /\ active \in [Agents -> Ids \cup {NoTurn}] /\ row \in [Agents -> RowType]
BY DEF Sound, Fine, Types, AgentType, RowType, CallsOK

LEMMA Unclean ==
    ASSUME NEW a \in Agents, "failed" \in agent'[a].saw \/ "cut" \in agent'[a].saw
    PROVE  Turned(a)' /\ Undisturbed(a)'
BY DEF Turned, Undisturbed, Clean

LEMMA AccountsKept ==
    ASSUME Types, NEW a \in Agents, Accounts(a), NEW q, agent'[a] = q, row'[a] = row[a],
           Starts(a)' = Starts(a), ran' = ran, agent[a].saw \subseteq q.saw,
           agent[a].pc \in InAttempt => q.pc \in InAttempt \/ "cancelled" \in q.saw,
           q.pc \notin {"close", "cintr", "arch", "done"} =>
               agent[a].pc \notin {"close", "cintr", "arch", "done"} /\ q.outcome = "none"
               /\ ("cancelled" \in q.saw => "cancelled" \in agent[a].saw),
           q.outcome = agent[a].outcome \/ q.outcome \notin {"none", "answer"}
    PROVE  Accounts(a)'
<1>1. /\ Cardinality(Starts(a)) \in Nat /\ Cardinality(Starts(a)') = Cardinality(Starts(a))
      /\ ran[a] \in Nat /\ row[a].calls \in Nat
  BY StartsFinite DEF Types, RowType
<1>2. Cardinality(Starts(a)') + ran'[a] <= row[a].calls + (IF q.pc \in InAttempt THEN 1 ELSE 0)
                                          + (IF "cancelled" \in q.saw THEN 1 ELSE 0)
  BY <1>1 DEF Accounts, InAttempt
<1> QED BY <1>2 DEF Accounts

LEMMA AccountsFailed ==
    ASSUME Types, NEW a \in Agents, Accounts(a), NEW q, agent'[a] = q, NEW me \in AgentType,
           row' = Failed(a, me), Starts(a)' = Starts(a), ran' = ran, agent[a].saw \subseteq q.saw,
           agent[a].pc \notin {"close", "cintr", "arch", "done"},
           \/ q.pc = "run" /\ "cancelled" \notin q.saw /\ q.outcome = "none"
           \/ q.pc = "close" /\ q.outcome \notin {"none", "answer"}
    PROVE  /\ Accounts(a)' /\ row' \in [Agents -> RowType] /\ \A b \in Agents \ {a} : row'[b] = row[b]
<1>1. /\ Cardinality(Starts(a)) \in Nat /\ Cardinality(Starts(a)') = Cardinality(Starts(a))
      /\ ran[a] \in Nat /\ row[a] \in RowType /\ row[a].calls \in Nat /\ row[a].failures \in Nat
      /\ row \in [Agents -> RowType]
  BY StartsFinite DEF Types, RowType
<1> DEFINE w == [status |-> me.status, calls |-> row[a].calls + 1, failures |-> row[a].failures + 1]
<1>3. w \in RowType /\ row' = [row EXCEPT ![a] = w]
  BY <1>1 DEF RowType, AgentType, Failed
<1>4. row' \in [Agents -> RowType] /\ row'[a] = w /\ \A b \in Agents \ {a} : row'[b] = row[b]
  BY <1>1, <1>3
<1>5. row'[a].calls = row[a].calls + 1 /\ row'[a].failures = row[a].failures + 1
  BY <1>4
<1>6. Cardinality(Starts(a)') + ran'[a] <= row'[a].calls + (IF q.pc \in InAttempt THEN 1 ELSE 0)
                                          + (IF "cancelled" \in q.saw THEN 1 ELSE 0)
  BY <1>1, <1>5 DEF Accounts, InAttempt
<1>7. row[a].failures = row[a].calls
  BY DEF Accounts
<1>8. q.outcome = "none" => row'[a].failures = row'[a].calls
  BY <1>5, <1>7
<1> QED BY <1>4, <1>6, <1>8 DEF Accounts, InAttempt
-----------------------------------------------------------------------------
LEMMA BeginKept == ASSUME Sound, NEW a \in Agents, Begin(a) PROVE Sound'
<1>1. /\ Types /\ CallsOK /\ Turned(a) /\ Accounts(a) /\ Undisturbed(a)
      /\ agent[a] \in AgentType /\ agent[a].n \in Nat /\ queue \in Seq(Note) /\ errors \in Nat
      /\ active \in [Agents -> Ids \cup {NoTurn}] /\ row \in [Agents -> RowType]
      /\ (active[a] # NoTurn => Owner(active[a]) = a) /\ active[a] \in Ids \cup {NoTurn}
  BY Known
<1>2. agent[a].pc = "idle" /\ agent[a].n = 0 /\ agent[a].reply = "none" /\ agent[a].outcome = "none"
  BY <1>1 DEF Begin, At, CallsOK, Accounts
<1>3. UNCHANGED <<row, active, queue, turns, ran, archived, procs, errors>>
  BY DEF Begin, bounds
<1>4. Awaited(<<a, agent[a].n>>) = FALSE
  BY <1>2 DEF Awaited, Owner, Waiting
<1>5. \A b \in Agents : EndsKept(b) /\ Ends(b)' = Ends(b)
  BY <1>3, SameEnds
<1>6. TurnsOf(a)' = TurnsOf(a)
  BY <1>3 DEF TurnsOf
<1>7. CASE proc = 0
  <2> DEFINE q == [agent[a] EXCEPT !.pc = "spawn"]
  <2>1. /\ q \in AgentType /\ q.pc = "spawn" /\ q.n = 0 /\ q.reply = agent[a].reply /\ q.status = agent[a].status
        /\ q.outcome = agent[a].outcome /\ q.saw = agent[a].saw /\ q.turn = agent[a].turn
    BY <1>1, <1>2 DEF AgentType, Pcs
  <2>2. agent' = [agent EXCEPT ![a] = q] /\ UNCHANGED <<pending, sent>>
    BY <1>7 DEF Begin, Become
  <2> HIDE DEF q
  <2>3. agent'[a] = q /\ Starts(a)' = Starts(a)
    BY <1>1, <2>2 DEF Types, Starts
  <2>4. Turned(a)'
    BY <1>1, <1>2, <1>3, <1>5, <1>6, <2>1, <2>3 DEF Turned, Clean, Waiting
  <2>5. Accounts(a)'
    BY <1>1, <1>2, <1>3, <2>1, <2>3, AccountsKept DEF InAttempt
  <2>6. Undisturbed(a)'
    BY <1>1, <1>2, <1>3, <2>1, <2>3 DEF Undisturbed, Waiting
  <2>7. Stepping(a, q)
    BY <1>1, <1>2, <1>3, <1>4, <1>5, <2>1, <2>2 DEF Stepping
  <2>8. q.pc \notin Waiting
    BY <2>1 DEF Waiting
  <2> QED BY <1>2, <2>1, <2>2, <2>4, <2>5, <2>6, <2>7, <2>8, AgentActs DEF Fine
<1>8. CASE proc # 0
  <2> DEFINE broken == Broken(agent[a])
  <2>1. broken \in AgentType /\ broken.pc = "done" /\ broken.outcome = "broken" /\ broken.saw = agent[a].saw
    BY <1>1, Ended DEF Broken, Outcomes
  <2>2. Call(a, agent[a], "thread/start", "thread", broken)
    BY <1>8 DEF Begin
  <2> HIDE DEF broken
  <2>3. "thread/start" \in Methods /\ "thread" \in Waiting
    BY DEF Methods, Waiting
  <2>a. PICK q \in AgentType, r \in Request : CallMakes(a, agent[a], "thread/start", "thread", broken, q, r)
    BY <1>1, <2>1, <2>2, <2>3, Called
  <2>4. /\ agent' = [agent EXCEPT ![a] = q] /\ pending' = pending \cup {r.id}
        /\ r.id = <<a, agent[a].n + 1>> /\ r.method = "thread/start" /\ r.turn = active[a]
        /\ q.n = agent[a].n + 1
        /\ \/ /\ proc \in alive /\ sent' = sent \cup {r}
              /\ q.pc = "thread" /\ q.reply = "none" /\ q.status = agent[a].status /\ q.turn = agent[a].turn
              /\ q.outcome = agent[a].outcome /\ q.saw = agent[a].saw
           \/ /\ proc \notin alive /\ sent' = sent
              /\ q.pc = broken.pc /\ q.reply = broken.reply /\ q.status = broken.status
              /\ q.outcome = broken.outcome /\ q.saw = broken.saw \cup {"failed"}
    BY <2>a DEF CallMakes
  <2>5. agent'[a] = q /\ agent[a].saw \subseteq q.saw
    BY <1>1, <2>1, <2>4 DEF Types
  <2>6. Stepping(a, q)
    BY <1>1, <1>2, <1>3, <1>4, <1>5, <2>4, <2>5 DEF Stepping
  <2>7. CASE proc \in alive
    <3>1. /\ q.pc = "thread" /\ q.reply = "none" /\ q.outcome = agent[a].outcome /\ q.saw = agent[a].saw
          /\ q.status = agent[a].status /\ sent' = sent \cup {r}
      BY <2>4, <2>7
    <3>2. Starts(a)' = Starts(a)
      BY <2>4, <3>1 DEF Starts
    <3>3. Turned(a)'
      BY <1>1, <1>2, <1>3, <1>5, <1>6, <2>4, <2>5, <3>1, <3>2 DEF Turned, Clean, Waiting
    <3>4. Accounts(a)'
      BY <1>1, <1>2, <1>3, <2>5, <3>1, <3>2, AccountsKept DEF InAttempt
    <3>5. Undisturbed(a)'
      BY <1>1, <1>2, <1>3, <2>5, <3>1 DEF Undisturbed, Waiting
    <3>6. r.method = MethodAt(q.pc) /\ q.pc \in Waiting
      BY <2>4, <3>1 DEF MethodAt, Waiting
    <3> QED BY <1>3, <1>4, <2>4, <2>6, <3>1, <3>3, <3>4, <3>5, <3>6, AgentCalls DEF Fine
  <2>8. CASE proc \notin alive
    <3>1. q.pc = "done" /\ q.outcome = "broken" /\ "failed" \in q.saw /\ sent' = sent /\ Starts(a)' = Starts(a)
      BY <2>1, <2>4, <2>8 DEF Starts
    <3>2. Turned(a)' /\ Undisturbed(a)'
      BY <2>5, <3>1, Unclean
    <3>3. Accounts(a)'
      BY <1>1, <1>2, <1>3, <2>5, <3>1, AccountsKept DEF InAttempt
    <3>4. q.pc \notin Waiting \cup {"idle", "spawn"}
      BY <3>1 DEF Waiting
    <3> QED BY <1>3, <1>4, <2>4, <2>6, <3>1, <3>2, <3>3, <3>4, AgentActs DEF Fine
  <2> QED BY <2>7, <2>8
<1> QED BY <1>7, <1>8
-----------------------------------------------------------------------------
(* A call of an agent to a process that has exited, and the other steps    *)
(* that end an agent call or one of its waits.                             *)
LEMMA AgentFails ==
    ASSUME Sound, NEW a \in Agents, NEW q \in AgentType, Stepping(a, q), sent' = sent,
           pending' = pending \cup {<<a, agent[a].n + 1>>},
           q.pc \in {"done", "run", "close"}, q.n = agent[a].n + 1, "failed" \in q.saw, Accounts(a)'
    PROVE  Sound'
<1>1. agent'[a] = q /\ agent[a].n \in Nat
  BY Known DEF Stepping, Types, Sound
<1>2. Turned(a)' /\ Undisturbed(a)'
  BY <1>1, Unclean
<1>3. q.pc \notin Waiting \cup {"idle", "spawn"} /\ q.n >= agent[a].n
  BY <1>1 DEF Waiting
<1> QED BY <1>2, <1>3, AgentActs DEF Fine

(* The end of a wait, and the steps between two waits, leave the futures.  *)
LEMMA AgentMoves ==
    ASSUME Sound, NEW a \in Agents, NEW q \in AgentType, Stepping(a, q), UNCHANGED <<sent, pending>>,
           q.pc \in {"run", "loop", "close", "done"}, q.pc = "done" \/ q.n = agent[a].n, Fine(a)'
    PROVE  Sound'
<1>1. agent[a].n \in Nat
  BY Known
<1>2. q.pc \notin Waiting \cup {"idle", "spawn"} /\ (q.pc # "done" => q.n >= agent[a].n)
  BY <1>1 DEF Waiting
<1> QED BY <1>2, AgentActs

LEMMA SessionStartedKept == ASSUME Sound, NEW a \in Agents, SessionStarted(a) PROVE Sound'
<1>1. /\ Types /\ CallsOK /\ Turned(a) /\ Accounts(a) /\ Undisturbed(a)
      /\ agent[a] \in AgentType /\ agent[a].n \in Nat /\ queue \in Seq(Note) /\ errors \in Nat
      /\ active \in [Agents -> Ids \cup {NoTurn}] /\ row \in [Agents -> RowType]
      /\ (active[a] # NoTurn => Owner(active[a]) = a) /\ active[a] \in Ids \cup {NoTurn}
      /\ row[a] \in RowType
  BY Known
<1>2. agent[a].pc = "thread" /\ agent[a].reply # "none" /\ agent[a].outcome = "none"
      /\ agent[a].pc \in Waiting
  BY <1>1 DEF SessionStarted, At, Accounts, Waiting
<1>3. UNCHANGED <<pending, active, queue, turns, ran, archived, sent, procs, errors>>
  BY DEF SessionStarted, bounds, server
<1>4. Awaited(<<a, agent[a].n>>) = FALSE
  BY <1>2 DEF Awaited, Owner
<1>5. \A b \in Agents : TurnsOf(b)' = TurnsOf(b) /\ Starts(b)' = Starts(b) /\ Ends(b)' = Ends(b) /\ EndsKept(b)
  BY <1>3, OwnWork
<1>6. CASE agent[a].reply = "ok"
  <2> DEFINE q == [agent[a] EXCEPT !.pc = "run"]
             w == [row[a] EXCEPT !.status = "active"]
  <2>1. /\ q \in AgentType /\ q.pc = "run" /\ q.n = agent[a].n /\ q.status = agent[a].status
        /\ q.outcome = agent[a].outcome /\ q.saw = agent[a].saw
    BY <1>1 DEF AgentType, Pcs
  <2>2. w \in RowType /\ w.calls = row[a].calls /\ w.failures = row[a].failures
    BY <1>1 DEF RowType, Statuses
  <2>3. agent' = [agent EXCEPT ![a] = q]
    BY <1>6 DEF SessionStarted, Become
  <2>4. row' = [row EXCEPT ![a] = w]
    BY <1>1, <1>6 DEF SessionStarted, Opened
  <2> HIDE DEF q, w
  <2>5. agent'[a] = q /\ row'[a] = w
    BY <1>1, <2>3, <2>4 DEF Types
  <2>6. Turned(a)'
    BY <1>1, <1>2, <1>3, <1>5, <2>1, <2>5 DEF Turned, Clean, Waiting
  <2>7. Cardinality(Starts(a)) \in Nat /\ ran[a] \in Nat /\ row[a].calls \in Nat
    BY <1>1, StartsFinite DEF Types, RowType
  <2>8. Accounts(a)'
    BY <1>1, <1>2, <1>3, <1>5, <2>1, <2>2, <2>5, <2>7 DEF Accounts, InAttempt
  <2>9. Undisturbed(a)'
    BY <1>1, <1>2, <1>3, <2>1, <2>5 DEF Undisturbed, Waiting
  <2>10. Stepping(a, q)
    BY <1>1, <1>2, <1>3, <1>4, <1>5, <2>1, <2>2, <2>3, <2>4 DEF Stepping
  <2> QED BY <1>3, <2>1, <2>6, <2>8, <2>9, <2>10, AgentMoves DEF Fine
<1>7. CASE agent[a].reply # "ok"
  <2> DEFINE q == Done(agent[a], Error(agent[a].reply))
  <2>1. agent[a].reply \in {"ok", "error", "late", "gone", "odd"}
    BY <1>1, <1>2 DEF AgentType
  <2>2. Error(agent[a].reply) \in Outcomes \ {"none", "answer"}
    BY <1>7, <2>1, Errors
  <2>3. /\ q \in AgentType /\ q.pc = "done" /\ q.outcome = Error(agent[a].reply) /\ q.saw = agent[a].saw
    BY <1>1, <2>2, Ended
  <2>4. agent' = [agent EXCEPT ![a] = q] /\ row' = row
    BY <1>7 DEF SessionStarted, Become
  <2> HIDE DEF q
  <2>5. agent'[a] = q
    BY <1>1, <2>4 DEF Types
  <2>6. Turned(a)'
    BY <1>1, <1>2, <1>3, <1>5, <2>3, <2>5 DEF Turned, Clean, Waiting
  <2>7. Accounts(a)'
    BY <1>1, <1>2, <1>3, <1>5, <2>2, <2>3, <2>4, <2>5, AccountsKept DEF InAttempt
  <2>8. Undisturbed(a)'
    BY <1>1, <1>2, <1>3, <1>7, <2>1, <2>3, <2>5 DEF Undisturbed, Waiting
  <2>9. Stepping(a, q)
    BY <1>1, <1>2, <1>3, <1>4, <1>5, <2>3, <2>4 DEF Stepping
  <2> QED BY <1>3, <2>3, <2>6, <2>7, <2>8, <2>9, AgentMoves DEF Fine
<1> QED BY <1>6, <1>7
LEMMA InitializedKept == ASSUME Sound, NEW a \in Agents, Initialized(a) PROVE Sound'
<1>1. /\ Types /\ CallsOK /\ Turned(a) /\ Accounts(a) /\ Undisturbed(a)
      /\ agent[a] \in AgentType /\ agent[a].n \in Nat /\ queue \in Seq(Note) /\ errors \in Nat
      /\ active \in [Agents -> Ids \cup {NoTurn}] /\ row \in [Agents -> RowType]
      /\ (active[a] # NoTurn => Owner(active[a]) = a) /\ active[a] \in Ids \cup {NoTurn}
      /\ row[a] \in RowType
  BY Known
<1>2. agent[a].pc = "init" /\ agent[a].reply # "none" /\ agent[a].outcome = "none"
  BY <1>1 DEF Initialized, At, Accounts
<1>3. UNCHANGED <<row, active, queue, turns, ran, archived, procs, errors>>
  BY DEF Initialized, bounds
<1>4. Awaited(<<a, agent[a].n>>) = FALSE
  BY <1>2 DEF Awaited, Owner, Waiting
<1>5. \A b \in Agents : EndsKept(b) /\ Ends(b)' = Ends(b)
  BY <1>3, SameEnds
<1>6. TurnsOf(a)' = TurnsOf(a)
  BY <1>3 DEF TurnsOf
<1>7. CASE agent[a].reply = "ok"
  <2> DEFINE broken == Broken(agent[a])
  <2>1. broken \in AgentType /\ broken.pc = "done" /\ broken.outcome = "broken" /\ broken.saw = agent[a].saw
    BY <1>1, Ended DEF Broken, Outcomes
  <2>2. Call(a, agent[a], "thread/start", "thread", broken)
    BY <1>7 DEF Initialized
  <2> HIDE DEF broken
  <2>3. "thread/start" \in Methods /\ "thread" \in Waiting
    BY DEF Methods, Waiting
  <2>a. PICK q \in AgentType, r \in Request : CallMakes(a, agent[a], "thread/start", "thread", broken, q, r)
    BY <1>1, <2>1, <2>2, <2>3, Called
  <2>4. /\ agent' = [agent EXCEPT ![a] = q] /\ pending' = pending \cup {r.id}
       /\ r.id = <<a, agent[a].n + 1>> /\ r.method = "thread/start" /\ r.turn = active[a] /\ q.n = agent[a].n + 1
       /\ \/ /\ proc \in alive /\ sent' = sent \cup {r}
             /\ q.pc = "thread" /\ q.reply = "none" /\ q.status = agent[a].status /\ q.turn = agent[a].turn
             /\ q.outcome = agent[a].outcome /\ q.saw = agent[a].saw
          \/ /\ proc \notin alive /\ sent' = sent
             /\ q.pc = broken.pc /\ q.outcome = broken.outcome /\ q.saw = broken.saw \cup {"failed"}
    BY <2>a DEF CallMakes
  <2>5. agent'[a] = q /\ agent[a].saw \subseteq q.saw
    BY <1>1, <2>1, <2>4 DEF Types
  <2>6. Stepping(a, q)
    BY <1>1, <1>2, <1>3, <1>4, <1>5, <2>4, <2>5 DEF Stepping
  <2>7. CASE proc \in alive
    <3>1. /\ q.pc = "thread" /\ q.reply = "none" /\ q.outcome = agent[a].outcome /\ q.saw = agent[a].saw
          /\ q.status = agent[a].status /\ q.turn = agent[a].turn /\ sent' = sent \cup {r}
      BY <2>4, <2>7
    <3>2. Starts(a)' = Starts(a)
      BY <2>4, <3>1 DEF Starts
    <3>3. Turned(a)'
      BY <1>1, <1>2, <1>3, <1>5, <1>6, <2>4, <2>5, <3>1, <3>2 DEF Turned, Clean, Waiting
    <3>4. Accounts(a)'
      BY <1>1, <1>2, <1>3, <2>5, <3>1, <3>2, AccountsKept DEF InAttempt
    <3>5. Undisturbed(a)'
      BY <1>1, <1>2, <1>3, <2>5, <3>1 DEF Undisturbed, Waiting
    <3>6. r.method = MethodAt(q.pc) /\ q.pc \in Waiting
      BY <2>4, <3>1 DEF MethodAt, Waiting
    <3> QED BY <1>3, <1>4, <2>4, <2>6, <3>1, <3>3, <3>4, <3>5, <3>6, AgentCalls DEF Fine
  <2>8. CASE proc \notin alive
    <3>1. q.pc = "done" /\ q.outcome = "broken" /\ "failed" \in q.saw /\ sent' = sent /\ Starts(a)' = Starts(a)
      BY <2>1, <2>4, <2>8 DEF Starts
    <3>2. Accounts(a)'
      BY <1>1, <1>2, <1>3, <2>5, <3>1, AccountsKept DEF InAttempt
    <3> QED BY <2>4, <2>6, <3>1, <3>2, AgentFails
  <2> QED BY <2>7, <2>8
<1>8. CASE agent[a].reply # "ok"
  <2> DEFINE q == Done(agent[a], Error(agent[a].reply))
  <2>1. agent[a].reply \in {"ok", "error", "late", "gone", "odd"}
    BY <1>1, <1>2 DEF AgentType
  <2>2. Error(agent[a].reply) \in Outcomes \ {"none", "answer"}
    BY <1>8, <2>1, Errors
  <2>3. /\ q \in AgentType /\ q.pc = "done" /\ q.outcome = Error(agent[a].reply) /\ q.saw = agent[a].saw
    BY <1>1, <2>2, Ended
  <2>4. agent' = [agent EXCEPT ![a] = q] /\ row' = row /\ UNCHANGED <<pending, sent>>
    BY <1>8, <1>3 DEF Initialized, Become
  <2> HIDE DEF q
  <2>5. agent'[a] = q
    BY <1>1, <2>4 DEF Types
  <2>s. Starts(a)' = Starts(a)
    BY <2>4 DEF Starts
  <2>6. Turned(a)'
    BY <1>1, <1>2, <1>3, <1>5, <1>6, <1>8, <2>1, <2>3, <2>5, <2>s DEF Turned, Clean, Waiting
  <2>7. Accounts(a)'
    BY <1>1, <1>2, <1>3, <2>2, <2>3, <2>4, <2>5, <2>s, AccountsKept DEF InAttempt
  <2>8. Undisturbed(a)'
    BY <1>1, <1>2, <1>3, <1>8, <2>1, <2>3, <2>5 DEF Undisturbed, Waiting
  <2>9. Stepping(a, q)
    BY <1>1, <1>2, <1>3, <1>4, <1>5, <2>3, <2>4 DEF Stepping
  <2> QED BY <2>3, <2>4, <2>6, <2>7, <2>8, <2>9, AgentMoves DEF Fine
<1> QED BY <1>7, <1>8

LEMMA CloseSessionKept == ASSUME Sound, NEW a \in Agents, CloseSession(a) PROVE Sound'
<1>1. /\ Types /\ CallsOK /\ Turned(a) /\ Accounts(a) /\ Undisturbed(a)
      /\ agent[a] \in AgentType /\ agent[a].n \in Nat /\ queue \in Seq(Note) /\ errors \in Nat
      /\ active \in [Agents -> Ids \cup {NoTurn}] /\ row \in [Agents -> RowType]
      /\ (active[a] # NoTurn => Owner(active[a]) = a) /\ active[a] \in Ids \cup {NoTurn}
      /\ row[a] \in RowType
  BY Known
<1>2. agent[a].pc = "close"
  BY DEF CloseSession, At
<1>3. UNCHANGED <<row, active, queue, turns, ran, archived, procs, errors>>
  BY DEF CloseSession, bounds
<1>4. Awaited(<<a, agent[a].n>>) = FALSE
  BY <1>2 DEF Awaited, Owner, Waiting
<1>5. \A b \in Agents : EndsKept(b) /\ Ends(b)' = Ends(b)
  BY <1>3, SameEnds
<1>6. TurnsOf(a)' = TurnsOf(a)
  BY <1>3 DEF TurnsOf
<1>7. CASE active[a] # NoTurn
  <2> DEFINE broken == Broken(agent[a])
  <2>1. broken \in AgentType /\ broken.pc = "done" /\ broken.outcome = "broken" /\ broken.saw = agent[a].saw
    BY <1>1, Ended DEF Broken, Outcomes
  <2>2. Call(a, agent[a], "turn/interrupt", "cintr", broken)
    BY <1>7 DEF CloseSession
  <2> HIDE DEF broken
  <2>3. "turn/interrupt" \in Methods /\ "cintr" \in Waiting
    BY DEF Methods, Waiting
  <2>a. PICK q \in AgentType, r \in Request : CallMakes(a, agent[a], "turn/interrupt", "cintr", broken, q, r)
    BY <1>1, <2>1, <2>2, <2>3, Called
  <2>4. /\ agent' = [agent EXCEPT ![a] = q] /\ pending' = pending \cup {r.id}
       /\ r.id = <<a, agent[a].n + 1>> /\ r.method = "turn/interrupt" /\ r.turn = active[a] /\ q.n = agent[a].n + 1
       /\ \/ /\ proc \in alive /\ sent' = sent \cup {r}
             /\ q.pc = "cintr" /\ q.reply = "none" /\ q.status = agent[a].status /\ q.turn = agent[a].turn
             /\ q.outcome = agent[a].outcome /\ q.saw = agent[a].saw
          \/ /\ proc \notin alive /\ sent' = sent
             /\ q.pc = broken.pc /\ q.outcome = broken.outcome /\ q.saw = broken.saw \cup {"failed"}
    BY <2>a DEF CallMakes
  <2>5. agent'[a] = q /\ agent[a].saw \subseteq q.saw
    BY <1>1, <2>1, <2>4 DEF Types
  <2>6. Stepping(a, q)
    BY <1>1, <1>2, <1>3, <1>4, <1>5, <2>4, <2>5 DEF Stepping
  <2>7. CASE proc \in alive
    <3>1. /\ q.pc = "cintr" /\ q.reply = "none" /\ q.outcome = agent[a].outcome /\ q.saw = agent[a].saw
          /\ q.status = agent[a].status /\ q.turn = agent[a].turn /\ sent' = sent \cup {r}
      BY <2>4, <2>7
    <3>2. Starts(a)' = Starts(a)
      BY <2>4, <3>1 DEF Starts
    <3>3. Turned(a)'
      BY <1>1, <1>2, <1>3, <1>5, <1>6, <2>4, <2>5, <3>1, <3>2, <1>7 DEF Turned, Clean, Waiting
    <3>4. Accounts(a)'
      BY <1>1, <1>2, <1>3, <2>5, <3>1, <3>2, AccountsKept DEF InAttempt
    <3>5. Undisturbed(a)'
      BY <1>1, <1>2, <1>3, <2>5, <3>1, <1>7 DEF Undisturbed, Waiting
    <3>6. r.method = MethodAt(q.pc) /\ q.pc \in Waiting
      BY <2>4, <3>1 DEF MethodAt, Waiting
    <3> QED BY <1>3, <1>4, <2>4, <2>6, <3>1, <3>3, <3>4, <3>5, <3>6, <1>7, AgentCalls DEF Fine
  <2>8. CASE proc \notin alive
    <3>1. q.pc = "done" /\ q.outcome = "broken" /\ "failed" \in q.saw /\ sent' = sent /\ Starts(a)' = Starts(a)
      BY <2>1, <2>4, <2>8 DEF Starts
    <3>2. Accounts(a)'
      BY <1>1, <1>2, <1>3, <2>5, <3>1, AccountsKept DEF InAttempt
    <3> QED BY <2>4, <2>6, <3>1, <3>2, AgentFails
  <2> QED BY <2>7, <2>8
<1>8. CASE active[a] = NoTurn
  <2>n. Clean(a) => TurnsOf(a) = {}
    <3>1. \A t \in TurnsOf(a) : t.turn # NoTurn
      BY <1>1, NoTurnIsNoId DEF TurnsOf, Types
    <3> QED BY <1>1, <1>2, <1>8, <3>1 DEF Turned
  <2> DEFINE broken == Broken(agent[a])
  <2>1. broken \in AgentType /\ broken.pc = "done" /\ broken.outcome = "broken" /\ broken.saw = agent[a].saw
    BY <1>1, Ended DEF Broken, Outcomes
  <2>2. Call(a, agent[a], "thread/archive", "arch", broken)
    BY <1>8 DEF CloseSession
  <2> HIDE DEF broken
  <2>3. "thread/archive" \in Methods /\ "arch" \in Waiting
    BY DEF Methods, Waiting
  <2>a. PICK q \in AgentType, r \in Request : CallMakes(a, agent[a], "thread/archive", "arch", broken, q, r)
    BY <1>1, <2>1, <2>2, <2>3, Called
  <2>4. /\ agent' = [agent EXCEPT ![a] = q] /\ pending' = pending \cup {r.id}
       /\ r.id = <<a, agent[a].n + 1>> /\ r.method = "thread/archive" /\ r.turn = active[a] /\ q.n = agent[a].n + 1
       /\ \/ /\ proc \in alive /\ sent' = sent \cup {r}
             /\ q.pc = "arch" /\ q.reply = "none" /\ q.status = agent[a].status /\ q.turn = agent[a].turn
             /\ q.outcome = agent[a].outcome /\ q.saw = agent[a].saw
          \/ /\ proc \notin alive /\ sent' = sent
             /\ q.pc = broken.pc /\ q.outcome = broken.outcome /\ q.saw = broken.saw \cup {"failed"}
    BY <2>a DEF CallMakes
  <2>5. agent'[a] = q /\ agent[a].saw \subseteq q.saw
    BY <1>1, <2>1, <2>4 DEF Types
  <2>6. Stepping(a, q)
    BY <1>1, <1>2, <1>3, <1>4, <1>5, <2>4, <2>5 DEF Stepping
  <2>7. CASE proc \in alive
    <3>1. /\ q.pc = "arch" /\ q.reply = "none" /\ q.outcome = agent[a].outcome /\ q.saw = agent[a].saw
          /\ q.status = agent[a].status /\ q.turn = agent[a].turn /\ sent' = sent \cup {r}
      BY <2>4, <2>7
    <3>2. Starts(a)' = Starts(a)
      BY <2>4, <3>1 DEF Starts
    <3>3. Turned(a)'
      BY <1>1, <1>2, <1>3, <1>5, <1>6, <2>4, <2>5, <3>1, <3>2, <1>8, <2>n DEF Turned, Clean, Waiting
    <3>4. Accounts(a)'
      BY <1>1, <1>2, <1>3, <2>5, <3>1, <3>2, AccountsKept DEF InAttempt
    <3>5. Undisturbed(a)'
      BY <1>1, <1>2, <1>3, <2>5, <3>1, <1>8, <2>n DEF Undisturbed, Waiting
    <3>6. r.method = MethodAt(q.pc) /\ q.pc \in Waiting
      BY <2>4, <3>1 DEF MethodAt, Waiting
    <3> QED BY <1>3, <1>4, <2>4, <2>6, <3>1, <3>3, <3>4, <3>5, <3>6, <1>8, <2>n, AgentCalls DEF Fine
  <2>8. CASE proc \notin alive
    <3>1. q.pc = "done" /\ q.outcome = "broken" /\ "failed" \in q.saw /\ sent' = sent /\ Starts(a)' = Starts(a)
      BY <2>1, <2>4, <2>8 DEF Starts
    <3>2. Accounts(a)'
      BY <1>1, <1>2, <1>3, <2>5, <3>1, AccountsKept DEF InAttempt
    <3> QED BY <2>4, <2>6, <3>1, <3>2, AgentFails
  <2> QED BY <2>7, <2>8
<1> QED BY <1>7, <1>8

LEMMA ClosingInterruptedKept == ASSUME Sound, NEW a \in Agents, ClosingInterrupted(a) PROVE Sound'
<1>1. /\ Types /\ CallsOK /\ Turned(a) /\ Accounts(a) /\ Undisturbed(a)
      /\ agent[a] \in AgentType /\ agent[a].n \in Nat /\ queue \in Seq(Note) /\ errors \in Nat
      /\ active \in [Agents -> Ids \cup {NoTurn}] /\ row \in [Agents -> RowType]
      /\ (active[a] # NoTurn => Owner(active[a]) = a) /\ active[a] \in Ids \cup {NoTurn}
      /\ row[a] \in RowType
  BY Known
<1>2. agent[a].pc = "cintr" /\ agent[a].reply # "none" /\ agent[a].outcome \in Outcomes
  BY <1>1 DEF ClosingInterrupted, At, AgentType
<1>3. UNCHANGED <<row, active, queue, turns, ran, archived, procs, errors>>
  BY DEF ClosingInterrupted, bounds
<1>4. Awaited(<<a, agent[a].n>>) = FALSE
  BY <1>2 DEF Awaited, Owner, Waiting
<1>5. \A b \in Agents : EndsKept(b) /\ Ends(b)' = Ends(b)
  BY <1>3, SameEnds
<1>6. TurnsOf(a)' = TurnsOf(a)
  BY <1>3 DEF TurnsOf
<1>7. CASE agent[a].reply = "ok"
  <2> DEFINE after  == [agent[a] EXCEPT !.status = "interrupted"]
             broken == Broken(after)
  <2>0. /\ after \in AgentType /\ after.n = agent[a].n /\ after.saw = agent[a].saw
        /\ after.outcome = agent[a].outcome /\ after.status = "interrupted"
    BY <1>1 DEF AgentType, Statuses
  <2>2. Call(a, after, "thread/archive", "arch", broken)
    BY <1>7 DEF ClosingInterrupted
  <2> HIDE DEF after
  <2>1. broken \in AgentType /\ broken.pc = "done" /\ broken.outcome = "broken" /\ broken.saw = agent[a].saw
    BY <2>0, Ended DEF Broken, Outcomes
  <2> HIDE DEF broken
  <2>3. "thread/archive" \in Methods /\ "arch" \in Waiting
    BY DEF Methods, Waiting
  <2>a. PICK q \in AgentType, r \in Request : CallMakes(a, after, "thread/archive", "arch", broken, q, r)
    BY <1>1, <2>0, <2>1, <2>2, <2>3, Called
  <2>4. /\ agent' = [agent EXCEPT ![a] = q] /\ pending' = pending \cup {r.id}
        /\ r.id = <<a, agent[a].n + 1>> /\ r.method = "thread/archive" /\ q.n = agent[a].n + 1
        /\ \/ /\ proc \in alive /\ sent' = sent \cup {r}
              /\ q.pc = "arch" /\ q.reply = "none" /\ q.status = "interrupted"
              /\ q.outcome = agent[a].outcome /\ q.saw = agent[a].saw
           \/ /\ proc \notin alive /\ sent' = sent
              /\ q.pc = broken.pc /\ q.outcome = broken.outcome /\ q.saw = broken.saw \cup {"failed"}
    BY <2>0, <2>a DEF CallMakes
  <2>5. agent'[a] = q /\ agent[a].saw \subseteq q.saw
    BY <1>1, <2>1, <2>4 DEF Types
  <2>6. Stepping(a, q)
    BY <1>1, <1>2, <1>3, <1>4, <1>5, <2>4, <2>5 DEF Stepping
  <2>7. CASE proc \in alive
    <3>1. /\ q.pc = "arch" /\ q.reply = "none" /\ q.outcome = agent[a].outcome /\ q.saw = agent[a].saw
          /\ sent' = sent \cup {r}
      BY <2>4, <2>7
    <3>2. Starts(a)' = Starts(a)
      BY <2>4, <3>1 DEF Starts
    <3>3. Turned(a)'
      BY <1>1, <1>2, <1>3, <1>5, <1>6, <2>4, <2>5, <3>1, <3>2 DEF Turned, Clean, Waiting
    <3>4. Accounts(a)'
      BY <1>1, <1>2, <1>3, <2>5, <3>1, <3>2, AccountsKept DEF InAttempt
    <3>5. Undisturbed(a)'
      BY <1>1, <1>2, <1>3, <2>5, <3>1 DEF Undisturbed, Waiting
    <3>6. r.method = MethodAt(q.pc) /\ q.pc \in Waiting
      BY <2>4, <3>1 DEF MethodAt, Waiting
    <3> QED BY <1>3, <1>4, <2>4, <2>6, <3>1, <3>3, <3>4, <3>5, <3>6, AgentCalls DEF Fine
  <2>8. CASE proc \notin alive
    <3>1. q.pc = "done" /\ q.outcome = "broken" /\ "failed" \in q.saw /\ sent' = sent /\ Starts(a)' = Starts(a)
      BY <2>1, <2>4, <2>8 DEF Starts
    <3>2. Accounts(a)'
      BY <1>1, <1>2, <1>3, <2>5, <3>1, AccountsKept DEF InAttempt
    <3> QED BY <2>4, <2>6, <3>1, <3>2, AgentFails
  <2> QED BY <2>7, <2>8
<1>8. CASE agent[a].reply # "ok"
  <2> DEFINE q == Done(agent[a], agent[a].outcome)
  <2>3. /\ q \in AgentType /\ q.pc = "done" /\ q.outcome = agent[a].outcome /\ q.saw = agent[a].saw
    BY <1>1, <1>2, Ended
  <2>4. agent' = [agent EXCEPT ![a] = q] /\ UNCHANGED <<pending, sent>>
    BY <1>8 DEF ClosingInterrupted, Become
  <2> HIDE DEF q
  <2>5. agent'[a] = q /\ Starts(a)' = Starts(a)
    BY <1>1, <2>4 DEF Types, Starts
  <2>6. Turned(a)'
    BY <1>1, <1>2, <1>3, <1>5, <1>6, <2>3, <2>5 DEF Turned, Clean, Waiting
  <2>7. Accounts(a)'
    BY <1>1, <1>2, <1>3, <2>3, <2>5, AccountsKept DEF InAttempt
  <2>8. Undisturbed(a)'
    BY <1>1, <1>2, <1>3, <2>3, <2>5 DEF Undisturbed, Waiting
  <2>9. Stepping(a, q)
    BY <1>1, <1>2, <1>3, <1>4, <1>5, <2>3, <2>4 DEF Stepping
  <2> QED BY <2>3, <2>4, <2>6, <2>7, <2>8, <2>9, AgentMoves DEF Fine
<1> QED BY <1>7, <1>8

LEMMA ArchivedKept == ASSUME Sound, NEW a \in Agents, Archived(a) PROVE Sound'
<1>1. /\ Types /\ CallsOK /\ Turned(a) /\ Accounts(a) /\ Undisturbed(a)
      /\ agent[a] \in AgentType /\ agent[a].n \in Nat /\ queue \in Seq(Note) /\ errors \in Nat
      /\ active \in [Agents -> Ids \cup {NoTurn}] /\ row \in [Agents -> RowType]
      /\ (active[a] # NoTurn => Owner(active[a]) = a) /\ active[a] \in Ids \cup {NoTurn}
      /\ row[a] \in RowType
  BY Known
<1>2. agent[a].pc = "arch" /\ agent[a].reply # "none" /\ agent[a].outcome \in Outcomes
  BY <1>1 DEF Archived, At, AgentType
<1>3. UNCHANGED <<pending, active, queue, sent, turns, ran, archived, procs, errors>>
  BY DEF Archived, bounds, server
<1>4. Awaited(<<a, agent[a].n>>) = FALSE
  BY <1>2 DEF Awaited, Owner, Waiting
<1>5. \A b \in Agents : TurnsOf(b)' = TurnsOf(b) /\ Starts(b)' = Starts(b) /\ Ends(b)' = Ends(b) /\ EndsKept(b)
  BY <1>3, OwnWork
<1> DEFINE q == agent'[a]
<1>6. /\ q \in AgentType /\ q.pc = "done" /\ q.outcome = agent[a].outcome /\ q.saw = agent[a].saw
      /\ q.status = "active" /\ agent' = [agent EXCEPT ![a] = q]
  <2>1. CASE agent[a].reply = "ok"
    <3> DEFINE after == [agent[a] EXCEPT !.status = "closed"]
    <3>1. after \in AgentType /\ after.saw = agent[a].saw
      BY <1>1 DEF AgentType, Statuses
    <3>2. agent' = [agent EXCEPT ![a] = Done(after, agent[a].outcome)]
      BY <2>1 DEF Archived, Become
    <3> HIDE DEF after
    <3>3. agent'[a] = Done(after, agent[a].outcome)
      BY <1>1, <3>2 DEF Types
    <3>4. /\ agent'[a] \in AgentType /\ agent'[a].pc = "done" /\ agent'[a].outcome = agent[a].outcome
          /\ agent'[a].saw = agent[a].saw /\ agent'[a].status = "active"
      BY <1>2, <3>1, <3>3, Ended
    <3> QED BY <3>2, <3>3, <3>4
  <2>2. CASE agent[a].reply # "ok"
    <3>1. agent' = [agent EXCEPT ![a] = Done(agent[a], agent[a].outcome)]
      BY <2>2 DEF Archived, Become
    <3>2. agent'[a] = Done(agent[a], agent[a].outcome)
      BY <1>1, <3>1 DEF Types
    <3>4. /\ agent'[a] \in AgentType /\ agent'[a].pc = "done" /\ agent'[a].outcome = agent[a].outcome
          /\ agent'[a].saw = agent[a].saw /\ agent'[a].status = "active"
      BY <1>1, <1>2, <3>2, Ended
    <3> QED BY <3>1, <3>2, <3>4
  <2> QED BY <2>1, <2>2
<1> HIDE DEF q
<1>7. /\ row'[a] \in RowType /\ row'[a].calls = row[a].calls /\ row'[a].failures = row[a].failures
      /\ agent[a].reply = "ok" => row'[a].status = "closed"
      /\ row' = [row EXCEPT ![a] = row'[a]]
  <2>1. CASE agent[a].reply = "ok"
    <3> DEFINE w == [row[a] EXCEPT !.status = "closed"]
    <3>1. w \in RowType /\ w.calls = row[a].calls /\ w.failures = row[a].failures /\ w.status = "closed"
      BY <1>1 DEF RowType, Statuses
    <3>2. row' = [row EXCEPT ![a] = w]
      BY <1>1, <2>1 DEF Archived, RowClosed
    <3> HIDE DEF w
    <3>3. row'[a] = w
      BY <1>1, <3>2
    <3> QED BY <3>1, <3>2, <3>3
  <2>2. CASE agent[a].reply # "ok"
    <3>1. row' = row
      BY <2>2 DEF Archived
    <3> QED BY <1>1, <2>2, <3>1
  <2> QED BY <2>1, <2>2
<1>8. agent'[a] = q
  BY DEF q
<1>9. Turned(a)'
  BY <1>1, <1>2, <1>3, <1>5, <1>6, <1>8 DEF Turned, Clean, Waiting
<1>10. Accounts(a)'
  <2>1. Cardinality(Starts(a)) \in Nat /\ ran[a] \in Nat /\ row[a].calls \in Nat
    BY <1>1, StartsFinite DEF Types, RowType
  <2> QED BY <1>1, <1>2, <1>3, <1>5, <1>6, <1>7, <1>8, <2>1 DEF Accounts, InAttempt
<1>11. Undisturbed(a)'
  BY <1>1, <1>2, <1>3, <1>6, <1>7, <1>8 DEF Undisturbed, Waiting
<1>12. Stepping(a, q)
  BY <1>1, <1>2, <1>3, <1>4, <1>5, <1>6, <1>7 DEF Stepping
<1> QED BY <1>3, <1>6, <1>9, <1>10, <1>11, <1>12, AgentMoves DEF Fine

LEMMA SpawnFailsKept == ASSUME Sound, NEW a \in Agents, SpawnFails(a) PROVE Sound'
<1>1. /\ Types /\ CallsOK /\ Accounts(a) /\ agent[a] \in AgentType /\ queue \in Seq(Note) /\ errors \in Nat
      /\ active \in [Agents -> Ids \cup {NoTurn}] /\ row \in [Agents -> RowType]
      /\ (active[a] # NoTurn => Owner(active[a]) = a)
  BY Known
<1>2. agent[a].pc = "spawn" /\ agent[a].outcome = "none"
  BY <1>1 DEF SpawnFails, At, Accounts
<1>3. UNCHANGED <<row, pending, active, queue, sent, turns, ran, archived, procs, errors>>
  BY DEF SpawnFails, server
<1>4. Awaited(<<a, agent[a].n>>) = FALSE
  BY <1>2 DEF Awaited, Owner, Waiting
<1>5. \A b \in Agents : EndsKept(b) /\ Starts(b)' = Starts(b)
  BY <1>3, SameEnds DEF Starts
<1> DEFINE me == [agent[a] EXCEPT !.saw = @ \cup {"failed"}]
           q  == Done(me, "unavailable")
<1>6. me \in AgentType /\ me.saw = agent[a].saw \cup {"failed"} /\ "unavailable" \in Outcomes
  BY <1>1 DEF AgentType, Outcomes
<1>7. agent' = [agent EXCEPT ![a] = q]
  BY DEF SpawnFails, Become
<1> HIDE DEF me
<1>8. /\ q \in AgentType /\ q.pc = "done" /\ q.outcome = "unavailable"
      /\ q.saw = agent[a].saw \cup {"failed"}
  BY <1>6, Ended
<1> HIDE DEF q
<1>9. agent'[a] = q /\ agent[a].saw \subseteq q.saw
  BY <1>1, <1>7, <1>8 DEF Types
<1>10. Turned(a)' /\ Undisturbed(a)'
  BY <1>8, <1>9, Unclean
<1>11. Accounts(a)'
  BY <1>1, <1>2, <1>3, <1>5, <1>8, <1>9, AccountsKept DEF InAttempt
<1>12. Stepping(a, q)
  BY <1>1, <1>2, <1>3, <1>4, <1>5, <1>7, <1>9 DEF Stepping
<1> QED BY <1>3, <1>8, <1>10, <1>11, <1>12, AgentMoves DEF Fine

LEMMA SpawnKept == ASSUME Sound, NEW a \in Agents, Spawn(a) PROVE Sound'
<1>1. /\ Types /\ CallsOK /\ Turned(a) /\ Accounts(a) /\ Undisturbed(a) /\ ReaderSurvives
      /\ agent[a] \in AgentType /\ \A b \in Agents : Fine(b)
  BY Known DEF Sound
<1>2. agent[a].pc = "spawn" /\ agent[a].n = 0 /\ agent[a].reply = "none" /\ agent[a].outcome = "none"
  BY <1>1 DEF Spawn, At, CallsOK, Accounts
<1>3. UNCHANGED <<row, active, queue, turns, ran, archived, errors>>
  BY DEF Spawn, bounds
<1>4. Awaited(<<a, agent[a].n>>) = FALSE
  BY <1>2 DEF Awaited, Owner, Waiting
<1>5. \A b \in Agents : EndsKept(b) /\ Ends(b)' = Ends(b) /\ TurnsOf(b)' = TurnsOf(b)
  BY <1>3, SameEnds DEF TurnsOf
<1> DEFINE p == spawned + 1
           q == [[agent[a] EXCEPT !.pc = "init"] EXCEPT !.n = 1]
           r == [id |-> <<a, 1>>, method |-> "initialize", turn |-> NoTurn, to |-> p]
<1>6. p \in Nat /\ spawned \in Nat /\ p \notin alive /\ alive \cup {p} \subseteq 1 .. p
  BY <1>1 DEF Types
<1>7. r \in Request /\ r.id = <<a, 1>> /\ r.method = "initialize" /\ Owner(r.id) = a
  BY <1>6 DEF Request, Ids, Methods, Owner
<1>8. /\ q \in AgentType /\ q.pc = "init" /\ q.n = 1 /\ q.reply = agent[a].reply
      /\ q.outcome = agent[a].outcome /\ q.saw = agent[a].saw /\ q.status = agent[a].status
  BY <1>1 DEF AgentType, Pcs, Waiting
<1>9. /\ proc' = p /\ spawned' = p /\ alive' = alive \cup {p} /\ readers' = readers \cup {p}
      /\ pending' = pending \cup {r.id} /\ sent' = sent \cup {r} /\ agent' = [agent EXCEPT ![a] = q]
  BY DEF Spawn, Become
<1> HIDE DEF p, q, r
<1>10. agent'[a] = q /\ \A b \in Agents \ {a} : agent'[b] = agent[b]
  BY <1>1, <1>9 DEF Types
<1>11. Types'
  <2>1. IsFiniteSet(sent') /\ sent' \subseteq Request
    BY <1>1, <1>7, <1>9, FS_AddElement DEF Types
  <2> QED BY <1>1, <1>3, <1>6, <1>8, <1>9, <2>1 DEF Types
<1>12. ReaderSurvives'
  BY <1>9 DEF ReaderSurvives
<1>13. \A b \in Agents \ {a} : Fine(b)'
  BY <1>1, <1>3, <1>5, <1>7, <1>9, <1>10, OthersKept
<1>14. CallsOK'
  <2>1. r.method = MethodAt(q.pc) /\ q.pc \in Waiting
    BY <1>7, <1>8 DEF MethodAt, Waiting
  <2>2. r.id = <<a, agent[a].n + 1>> /\ q.n = agent[a].n + 1
    BY <1>2, <1>7, <1>8
  <2> QED BY <1>1, <1>2, <1>3, <1>4, <1>7, <1>8, <1>9, <2>1, <2>2, CallsAdded
<1>15. Starts(a)' = Starts(a)
  BY <1>7, <1>9 DEF Starts
<1>16. Turned(a)'
  BY <1>1, <1>2, <1>3, <1>5, <1>7, <1>8, <1>9, <1>10, <1>15 DEF Turned, Clean, Waiting
<1>17. Accounts(a)'
  BY <1>1, <1>2, <1>3, <1>8, <1>10, <1>15, AccountsKept DEF InAttempt
<1>18. Undisturbed(a)'
  BY <1>1, <1>2, <1>3, <1>8, <1>10 DEF Undisturbed, Waiting
<1> QED BY <1>11, <1>12, <1>13, <1>14, <1>16, <1>17, <1>18 DEF Sound, Fine
-----------------------------------------------------------------------------
(* A task that fails is tried again or ends, and is counted either way.    *)
FailsTo(a, me, error, q) ==
    /\ agent' = [agent EXCEPT ![a] = q] /\ agent'[a] = q
    /\ q.n = me.n /\ q.status = me.status /\ q.saw = me.saw
    /\ \/ q.pc = "run" /\ q.outcome = "none" /\ error \in Retryable
       \/ q.pc = "close" /\ q.outcome = error
    /\ Accounts(a)'
    /\ row' \in [Agents -> RowType] /\ \A b \in Agents \ {a} : row'[b] = row[b]

LEMMA Failing ==
    ASSUME Sound, NEW a \in Agents, NEW me \in AgentType, NEW error \in Outcomes \ {"none", "answer"},
           RunFails(a, me, error), me.outcome = "none", "cancelled" \notin me.saw,
           agent[a].saw \subseteq me.saw, agent[a].pc \notin {"close", "cintr", "arch", "done"},
           Starts(a)' = Starts(a), ran' = ran
    PROVE  \E q \in AgentType : FailsTo(a, me, error, q)
<1>1. PICK q \in AgentType :
         /\ q = AfterError(me, error) /\ q.n = me.n /\ q.status = me.status /\ q.saw = me.saw
         /\ \/ q.pc = "run" /\ q.outcome = "none" /\ error \in Retryable
            \/ q.pc = "close" /\ q.outcome = error
  BY Erred
<1>2. agent' = [agent EXCEPT ![a] = q] /\ row' = Failed(a, me)
  BY <1>1 DEF RunFails, Become
<1>3. Types /\ Accounts(a)
  BY Known
<1>4. agent'[a] = q
  BY <1>2, <1>3 DEF Types
<1>5. /\ Accounts(a)' /\ row' \in [Agents -> RowType] /\ \A b \in Agents \ {a} : row'[b] = row[b]
  <2>1. \/ q.pc = "run" /\ "cancelled" \notin q.saw /\ q.outcome = "none"
        \/ q.pc = "close" /\ q.outcome \notin {"none", "answer"}
    BY <1>1
  <2>2. row' = Failed(a, me) /\ agent'[a] = q /\ agent[a].saw \subseteq q.saw
    BY <1>1, <1>2, <1>4
  <2>3. Accounts(a)'
    BY <1>3, <2>1, <2>2, AccountsFailed
  <2>4. row' \in [Agents -> RowType] /\ \A b \in Agents \ {a} : row'[b] = row[b]
    BY <1>3, <2>1, <2>2, AccountsFailed
  <2> QED BY <2>3, <2>4
<1>6. FailsTo(a, me, error, q)
  BY <1>1, <1>2, <1>4, <1>5 DEF FailsTo
<1> QED BY <1>1, <1>6

LEMMA InterruptedKept == ASSUME Sound, NEW a \in Agents, Interrupted(a) PROVE Sound'
<1>1. /\ Types /\ CallsOK /\ Turned(a) /\ Accounts(a) /\ Undisturbed(a)
      /\ agent[a] \in AgentType /\ agent[a].n \in Nat /\ queue \in Seq(Note) /\ errors \in Nat
      /\ active \in [Agents -> Ids \cup {NoTurn}]
      /\ (active[a] # NoTurn => Owner(active[a]) = a) /\ active[a] \in Ids \cup {NoTurn}
  BY Known
<1>2. agent[a].pc = "intr" /\ agent[a].reply # "none" /\ agent[a].outcome = "none"
      /\ "cancelled" \notin agent[a].saw
  BY <1>1 DEF Interrupted, At, Accounts
<1>3. UNCHANGED <<pending, active, queue, sent, turns, ran, archived, procs, errors>>
  BY DEF Interrupted, bounds, server
<1>4. Awaited(<<a, agent[a].n>>) = FALSE
  BY <1>2 DEF Awaited, Owner
<1>5. \A b \in Agents : TurnsOf(b)' = TurnsOf(b) /\ Starts(b)' = Starts(b) /\ Ends(b)' = Ends(b) /\ EndsKept(b)
  BY <1>3, OwnWork
<1>6. agent[a].saw # {}
  BY <1>1, <1>2 DEF Undisturbed
<1>7. CASE agent[a].reply = "ok"
  <2> DEFINE me == [agent[a] EXCEPT !.status = "interrupted"]
  <2>1. /\ me \in AgentType /\ me.n = agent[a].n /\ me.saw = agent[a].saw
        /\ me.outcome = agent[a].outcome /\ me.status = "interrupted"
    BY <1>1 DEF AgentType, Statuses
  <2>2. RunFails(a, me, "timeout")
    BY <1>7 DEF Interrupted
  <2> HIDE DEF me
  <2>3. "timeout" \in Outcomes \ {"none", "answer"}
    BY DEF Outcomes
  <2>4. PICK q \in AgentType : FailsTo(a, me, "timeout", q)
    BY <1>2, <1>3, <1>5, <2>1, <2>2, <2>3, Failing
  <2>5. /\ agent'[a] = q /\ q.n = agent[a].n /\ q.status = "interrupted" /\ q.saw = agent[a].saw
        /\ q.pc \in {"run", "close"} /\ agent' = [agent EXCEPT ![a] = q] /\ Accounts(a)'
        /\ row' \in [Agents -> RowType] /\ \A b \in Agents \ {a} : row'[b] = row[b]
    BY <2>1, <2>4 DEF FailsTo
  <2>6. Turned(a)'
    BY <1>1, <1>2, <1>3, <1>5, <1>7, <2>5 DEF Turned, Clean, Waiting
  <2>7. Undisturbed(a)'
    BY <1>6, <2>5 DEF Undisturbed
  <2>8. Stepping(a, q)
    BY <1>1, <1>2, <1>3, <1>4, <1>5, <2>5 DEF Stepping
  <2> QED BY <1>3, <2>5, <2>6, <2>7, <2>8, AgentMoves DEF Fine
<1>8. CASE agent[a].reply # "ok"
  <2>1. agent[a].reply \in {"ok", "error", "late", "gone", "odd"}
    BY <1>1, <1>2 DEF AgentType
  <2>2. /\ Error(agent[a].reply) \in Outcomes \ {"none", "answer"}
        /\ agent[a].reply = "error" => Error(agent[a].reply) \notin Retryable
    BY <1>8, <2>1, Errors
  <2>3. RunFails(a, agent[a], Error(agent[a].reply))
    BY <1>8 DEF Interrupted
  <2>4. PICK q \in AgentType : FailsTo(a, agent[a], Error(agent[a].reply), q)
    BY <1>1, <1>2, <1>3, <1>5, <2>2, <2>3, Failing
  <2>5. /\ agent'[a] = q /\ q.n = agent[a].n /\ q.status = agent[a].status /\ q.saw = agent[a].saw
        /\ q.pc \in {"run", "close"} /\ agent' = [agent EXCEPT ![a] = q] /\ Accounts(a)'
        /\ agent[a].reply = "error" => q.pc = "close"
        /\ row' \in [Agents -> RowType] /\ \A b \in Agents \ {a} : row'[b] = row[b]
    BY <2>2, <2>4 DEF FailsTo
  <2>6. Turned(a)'
    BY <1>1, <1>2, <1>3, <1>5, <1>8, <2>1, <2>5 DEF Turned, Clean, Waiting
  <2>7. Undisturbed(a)'
    BY <1>6, <2>5 DEF Undisturbed
  <2>8. Stepping(a, q)
    BY <1>1, <1>2, <1>3, <1>4, <1>5, <2>5 DEF Stepping
  <2> QED BY <1>3, <2>5, <2>6, <2>7, <2>8, AgentMoves DEF Fine
<1> QED BY <1>7, <1>8

LEMMA TurnStartedKept == ASSUME Sound, NEW a \in Agents, TurnStarted(a) PROVE Sound'
<1>1. /\ Types /\ CallsOK /\ Turned(a) /\ Accounts(a) /\ Undisturbed(a)
      /\ agent[a] \in AgentType /\ agent[a].n \in Nat /\ queue \in Seq(Note) /\ errors \in Nat
      /\ active \in [Agents -> Ids \cup {NoTurn}] /\ row \in [Agents -> RowType]
      /\ (active[a] # NoTurn => Owner(active[a]) = a) /\ active[a] \in Ids \cup {NoTurn}
  BY Known
<1>2. agent[a].pc = "turn" /\ agent[a].reply # "none" /\ agent[a].outcome = "none"
      /\ "cancelled" \notin agent[a].saw /\ agent[a].pc \in Waiting
  BY <1>1 DEF TurnStarted, At, Accounts, Waiting
<1>3. UNCHANGED <<pending, queue, sent, turns, ran, archived, procs, errors>>
  BY DEF TurnStarted, bounds, server
<1>4. Awaited(<<a, agent[a].n>>) = FALSE
  BY <1>2 DEF Awaited, Owner
<1>5. \A b \in Agents : TurnsOf(b)' = TurnsOf(b) /\ Starts(b)' = Starts(b) /\ Ends(b)' = Ends(b) /\ EndsKept(b)
  BY <1>3, OwnWork
<1>6. CASE agent[a].reply = "ok"
  <2> DEFINE id == <<a, agent[a].n>>
             q  == [[[agent[a] EXCEPT !.pc = "loop"] EXCEPT !.turn = id] EXCEPT !.got = 0]
  <2>1. id \in Ids /\ Owner(id) = a
    BY <1>1 DEF Ids, Owner
  <2>2. id # NoTurn
    BY <2>1, NoTurnIsNoId
  <2>3. /\ q \in AgentType /\ q.pc = "loop" /\ q.n = agent[a].n /\ q.status = agent[a].status
        /\ q.turn = id /\ q.outcome = agent[a].outcome /\ q.saw = agent[a].saw
    BY <1>1, <2>1 DEF AgentType, Pcs
  <2>4. agent' = [agent EXCEPT ![a] = q] /\ row' = row /\ active' = [active EXCEPT ![a] = id]
    BY <1>6 DEF TurnStarted, Become
  <2> HIDE DEF q
  <2>5. agent'[a] = q /\ active'[a] = id
    BY <1>1, <2>4 DEF Types
  <2>6. Turned(a)'
    BY <1>1, <1>2, <1>3, <1>5, <1>6, <2>3, <2>5 DEF Turned, Clean, Waiting
  <2>7. Accounts(a)'
    BY <1>1, <1>2, <1>3, <1>5, <2>3, <2>4, <2>5, AccountsKept DEF InAttempt
  <2>8. Undisturbed(a)'
    BY <1>1, <1>2, <1>3, <2>3, <2>5 DEF Undisturbed, Waiting
  <2>9. Stepping(a, q)
    BY <1>1, <1>2, <1>3, <1>4, <1>5, <2>1, <2>3, <2>4, <2>5 DEF Stepping
  <2> QED BY <1>3, <2>3, <2>6, <2>7, <2>8, <2>9, AgentMoves DEF Fine
<1>7. CASE agent[a].reply # "ok"
  <2>1. agent[a].reply \in {"ok", "error", "late", "gone", "odd"}
    BY <1>1, <1>2 DEF AgentType
  <2>2. Error(agent[a].reply) \in Outcomes \ {"none", "answer"}
    BY <1>7, <2>1, Errors
  <2>3. RunFails(a, agent[a], Error(agent[a].reply)) /\ active' = active
    BY <1>7 DEF TurnStarted
  <2>4. PICK q \in AgentType : FailsTo(a, agent[a], Error(agent[a].reply), q)
    BY <1>1, <1>2, <1>3, <1>5, <2>2, <2>3, Failing
  <2>5. /\ agent'[a] = q /\ q.n = agent[a].n /\ q.saw = agent[a].saw
        /\ q.pc \in {"run", "close"} /\ agent' = [agent EXCEPT ![a] = q] /\ Accounts(a)'
        /\ row' \in [Agents -> RowType] /\ \A b \in Agents \ {a} : row'[b] = row[b]
    BY <2>4 DEF FailsTo
  <2>6. Turned(a)'
    BY <1>1, <1>2, <1>7, <2>1, <2>5 DEF Turned, Clean
  <2>7. Undisturbed(a)'
    BY <1>1, <1>2, <1>7, <2>1, <2>5 DEF Undisturbed
  <2>8. Stepping(a, q)
    BY <1>1, <1>2, <1>3, <1>4, <1>5, <2>3, <2>5 DEF Stepping
  <2> QED BY <1>3, <2>5, <2>6, <2>7, <2>8, AgentMoves DEF Fine
<1> QED BY <1>6, <1>7
-----------------------------------------------------------------------------
LEMMA FreshCall ==
    ASSUME Sound, NEW a \in Agents, agent[a].pc # "done"
    PROVE  \A s \in sent : s.id # <<a, agent[a].n + 1>>
<1>1. Types /\ CallsOK /\ agent[a].n \in Nat
  BY Known
<1> SUFFICES ASSUME NEW s \in sent, s.id = <<a, agent[a].n + 1>> PROVE FALSE
  OBVIOUS
<1>2. Owner(s.id) = a /\ s.id[2] = agent[a].n + 1
  BY DEF Owner
<1>3. s.id[2] <= agent[a].n
  BY <1>1, <1>2 DEF CallsOK, CallOK
<1> QED BY <1>1, <1>2, <1>3

LEMMA AttemptKept == ASSUME Sound, NEW a \in Agents, Attempt(a) PROVE Sound'
<1>1. /\ Types /\ CallsOK /\ Turned(a) /\ Accounts(a) /\ Undisturbed(a)
      /\ agent[a] \in AgentType /\ agent[a].n \in Nat /\ queue \in Seq(Note) /\ errors \in Nat
      /\ active \in [Agents -> Ids \cup {NoTurn}] /\ row \in [Agents -> RowType]
      /\ (active[a] # NoTurn => Owner(active[a]) = a) /\ active[a] \in Ids \cup {NoTurn}
  BY Known
<1>2. agent[a].pc = "run" /\ agent[a].outcome = "none" /\ "cancelled" \notin agent[a].saw
  BY <1>1 DEF Attempt, At, Accounts
<1>3. UNCHANGED <<active, queue, turns, ran, archived, procs, errors>>
  BY DEF Attempt, bounds
<1>4. Awaited(<<a, agent[a].n>>) = FALSE
  BY <1>2 DEF Awaited, Owner, Waiting
<1>5. \A b \in Agents : EndsKept(b) /\ Ends(b)' = Ends(b)
  BY <1>3, SameEnds
<1>6. TurnsOf(a)' = TurnsOf(a)
  BY <1>3 DEF TurnsOf
<1>7. CASE agent[a].status = "interrupted"
  <2>1. RunFails(a, agent[a], "interrupted") /\ UNCHANGED <<pending, sent>>
    BY <1>7 DEF Attempt
  <2>2. "interrupted" \in Outcomes \ {"none", "answer"} /\ "interrupted" \notin Retryable
    BY DEF Outcomes, Retryable
  <2>3. Starts(a)' = Starts(a)
    BY <2>1 DEF Starts
  <2>4. PICK q \in AgentType : FailsTo(a, agent[a], "interrupted", q)
    BY <1>1, <1>2, <1>3, <2>1, <2>2, <2>3, Failing
  <2>5. /\ agent'[a] = q /\ q.n = agent[a].n /\ q.saw = agent[a].saw
        /\ q.pc = "close" /\ agent' = [agent EXCEPT ![a] = q] /\ Accounts(a)'
        /\ row' \in [Agents -> RowType] /\ \A b \in Agents \ {a} : row'[b] = row[b]
    BY <2>2, <2>4 DEF FailsTo
  <2>6. Turned(a)'
    BY <1>1, <1>2, <1>3, <1>5, <1>6, <2>3, <2>5 DEF Turned, Clean, Waiting
  <2>7. Undisturbed(a)'
    BY <1>1, <1>7, <2>5 DEF Undisturbed
  <2>8. Stepping(a, q)
    BY <1>1, <1>2, <1>3, <1>4, <1>5, <2>5 DEF Stepping
  <2> QED BY <2>1, <2>5, <2>6, <2>7, <2>8, AgentMoves DEF Fine
<1>8. CASE agent[a].status # "interrupted"
  <2>1. PICK broken \in AgentType :
           broken = AfterError(agent[a], "broken") /\ broken.saw = agent[a].saw
           /\ broken.pc = "close" /\ broken.outcome = "broken"
    BY <1>1, Erred DEF Outcomes, Retryable
  <2>2. /\ Call(a, agent[a], "turn/start", "turn", broken)
        /\ row' = IF proc \in alive THEN row ELSE Failed(a, agent[a])
    BY <1>8, <2>1 DEF Attempt
  <2>3. "turn/start" \in Methods /\ "turn" \in Waiting
    BY DEF Methods, Waiting
  <2>a. PICK q \in AgentType, r \in Request : CallMakes(a, agent[a], "turn/start", "turn", broken, q, r)
    BY <1>1, <2>1, <2>2, <2>3, Called
  <2>4. /\ agent' = [agent EXCEPT ![a] = q] /\ pending' = pending \cup {r.id}
        /\ r.id = <<a, agent[a].n + 1>> /\ r.method = "turn/start" /\ q.n = agent[a].n + 1
        /\ \/ /\ proc \in alive /\ sent' = sent \cup {r}
              /\ q.pc = "turn" /\ q.reply = "none" /\ q.status = agent[a].status
              /\ q.outcome = agent[a].outcome /\ q.saw = agent[a].saw
           \/ /\ proc \notin alive /\ sent' = sent
              /\ q.pc = broken.pc /\ q.outcome = broken.outcome /\ q.saw = broken.saw \cup {"failed"}
    BY <2>a DEF CallMakes
  <2>5. agent'[a] = q /\ agent[a].saw \subseteq q.saw
    BY <1>1, <2>1, <2>4 DEF Types
  <2>7. CASE proc \in alive
    <3>1. /\ q.pc = "turn" /\ q.reply = "none" /\ q.outcome = agent[a].outcome /\ q.saw = agent[a].saw
          /\ q.status = agent[a].status /\ sent' = sent \cup {r} /\ row' = row
      BY <2>2, <2>4, <2>7
    <3>2. Starts(a)' = Starts(a) \cup {r} /\ r \notin Starts(a)
      <4>1. Owner(r.id) = a
        BY <2>4 DEF Owner
      <4>2. r \notin sent
        BY <1>2, <2>4, FreshCall
      <4> QED BY <2>4, <3>1, <4>1, <4>2 DEF Starts
    <3>3. Turned(a)'
      BY <1>1, <1>2, <1>3, <1>5, <1>6, <1>8, <2>4, <2>5, <3>1, <3>2 DEF Turned, Clean, Waiting
    <3>4. Accounts(a)'
      <4>1. IsFiniteSet(Starts(a)) /\ Cardinality(Starts(a)) \in Nat
        BY <1>1, StartsFinite
      <4>2. Cardinality(Starts(a)') = Cardinality(Starts(a)) + 1
        BY <3>2, <4>1, FS_AddElement
      <4>3. ran[a] \in Nat /\ row[a].calls \in Nat
        BY <1>1 DEF Types, RowType
      <4> QED BY <1>1, <1>2, <1>3, <2>5, <3>1, <4>1, <4>2, <4>3 DEF Accounts, InAttempt
    <3>5. Undisturbed(a)'
      BY <1>1, <1>2, <1>3, <2>5, <3>1 DEF Undisturbed, Waiting
    <3>6. r.method = MethodAt(q.pc) /\ q.pc \in Waiting
      BY <2>4, <3>1 DEF MethodAt, Waiting
    <3>7. Stepping(a, q)
      BY <1>1, <1>2, <1>3, <1>4, <1>5, <2>4, <2>5, <3>1 DEF Stepping
    <3> QED BY <1>3, <1>4, <2>4, <3>1, <3>3, <3>4, <3>5, <3>6, <3>7, AgentCalls DEF Fine
  <2>8. CASE proc \notin alive
    <3>1. /\ q.pc = "close" /\ q.outcome = "broken" /\ "failed" \in q.saw /\ sent' = sent
          /\ Starts(a)' = Starts(a) /\ row' = Failed(a, agent[a])
      BY <2>1, <2>2, <2>4, <2>8 DEF Starts
    <3>2. Accounts(a)' /\ row' \in [Agents -> RowType] /\ \A b \in Agents \ {a} : row'[b] = row[b]
      BY <1>1, <1>2, <1>3, <2>5, <3>1, AccountsFailed
    <3>3. Stepping(a, q)
      BY <1>1, <1>2, <1>3, <1>4, <1>5, <2>4, <2>5, <3>2 DEF Stepping
    <3> QED BY <2>4, <3>1, <3>2, <3>3, AgentFails
  <2> QED BY <2>7, <2>8
<1> QED BY <1>7, <1>8

LEMMA LateKept == ASSUME Sound, NEW a \in Agents, CallTimeout(a) PROVE Sound'
<1>1. /\ Types /\ CallsOK /\ Turned(a) /\ Accounts(a) /\ Undisturbed(a)
      /\ agent[a] \in AgentType /\ agent[a].n \in Nat /\ queue \in Seq(Note) /\ errors \in Nat
      /\ active \in [Agents -> Ids \cup {NoTurn}] /\ row \in [Agents -> RowType]
      /\ (active[a] # NoTurn => Owner(active[a]) = a) /\ active[a] \in Ids \cup {NoTurn}
  BY Known
<1>2. agent[a].pc \in Waiting /\ pending' = pending \ {<<a, agent[a].n>>}
      /\ agent[a].pc \notin {"idle", "spawn", "done"}
  BY DEF CallTimeout, Waiting
<1>3. UNCHANGED <<row, active, queue, sent, turns, ran, archived, procs, errors>>
  BY DEF CallTimeout, bounds, server
<1>5. \A b \in Agents : TurnsOf(b)' = TurnsOf(b) /\ Starts(b)' = Starts(b) /\ Ends(b)' = Ends(b) /\ EndsKept(b)
  BY <1>3, OwnWork
<1> DEFINE q == [[agent[a] EXCEPT !.reply = "late"] EXCEPT !.saw = agent[a].saw \cup {"failed"}]
<1>6. /\ q \in AgentType /\ q.pc = agent[a].pc /\ q.n = agent[a].n /\ q.outcome = agent[a].outcome
      /\ q.saw = agent[a].saw \cup {"failed"}
  BY <1>1 DEF AgentType
<1>7. agent' = [agent EXCEPT ![a] = q]
  BY DEF CallTimeout, Become
<1> HIDE DEF q
<1>8. agent'[a] = q
  BY <1>1, <1>7 DEF Types
<1>9. Turned(a)' /\ Undisturbed(a)'
  BY <1>6, <1>8, Unclean
<1>10. Accounts(a)'
  <2>1. q.pc \notin {"close", "cintr", "arch", "done"} => q.outcome = "none"
    BY <1>1, <1>6 DEF Accounts
  <2> QED BY <1>1, <1>3, <1>5, <1>6, <1>8, <2>1, AccountsKept
<1>11. Stepping(a, q)
  BY <1>1, <1>2, <1>3, <1>5, <1>6, <1>7, <1>8 DEF Stepping
<1> QED BY <1>1, <1>2, <1>3, <1>6, <1>9, <1>10, <1>11, AgentActs DEF Fine

LEMMA CancelKept == ASSUME Sound, NEW a \in Agents, Cancel(a) PROVE Sound'
<1>1. /\ Types /\ CallsOK /\ Turned(a) /\ Accounts(a) /\ Undisturbed(a)
      /\ agent[a] \in AgentType /\ agent[a].n \in Nat /\ queue \in Seq(Note) /\ errors \in Nat
      /\ active \in [Agents -> Ids \cup {NoTurn}] /\ row \in [Agents -> RowType]
      /\ (active[a] # NoTurn => Owner(active[a]) = a) /\ active[a] \in Ids \cup {NoTurn}
  BY Known
<1>2. agent[a].pc \in Waiting \cup {"spawn", "run", "loop"}
  BY <1>1 DEF Cancel, AgentType, Pcs
<1>3. UNCHANGED <<row, active, queue, sent, pending, turns, ran, archived, procs, errors>>
  BY DEF Cancel, server
<1>5. \A b \in Agents : TurnsOf(b)' = TurnsOf(b) /\ Starts(b)' = Starts(b) /\ Ends(b)' = Ends(b) /\ EndsKept(b)
  BY <1>3, OwnWork
<1> DEFINE cut == [agent[a] EXCEPT !.saw = agent[a].saw \cup {"cancelled"}
                                             \cup (IF agent[a].pc \in Waiting THEN {"cut"} ELSE {})]
           inner == agent[a].pc \in {"run", "turn", "loop", "intr"}
           q == IF inner THEN Closing(cut, "cancelled") ELSE Done(cut, "cancelled")
<1>6. /\ cut \in AgentType /\ cut.n = agent[a].n /\ agent[a].saw \cup {"cancelled"} \subseteq cut.saw
      /\ agent[a].pc \in Waiting => "cut" \in cut.saw
      /\ agent[a].pc \notin Waiting => cut.saw = agent[a].saw \cup {"cancelled"}
  BY <1>1 DEF AgentType
<1>7. agent' = [agent EXCEPT ![a] = q]
  BY DEF Cancel, Become
<1> HIDE DEF cut
<1>8. "cancelled" \in Outcomes
  BY DEF Outcomes
<1>9. /\ q \in AgentType /\ q.outcome = "cancelled" /\ q.saw = cut.saw
      /\ inner => q.pc = "close" /\ q.n = agent[a].n
      /\ ~inner => q.pc = "done"
  BY <1>6, <1>8, Ended
<1> HIDE DEF q
<1>10. agent'[a] = q
  BY <1>1, <1>7 DEF Types
<1>11. Turned(a)'
  <2>1. CASE agent[a].pc \in Waiting
    BY <1>6, <1>9, <1>10, <2>1, Unclean
  <2>2. CASE agent[a].pc \notin Waiting
    BY <1>1, <1>2, <1>3, <1>5, <1>6, <1>9, <1>10, <2>2 DEF Turned, Clean, Waiting
  <2> QED BY <2>1, <2>2
<1>12. Accounts(a)'
  BY <1>1, <1>2, <1>3, <1>5, <1>6, <1>9, <1>10, AccountsKept DEF InAttempt
<1>13. Undisturbed(a)'
  BY <1>6, <1>9, <1>10 DEF Undisturbed
<1>14. Awaited(<<a, agent[a].n>>) => "cut" \in q.saw
  BY <1>6, <1>9 DEF Awaited, Owner
<1>15. Stepping(a, q)
  BY <1>1, <1>2, <1>3, <1>5, <1>6, <1>7, <1>9, <1>14 DEF Stepping, Waiting
<1> QED BY <1>3, <1>9, <1>11, <1>12, <1>13, <1>15, AgentMoves DEF Fine

LEMMA TurnTimeoutKept == ASSUME Sound, NEW a \in Agents, TurnTimeout(a) PROVE Sound'
<1>1. /\ Types /\ CallsOK /\ Turned(a) /\ Accounts(a) /\ Undisturbed(a)
      /\ agent[a] \in AgentType /\ agent[a].n \in Nat /\ queue \in Seq(Note) /\ errors \in Nat
      /\ active \in [Agents -> Ids \cup {NoTurn}] /\ row \in [Agents -> RowType]
      /\ (active[a] # NoTurn => Owner(active[a]) = a) /\ active[a] \in Ids \cup {NoTurn}
  BY Known
<1>2. agent[a].pc \in {"loop", "turn"} /\ agent[a].outcome = "none" /\ "cancelled" \notin agent[a].saw
  BY <1>1 DEF TurnTimeout, At, Accounts
<1>3. UNCHANGED <<active, queue, turns, ran, archived, procs, errors>>
  BY DEF TurnTimeout
<1>5. \A b \in Agents : EndsKept(b) /\ Ends(b)' = Ends(b)
  BY <1>3, SameEnds
<1>6. TurnsOf(a)' = TurnsOf(a)
  BY <1>3 DEF TurnsOf
<1> DEFINE mark == IF agent[a].pc = "turn" THEN "cut" ELSE "overran"
           cut  == [agent[a] EXCEPT !.saw = agent[a].saw \cup {mark}]
<1>7. /\ cut \in AgentType /\ cut.n = agent[a].n /\ cut.saw = agent[a].saw \cup {mark}
      /\ cut.outcome = "none" /\ cut.turn = agent[a].turn /\ "cancelled" \notin cut.saw
      /\ cut.saw # {} /\ (agent[a].pc = "turn" => "cut" \in cut.saw)
      /\ (agent[a].pc = "loop" => ("cut" \in cut.saw <=> "cut" \in agent[a].saw)
                                  /\ ("failed" \in cut.saw <=> "failed" \in agent[a].saw))
  BY <1>1, <1>2 DEF AgentType
<1>8. Awaited(<<a, agent[a].n>>) => "cut" \in cut.saw
  BY <1>2, <1>7 DEF Awaited, Owner, Waiting
<1>9. /\ active[a] # NoTurn =>
           /\ Call(a, cut, "turn/interrupt", "intr", AfterError(cut, "broken"))
           /\ row' = IF proc \in alive THEN row ELSE Failed(a, cut)
      /\ active[a] = NoTurn =>
           RunFails(a, [cut EXCEPT !.status = "interrupted"], "timeout") /\ UNCHANGED <<pending, sent>>
  BY DEF TurnTimeout
<1> HIDE DEF cut
<1>10. CASE active[a] = NoTurn
  <2> DEFINE me == [cut EXCEPT !.status = "interrupted"]
  <2>1. /\ me \in AgentType /\ me.n = agent[a].n /\ me.saw = cut.saw
        /\ me.outcome = "none" /\ me.status = "interrupted"
    BY <1>7 DEF AgentType, Statuses
  <2>2. RunFails(a, me, "timeout") /\ UNCHANGED <<pending, sent>>
    BY <1>9, <1>10
  <2> HIDE DEF me
  <2>3. "timeout" \in Outcomes \ {"none", "answer"}
    BY DEF Outcomes
  <2>s. Starts(a)' = Starts(a)
    BY <2>2 DEF Starts
  <2>4. PICK q \in AgentType : FailsTo(a, me, "timeout", q)
    BY <1>2, <1>3, <1>7, <2>1, <2>2, <2>3, <2>s, Failing
  <2>5. /\ agent'[a] = q /\ q.n = agent[a].n /\ q.status = "interrupted" /\ q.saw = cut.saw
        /\ q.pc \in {"run", "close"} /\ agent' = [agent EXCEPT ![a] = q] /\ Accounts(a)'
        /\ row' \in [Agents -> RowType] /\ \A b \in Agents \ {a} : row'[b] = row[b]
    BY <2>1, <2>4 DEF FailsTo
  <2>6. \A t \in TurnsOf(a) : t.turn # NoTurn
    BY <1>1, NoTurnIsNoId DEF TurnsOf, Types
  <2>7. Turned(a)'
    <3>1. CASE agent[a].pc = "turn"
      BY <1>7, <2>5, <3>1, Unclean
    <3>2. CASE agent[a].pc = "loop"
      BY <1>1, <1>3, <1>5, <1>6, <1>7, <1>10, <2>5, <2>6, <2>s, <3>2 DEF Turned, Clean, Waiting
    <3> QED BY <1>2, <3>1, <3>2
  <2>8. Undisturbed(a)'
    BY <1>7, <2>5 DEF Undisturbed
  <2>9. Stepping(a, q)
    BY <1>1, <1>2, <1>3, <1>5, <1>7, <1>8, <2>5 DEF Stepping
  <2> QED BY <2>2, <2>5, <2>7, <2>8, <2>9, AgentMoves DEF Fine
<1>11. CASE active[a] # NoTurn
  <2>1. PICK broken \in AgentType :
           broken = AfterError(cut, "broken") /\ broken.saw = cut.saw
           /\ broken.pc = "close" /\ broken.outcome = "broken"
    BY <1>7, Erred DEF Outcomes, Retryable
  <2>2. /\ Call(a, cut, "turn/interrupt", "intr", broken)
        /\ row' = IF proc \in alive THEN row ELSE Failed(a, cut)
    BY <1>9, <1>11, <2>1
  <2>3. "turn/interrupt" \in Methods /\ "intr" \in Waiting
    BY DEF Methods, Waiting
  <2>a. PICK q \in AgentType, r \in Request : CallMakes(a, cut, "turn/interrupt", "intr", broken, q, r)
    BY <1>1, <1>7, <2>1, <2>2, <2>3, Called
  <2>4. /\ agent' = [agent EXCEPT ![a] = q] /\ pending' = pending \cup {r.id}
        /\ r.id = <<a, agent[a].n + 1>> /\ r.method = "turn/interrupt" /\ r.turn = active[a]
        /\ q.n = agent[a].n + 1
        /\ \/ /\ proc \in alive /\ sent' = sent \cup {r}
              /\ q.pc = "intr" /\ q.reply = "none" /\ q.outcome = "none" /\ q.saw = cut.saw
           \/ /\ proc \notin alive /\ sent' = sent
              /\ q.pc = broken.pc /\ q.outcome = broken.outcome /\ q.saw = broken.saw \cup {"failed"}
    BY <1>7, <2>a DEF CallMakes
  <2>5. agent'[a] = q /\ agent[a].saw \subseteq q.saw
    BY <1>1, <1>7, <2>1, <2>4 DEF Types
  <2>6. Awaited(<<a, agent[a].n>>) => "cut" \in q.saw
    BY <1>8, <2>1, <2>4
  <2>7. CASE proc \in alive
    <3>1. /\ q.pc = "intr" /\ q.reply = "none" /\ q.outcome = "none" /\ q.saw = cut.saw
          /\ sent' = sent \cup {r} /\ row' = row
      BY <2>2, <2>4, <2>7
    <3>2. Starts(a)' = Starts(a)
      BY <2>4, <3>1 DEF Starts
    <3>3. Turned(a)'
      <4>1. CASE agent[a].pc = "turn"
        BY <1>7, <2>5, <3>1, <4>1, Unclean
      <4>2. CASE agent[a].pc = "loop"
        BY <1>1, <1>3, <1>5, <1>6, <1>7, <2>4, <2>5, <3>1, <3>2, <4>2 DEF Turned, Clean, Waiting
      <4> QED BY <1>2, <4>1, <4>2
    <3>4. Accounts(a)'
      BY <1>1, <1>2, <1>3, <1>7, <2>5, <3>1, <3>2, AccountsKept DEF InAttempt
    <3>5. Undisturbed(a)'
      BY <1>7, <2>5, <3>1 DEF Undisturbed
    <3>6. r.method = MethodAt(q.pc) /\ q.pc \in Waiting
      BY <2>4, <3>1 DEF MethodAt, Waiting
    <3>7. Stepping(a, q)
      BY <1>1, <1>2, <1>3, <1>5, <2>4, <2>5, <2>6, <3>1 DEF Stepping
    <3> QED BY <1>3, <1>11, <2>4, <2>6, <3>1, <3>3, <3>4, <3>5, <3>6, <3>7, AgentCalls DEF Fine
  <2>8. CASE proc \notin alive
    <3>1. /\ q.pc = "close" /\ q.outcome = "broken" /\ "failed" \in q.saw /\ sent' = sent
          /\ Starts(a)' = Starts(a) /\ row' = Failed(a, cut)
      BY <2>1, <2>2, <2>4, <2>8 DEF Starts
    <3>2. Accounts(a)' /\ row' \in [Agents -> RowType] /\ \A b \in Agents \ {a} : row'[b] = row[b]
      BY <1>1, <1>2, <1>3, <1>7, <2>5, <3>1, AccountsFailed
    <3>3. Stepping(a, q)
      BY <1>1, <1>2, <1>3, <1>5, <2>4, <2>5, <2>6, <3>2 DEF Stepping
    <3> QED BY <2>4, <3>1, <3>2, <3>3, AgentFails
  <2> QED BY <2>7, <2>8
<1> QED BY <1>10, <1>11

(* The first notification of the queue is taken.                           *)
LEMMA TakeNote ==
    ASSUME queue \in Seq(Note), queue # <<>>, queue' = Tail(queue)
    PROVE  /\ queue' \in Seq(Note) /\ Head(queue) \in Note
           /\ \A b \in Agents : EndsKept(b)
           /\ \A b \in Agents : Head(queue).thread = b /\ Head(queue).what # "delta" =>
                 Ends(b) # {} /\ ((\A i, j \in Ends(b) : i = j) => Ends(b)' = {})
<1>1. /\ queue' \in Seq(Note) /\ Head(queue) \in Note /\ Len(queue) \in Nat /\ Len(queue) > 0
      /\ Len(queue') = Len(queue) - 1 /\ Head(queue) = queue[1]
      /\ \A i \in 1 .. Len(queue') : queue'[i] = queue[i + 1]
  OBVIOUS
<1>2. ASSUME NEW b \in Agents, NEW i \in Ends(b)' PROVE i \in Nat /\ i > 0 /\ i + 1 \in Ends(b)
  <2>1. i \in 1 .. Len(queue') /\ queue'[i].thread = b /\ queue'[i].what # "delta"
    BY DEF Ends
  <2>2. i + 1 \in 1 .. Len(queue) /\ queue[i + 1] = queue'[i]
    BY <1>1, <2>1
  <2> QED BY <1>1, <2>1, <2>2 DEF Ends
<1>3. \A b \in Agents : EndsKept(b)
  <2> SUFFICES ASSUME NEW b \in Agents PROVE EndsKept(b)
    OBVIOUS
  <2>1. Ends(b)' # {} => Ends(b) # {}
    BY <1>2
  <2>2. ASSUME \A i, j \in Ends(b) : i = j, NEW i \in Ends(b)', NEW j \in Ends(b)' PROVE i = j
    <3>1. i \in Nat /\ j \in Nat /\ i + 1 = j + 1
      BY <1>2, <2>2
    <3> QED BY <3>1
  <2> QED BY <2>1, <2>2 DEF EndsKept
<1>4. ASSUME NEW b \in Agents, Head(queue).thread = b, Head(queue).what # "delta"
      PROVE  Ends(b) # {} /\ ((\A i, j \in Ends(b) : i = j) => Ends(b)' = {})
  <2>1. 1 \in Ends(b)
    BY <1>1, <1>4 DEF Ends
  <2>2. ASSUME \A i, j \in Ends(b) : i = j, NEW i \in Ends(b)' PROVE FALSE
    <3>1. i \in Nat /\ i > 0 /\ i + 1 = 1
      BY <1>2, <2>1, <2>2
    <3> QED BY <3>1
  <2> QED BY <2>1, <2>2
<1> QED BY <1>1, <1>3, <1>4

LEMMA ReadKeeps == ASSUME Sound, NEW a \in Agents, Read(a) PROVE Sound'
<1>1. /\ Types /\ CallsOK /\ Turned(a) /\ Accounts(a) /\ Undisturbed(a) /\ Fine(a)
      /\ agent[a] \in AgentType /\ agent[a].n \in Nat /\ queue \in Seq(Note) /\ errors \in Nat
      /\ active \in [Agents -> Ids \cup {NoTurn}] /\ row \in [Agents -> RowType]
      /\ (active[a] # NoTurn => Owner(active[a]) = a) /\ active[a] \in Ids \cup {NoTurn}
      /\ row[a] \in RowType
  BY Known DEF Fine
<1>2. agent[a].pc = "loop" /\ agent[a].outcome = "none" /\ "cancelled" \notin agent[a].saw
      /\ queue # <<>> /\ queue' = Tail(queue)
  BY <1>1 DEF Read, At, Accounts
<1>3. UNCHANGED <<pending, sent, turns, ran, archived, procs, errors>>
  BY DEF Read, server, bounds
<1>4. Awaited(<<a, agent[a].n>>) = FALSE
  BY <1>2 DEF Awaited, Owner, Waiting
<1>5. /\ queue' \in Seq(Note) /\ \A b \in Agents : EndsKept(b)
      /\ Head(queue).thread = a /\ Head(queue).what # "delta" =>
           Ends(a) # {} /\ ((\A i, j \in Ends(a) : i = j) => Ends(a)' = {})
  BY <1>1, <1>2, TakeNote
<1>6. TurnsOf(a)' = TurnsOf(a) /\ Starts(a)' = Starts(a)
  BY <1>3 DEF TurnsOf, Starts
<1> DEFINE note == Head(queue)
           mine == note.thread = a /\ note.turn \in {agent[a].turn, NoTurn}
<1>7. \/ UNCHANGED <<agent, row, active>>
      \/ Become(a, [agent[a] EXCEPT !.got = @ + 1]) /\ UNCHANGED <<row, active>>
      \/ /\ mine /\ note.what # "delta"
         /\ active' = [active EXCEPT ![a] = NoTurn] /\ TurnEnds(a, note)
  BY DEF Read
<1> HIDE DEF note
<1>8. CASE UNCHANGED <<agent, row, active>>
  <2>1. Fine(a)'
    BY <1>1, <1>3, <1>5, <1>6, <1>8, OthersFine
  <2>2. agent' = [agent EXCEPT ![a] = agent[a]]
    BY <1>1, <1>8 DEF Types
  <2>3. Stepping(a, agent[a])
    BY <1>1, <1>2, <1>3, <1>4, <1>5, <1>8, <2>2 DEF Stepping
  <2> QED BY <1>1, <1>2, <1>3, <2>1, <2>3, AgentMoves
<1>9. CASE Become(a, [agent[a] EXCEPT !.got = @ + 1]) /\ UNCHANGED <<row, active>>
  <2> DEFINE q == [agent[a] EXCEPT !.got = @ + 1]
  <2>0. agent[a] \in AgentType /\ agent[a].got \in Nat
    BY <1>1 DEF AgentType
  <2>1. /\ q \in AgentType /\ q.pc = "loop" /\ q.n = agent[a].n /\ q.status = agent[a].status
        /\ q.turn = agent[a].turn /\ q.outcome = agent[a].outcome /\ q.saw = agent[a].saw
    <3>1. agent[a].got + 1 \in Nat
      BY <2>0
    <3>2. PICK got \in Nat : got = agent[a].got + 1
      BY <3>1
    <3>3. q = [agent[a] EXCEPT !.got = got]
      BY <3>2
    <3> HIDE DEF q
    <3> QED BY <1>2, <2>0, <3>3 DEF AgentType
  <2>2. agent' = [agent EXCEPT ![a] = q] /\ row' = row /\ active' = active
    BY <1>9 DEF Become
  <2> HIDE DEF q
  <2>3. agent'[a] = q
    BY <1>1, <2>2 DEF Types
  <2>4. Turned(a)'
    BY <1>1, <1>2, <1>3, <1>5, <1>6, <2>1, <2>2, <2>3 DEF Turned, Clean, Waiting, EndsKept
  <2>5. Accounts(a)'
    BY <1>1, <1>2, <1>3, <1>6, <2>1, <2>2, <2>3, AccountsKept DEF InAttempt
  <2>6. Undisturbed(a)'
    BY <1>1, <1>2, <1>3, <2>1, <2>2, <2>3 DEF Undisturbed, Waiting
  <2>7. Stepping(a, q)
    BY <1>1, <1>2, <1>3, <1>4, <1>5, <2>1, <2>2 DEF Stepping
  <2> QED BY <1>3, <2>1, <2>4, <2>5, <2>6, <2>7, AgentMoves DEF Fine
<1>10. CASE /\ mine /\ note.what # "delta"
            /\ active' = [active EXCEPT ![a] = NoTurn] /\ TurnEnds(a, note)
  <2>1. Ends(a) # {} /\ ((\A i, j \in Ends(a) : i = j) => Ends(a)' = {})
    BY <1>5, <1>10 DEF note
  <2>2. active'[a] = NoTurn /\ \A b \in Agents \ {a} : active'[b] = active[b]
    BY <1>1, <1>10
  <2>3. active' \in [Agents -> Ids \cup {NoTurn}]
    BY <1>1, <1>10
  <2>4. SUFFICES ASSUME NEW q \in AgentType, agent' = [agent EXCEPT ![a] = q], agent'[a] = q,
                        q.pc \in {"run", "close"}, q.n = agent[a].n, q.saw = agent[a].saw,
                        q.status \in {"completed", agent[a].status}, Accounts(a)',
                        row' \in [Agents -> RowType], \A b \in Agents \ {a} : row'[b] = row[b]
                 PROVE  Sound'
    <3> DEFINE after == [agent[a] EXCEPT !.status = "completed"]
    <3>1. /\ after \in AgentType /\ after.status = "completed" /\ after.n = agent[a].n
          /\ after.saw = agent[a].saw /\ after.outcome = "none"
      BY <1>1, <1>2 DEF AgentType, Statuses
    <3>2. CASE note.what = "good" /\ Whole(agent[a])
      <4> DEFINE q == Closing(after, "answer")
                 w == [status |-> after.status, calls |-> row[a].calls + 1, failures |-> row[a].failures]
      <4>1. agent' = [agent EXCEPT ![a] = q] /\ row' = Counted(a, after)
        BY <1>10, <3>2 DEF TurnEnds, Become
      <4> HIDE DEF after
      <4>2. "answer" \in Outcomes
        BY DEF Outcomes
      <4>3. /\ q \in AgentType /\ q.pc = "close" /\ q.n = agent[a].n /\ q.saw = agent[a].saw
            /\ q.status = "completed" /\ q.outcome = "answer"
        BY <3>1, <4>2, Ended
      <4>4. row[a].calls \in Nat /\ row[a].failures \in Nat
        BY <1>1 DEF RowType
      <4>5. w \in RowType /\ w.calls = row[a].calls + 1 /\ w.failures = row[a].failures
        BY <3>1, <4>4 DEF RowType, Statuses
      <4>6. row' = [row EXCEPT ![a] = w]
        BY <1>1, <4>1 DEF Counted
      <4> HIDE DEF q, w
      <4>7. agent'[a] = q /\ row'[a] = w /\ row' \in [Agents -> RowType]
            /\ \A b \in Agents \ {a} : row'[b] = row[b]
        BY <1>1, <4>1, <4>5, <4>6 DEF Types
      <4>8. Accounts(a)'
        <5>1. Cardinality(Starts(a)) \in Nat /\ ran[a] \in Nat
          BY <1>1, StartsFinite DEF Types
        <5> QED BY <1>1, <1>2, <1>3, <1>6, <4>3, <4>4, <4>5, <4>7, <5>1 DEF Accounts, InAttempt
      <4> QED BY <2>4, <4>1, <4>3, <4>7, <4>8
    <3>3. CASE ~(note.what = "good" /\ Whole(agent[a]))
      <4>1. PICK error \in {"bad", "error"} : RunFails(a, agent[a], error)
        BY <1>10, <3>3 DEF TurnEnds
      <4>2. error \in Outcomes \ {"none", "answer"}
        BY DEF Outcomes
      <4>3. PICK q \in AgentType : FailsTo(a, agent[a], error, q)
        BY <1>1, <1>2, <1>3, <1>6, <4>1, <4>2, Failing
      <4>4. /\ agent' = [agent EXCEPT ![a] = q] /\ agent'[a] = q
            /\ q.pc \in {"run", "close"} /\ q.n = agent[a].n /\ q.saw = agent[a].saw
            /\ q.status = agent[a].status /\ Accounts(a)'
            /\ row' \in [Agents -> RowType] /\ \A b \in Agents \ {a} : row'[b] = row[b]
        BY <4>3 DEF FailsTo
      <4> QED BY <2>4, <4>4
    <3> QED BY <3>2, <3>3
  <2>5. Turned(a)'
    BY <1>1, <1>2, <1>3, <1>6, <2>1, <2>2, <2>4 DEF Turned, Clean, Waiting
  <2>6. Undisturbed(a)'
    BY <1>1, <1>2, <1>3, <2>2, <2>4 DEF Undisturbed, Waiting
  <2>7. Stepping(a, q)
    BY <1>1, <1>2, <1>3, <1>4, <1>5, <2>2, <2>3, <2>4 DEF Stepping
  <2> QED BY <1>3, <2>4, <2>5, <2>6, <2>7, AgentMoves DEF Fine
<1> QED BY <1>7, <1>8, <1>9, <1>10
-----------------------------------------------------------------------------
(* Notifications that are none of an agent's, and the end of its turn,     *)
(* added to the queue.                                                     *)
LEMMA AddNote ==
    ASSUME queue \in Seq(Note), NEW note \in Note, note.what # "delta", queue' = Append(queue, note)
    PROVE  /\ queue' \in Seq(Note) /\ Len(queue) \in Nat
           /\ \A b \in Agents : b # note.thread => EndsKept(b)
           /\ Ends(note.thread)' = Ends(note.thread) \cup {Len(queue) + 1}
<1>1. /\ queue' \in Seq(Note) /\ Len(queue) \in Nat /\ Len(queue') = Len(queue) + 1
      /\ queue'[Len(queue) + 1] = note /\ \A i \in 1 .. Len(queue) : queue'[i] = queue[i]
  OBVIOUS
<1>2. \A i \in 1 .. Len(queue') : i \in 1 .. Len(queue) \/ i = Len(queue) + 1
  BY <1>1
<1>3. 1 .. Len(queue) \subseteq 1 .. Len(queue') /\ Len(queue) + 1 \in 1 .. Len(queue')
  BY <1>1
<1>4. \A b \in Agents : b # note.thread => Ends(b)' = Ends(b)
  BY <1>1, <1>2, <1>3 DEF Ends
<1>5. Ends(note.thread)' = Ends(note.thread) \cup {Len(queue) + 1}
  BY <1>1, <1>2, <1>3 DEF Ends
<1> QED BY <1>1, <1>4, <1>5 DEF EndsKept

(* What a server does of a request of an agent.                            *)
ServedTo(a, r) ==
    /\ queue' \in Seq(Note) /\ turns' \subseteq [turn : Ids, at : Nat]
    /\ ran' \in [Agents -> Nat] /\ archived \subseteq archived'
    /\ \A b \in Agents \ {a} : EndsKept(b) /\ TurnsOf(b)' \subseteq TurnsOf(b) /\ ran'[b] = ran[b]
    /\ \/ /\ r.method = "turn/start" /\ ran'[a] = ran[a] + 1
          /\ TurnsOf(a)' = TurnsOf(a) \cup {[turn |-> r.id, at |-> r.to]} /\ Ends(a)' = Ends(a)
       \/ /\ r.method = "turn/interrupt" /\ ran'[a] = ran[a] /\ \E t \in TurnsOf(a) : t.turn = r.turn
          /\ TurnsOf(a)' = {t \in TurnsOf(a) : t.turn # r.turn}
          /\ Len(queue) \in Nat /\ Ends(a)' = Ends(a) \cup {Len(queue) + 1}
       \/ /\ ran'[a] = ran[a] /\ TurnsOf(a)' = TurnsOf(a) /\ Ends(a)' = Ends(a)
          /\ r.method # "turn/start"
          /\ r.method = "turn/interrupt" => \A t \in TurnsOf(a) : t.turn # r.turn

LEMMA Serves ==
    ASSUME Sound, NEW r \in sent, Served(r), NEW a \in Agents, a = Owner(r.id)
    PROVE  ServedTo(a, r)
<1>1. /\ Types /\ queue \in Seq(Note) /\ ran \in [Agents -> Nat] /\ ran[a] \in Nat
      /\ turns \subseteq [turn : Ids, at : Nat]
  BY Known DEF Types
<1>2. /\ r \in Request /\ r.id \in Ids /\ r.to \in Nat
      /\ r.method = "turn/interrupt" => r.turn \in Ids /\ Owner(r.turn) = a
  BY <1>1 DEF Sound, CallsOK, CallOK, Types, Request
<1>3. archived \subseteq archived'
  BY DEF Served
<1>4. ran' = [ran EXCEPT ![a] = IF r.method = "turn/start" THEN @ + 1 ELSE @]
  BY DEF Served
<1>5. /\ ran' \in [Agents -> Nat] /\ \A b \in Agents \ {a} : ran'[b] = ran[b]
      /\ ran'[a] = IF r.method = "turn/start" THEN ran[a] + 1 ELSE ran[a]
  BY <1>1, <1>4
<1>6. CASE r.method = "turn/start"
  <2>1. turns' = turns \cup {[turn |-> r.id, at |-> r.to]} /\ queue' = queue
    BY <1>6 DEF Served
  <2>2. turns' \subseteq [turn : Ids, at : Nat]
    BY <1>1, <1>2, <2>1
  <2>3. \A b \in Agents : EndsKept(b) /\ Ends(b)' = Ends(b)
    BY <2>1, SameEnds
  <2>4. TurnsOf(a)' = TurnsOf(a) \cup {[turn |-> r.id, at |-> r.to]}
    BY <2>1 DEF TurnsOf
  <2>5. \A b \in Agents \ {a} : TurnsOf(b)' \subseteq TurnsOf(b)
    BY <2>1 DEF TurnsOf
  <2> QED BY <1>1, <1>3, <1>5, <1>6, <2>1, <2>2, <2>3, <2>4, <2>5 DEF ServedTo
<1>7. CASE r.method = "turn/interrupt"
  <2>1. turns' = {t \in turns : t.turn # r.turn}
    BY <1>7 DEF Served
  <2>2. turns' \subseteq [turn : Ids, at : Nat] /\ \A b \in Agents : TurnsOf(b)' \subseteq TurnsOf(b)
    BY <1>1, <2>1 DEF TurnsOf
  <2>3. TurnsOf(a)' = {t \in TurnsOf(a) : t.turn # r.turn}
    BY <2>1 DEF TurnsOf
  <2>4. CASE Running(r.turn)
    <3> DEFINE note == [thread |-> a, turn |-> r.turn, what |-> "bad"]
    <3>1. note \in Note /\ note.what # "delta" /\ note.thread = a
      BY <1>2, <1>7 DEF Note
    <3>2. queue' = Append(queue, note)
      BY <1>7, <2>4 DEF Served
    <3> HIDE DEF note
    <3>3. /\ queue' \in Seq(Note) /\ Len(queue) \in Nat /\ \A b \in Agents : b # a => EndsKept(b)
          /\ Ends(a)' = Ends(a) \cup {Len(queue) + 1}
      BY <1>1, <3>1, <3>2, AddNote
    <3>4. \E t \in TurnsOf(a) : t.turn = r.turn
      BY <1>2, <1>7, <2>4 DEF Running, TurnsOf
    <3> QED BY <1>1, <1>3, <1>5, <1>7, <2>2, <2>3, <3>3, <3>4 DEF ServedTo
  <2>5. CASE ~Running(r.turn)
    <3>1. queue' = queue
      BY <2>5 DEF Served
    <3>2. \A b \in Agents : EndsKept(b) /\ Ends(b)' = Ends(b)
      BY <3>1, SameEnds
    <3>3. \A t \in TurnsOf(a) : t.turn # r.turn
      BY <2>5 DEF Running, TurnsOf
    <3>4. TurnsOf(a)' = TurnsOf(a)
      BY <2>3, <3>3
    <3> QED BY <1>1, <1>3, <1>5, <1>7, <2>2, <3>1, <3>2, <3>3, <3>4 DEF ServedTo
  <2> QED BY <2>4, <2>5
<1>8. CASE r.method \notin {"turn/start", "turn/interrupt"}
  <2>1. turns' = turns /\ queue' = queue
    BY <1>8 DEF Served
  <2>2. \A b \in Agents : EndsKept(b) /\ Ends(b)' = Ends(b) /\ TurnsOf(b)' = TurnsOf(b)
    BY <2>1, SameEnds DEF TurnsOf
  <2> QED BY <1>1, <1>3, <1>5, <1>8, <2>1, <2>2 DEF ServedTo
<1> QED BY <1>6, <1>7, <1>8

(* What an answer that is read means for the turns of its agent.           *)
LEMMA AnswerServes ==
    ASSUME Sound, NEW r \in sent, NEW result \in {"ok", "error", "odd"}, Answer(r, result),
           NEW a \in Agents, a = Owner(r.id)
    PROVE  /\ queue' \in Seq(Note) /\ errors' \in Nat /\ turns' \subseteq [turn : Ids, at : Nat]
           /\ ran' \in [Agents -> Nat] /\ archived \subseteq archived'
           /\ \A b \in Agents \ {a} : EndsKept(b) /\ TurnsOf(b)' \subseteq TurnsOf(b) /\ ran'[b] = ran[b]
           /\ \/ /\ r.method = "turn/start" /\ (result = "ok" \/ errors' > errors) /\ ran'[a] = ran[a] + 1
                 /\ TurnsOf(a)' = TurnsOf(a) \cup {[turn |-> r.id, at |-> r.to]} /\ Ends(a)' = Ends(a)
              \/ /\ r.method = "turn/interrupt" /\ result = "ok" /\ ran'[a] = ran[a]
                 /\ \E t \in TurnsOf(a) : t.turn = r.turn
                 /\ TurnsOf(a)' = {t \in TurnsOf(a) : t.turn # r.turn}
                 /\ Len(queue) \in Nat /\ Ends(a)' = Ends(a) \cup {Len(queue) + 1}
              \/ /\ ran'[a] = ran[a] /\ TurnsOf(a)' = TurnsOf(a) /\ Ends(a)' = Ends(a)
                 /\ result = "ok" => r.method # "turn/start"
                 /\ result # "ok" => errors' > errors \/ (result = "error" /\ r.method = "turn/interrupt")
                 /\ r.method = "turn/interrupt" /\ ~(errors' > errors) => \A t \in TurnsOf(a) : t.turn # r.turn
<1>1. /\ Types /\ queue \in Seq(Note) /\ errors \in Nat /\ ran \in [Agents -> Nat] /\ ran[a] \in Nat
      /\ turns \subseteq [turn : Ids, at : Nat]
  BY Known DEF Types
<1>2. CASE result = "error"
  <2>1. UNCHANGED <<turns, queue, ran, archived>> /\ Refused(r)
    BY <1>2 DEF Answer
  <2>2. errors' \in Nat /\ (errors' > errors \/ (errors' = errors /\ r.method = "turn/interrupt" /\ ~Running(r.turn)))
    BY <1>1, <2>1 DEF Refused
  <2>3. \A b \in Agents : EndsKept(b) /\ Ends(b)' = Ends(b) /\ TurnsOf(b)' = TurnsOf(b)
    BY <2>1, SameEnds DEF TurnsOf
  <2>4. r.method = "turn/interrupt" /\ ~(errors' > errors) => \A t \in TurnsOf(a) : t.turn # r.turn
    BY <2>2 DEF Running, TurnsOf
  <2> QED BY <1>1, <1>2, <2>1, <2>2, <2>3, <2>4
<1>3. CASE result = "ok"
  <2>1. Served(r) /\ errors' = errors
    BY <1>3 DEF Answer
  <2>2. ServedTo(a, r)
    BY <2>1, Serves
  <2> QED BY <1>1, <1>3, <2>1, <2>2 DEF ServedTo
<1>4. CASE result = "odd"
  <2>1. Served(r) /\ errors' = errors + 1 /\ r.method # "turn/interrupt"
    BY <1>4 DEF Answer
  <2>2. ServedTo(a, r) /\ errors' \in Nat /\ errors' > errors
    BY <1>1, <2>1, Serves
  <2> QED BY <1>4, <2>1, <2>2 DEF ServedTo
<1> QED BY <1>2, <1>3, <1>4

LEMMA AnswerKept ==
    ASSUME Sound, NEW r \in sent, NEW result \in {"ok", "error", "odd"}, Answer(r, result) PROVE Sound'
<1>0. PICK a \in Agents : a = Owner(r.id)
  BY IdParts DEF Sound, Types, Request
<1>1. /\ Types /\ CallsOK /\ Turned(a) /\ Accounts(a) /\ Undisturbed(a) /\ ReaderSurvives
      /\ agent[a] \in AgentType /\ agent[a].n \in Nat /\ \A b \in Agents : Fine(b)
      /\ agent[a].saw \subseteq {"failed", "cut", "overran", "cancelled"}
  BY Known DEF Sound
<1>2. /\ r.id \in Ids /\ r.id[2] \in Nat /\ r.id = <<a, r.id[2]>> /\ CallOK(r)
  BY <1>0, <1>1, IdParts DEF CallsOK, Types, Request
<1>3. /\ queue' \in Seq(Note) /\ errors' \in Nat /\ turns' \subseteq [turn : Ids, at : Nat]
      /\ ran' \in [Agents -> Nat] /\ archived \subseteq archived'
      /\ \A b \in Agents \ {a} : EndsKept(b) /\ TurnsOf(b)' \subseteq TurnsOf(b) /\ ran'[b] = ran[b]
  BY <1>0, AnswerServes
<1>4. \/ /\ r.method = "turn/start" /\ (result = "ok" \/ errors' > errors) /\ ran'[a] = ran[a] + 1
         /\ TurnsOf(a)' = TurnsOf(a) \cup {[turn |-> r.id, at |-> r.to]} /\ Ends(a)' = Ends(a)
      \/ /\ r.method = "turn/interrupt" /\ result = "ok" /\ ran'[a] = ran[a]
         /\ \E t \in TurnsOf(a) : t.turn = r.turn
         /\ TurnsOf(a)' = {t \in TurnsOf(a) : t.turn # r.turn}
         /\ Len(queue) \in Nat /\ Ends(a)' = Ends(a) \cup {Len(queue) + 1}
      \/ /\ ran'[a] = ran[a] /\ TurnsOf(a)' = TurnsOf(a) /\ Ends(a)' = Ends(a)
         /\ result = "ok" => r.method # "turn/start"
         /\ result # "ok" => errors' > errors \/ (result = "error" /\ r.method = "turn/interrupt")
         /\ r.method = "turn/interrupt" /\ ~(errors' > errors) => \A t \in TurnsOf(a) : t.turn # r.turn
  BY <1>0, AnswerServes
<1> DEFINE told == r.id \in pending /\ Awaited(r.id)
           q == [[agent[a] EXCEPT !.reply = result] EXCEPT
                    !.saw = IF errors' > errors THEN agent[a].saw \cup {"failed"} ELSE agent[a].saw]
<1>5. /\ sent' = sent \ {r} /\ pending' = pending \ {r.id}
      /\ UNCHANGED <<row, active, proc, spawned, alive, garbled>>
      /\ readers' = IF (r.id \in pending /\ ~Awaited(r.id)) \/ r.to # proc
                    THEN readers \ {r.to} ELSE readers
  BY DEF Answer
<1>6. told => agent' = [agent EXCEPT ![a] = q]
  <2> SUFFICES ASSUME told PROVE agent' = [agent EXCEPT ![a] = q]
    OBVIOUS
  <2>1. agent' = [agent EXCEPT ![a].reply = result,
                               ![a].saw = IF errors' > errors THEN @ \cup {"failed"} ELSE @]
    BY <1>0 DEF Answer
  <2> QED BY <1>1, <2>1 DEF Types, AgentType
<1>7. ~told => agent' = agent
  BY DEF Answer
<1>8. /\ q \in AgentType /\ q.pc = agent[a].pc /\ q.n = agent[a].n /\ q.status = agent[a].status
      /\ q.turn = agent[a].turn /\ q.outcome = agent[a].outcome /\ q.reply = result
      /\ q.saw = IF errors' > errors THEN agent[a].saw \cup {"failed"} ELSE agent[a].saw
  BY <1>1 DEF AgentType
<1> HIDE DEF q
<1>9. told => /\ agent[a].pc \in Waiting /\ r.id = <<a, agent[a].n>> /\ agent[a].reply = "none"
              /\ r.method = MethodAt(agent[a].pc) /\ agent'[a] = q
              /\ agent[a].pc \in {"intr", "cintr"} => r.turn = active[a]
  BY <1>0, <1>1, <1>2, <1>6 DEF Awaited, CallOK, Types
<1>10. \A b \in Agents \ {a} : agent'[b] = agent[b]
  BY <1>1, <1>6, <1>7 DEF Types
<1>11. Types'
  <2>1. IsFiniteSet(sent') /\ sent' \subseteq Request
    BY <1>1, <1>5, FS_Subset DEF Types
  <2>2. agent' \in [Agents -> AgentType]
    BY <1>1, <1>6, <1>7, <1>8 DEF Types
  <2>3. readers' \subseteq Nat
    BY <1>1, <1>5 DEF Types
  <2> QED BY <1>1, <1>3, <1>5, <2>1, <2>2, <2>3 DEF Types
<1>12. \A b \in Agents : agent[b].saw \subseteq agent'[b].saw
  BY <1>7, <1>8, <1>9, <1>10
<1>13. ReaderSurvives'
  <2> SUFFICES ASSUME proc' \in alive' \ readers' PROVE  proc' \in garbled' \/ \E b \in Agents : "cut" \in agent'[b].saw
    BY DEF ReaderSurvives
  <2>1. CASE proc \notin readers
    BY <1>1, <1>5, <1>12, <2>1 DEF ReaderSurvives
  <2>2. CASE proc \in readers
    <3>1. r.id \in pending /\ ~Awaited(r.id)
      BY <1>5, <2>2
    <3>2. "cut" \in agent[a].saw
      BY <1>0, <1>2, <3>1 DEF CallOK
    <3> QED BY <1>12, <3>2
  <2> QED BY <2>1, <2>2
<1>14. CallsOK'
  <2>1. ASSUME NEW s \in sent' PROVE CallOK(s)'
    <3>1. s \in sent /\ CallOK(s) /\ s.id # r.id /\ s.id \in Ids /\ Owner(s.id) \in Agents
          /\ s.id = <<Owner(s.id), s.id[2]>>
      BY <1>1, <1>5, IdParts DEF CallsOK, Types, Request
    <3>2. CASE Owner(s.id) = a
      <4>1. told => ~Awaited(s.id)
        BY <1>0, <1>9, <3>1, <3>2 DEF Awaited
      <4>2. /\ agent'[a].pc = agent[a].pc /\ agent'[a].n = agent[a].n
            /\ agent[a].saw \subseteq agent'[a].saw
        BY <1>7, <1>8, <1>9, <1>12
      <4>3. ~told => (Awaited(s.id) => Awaited(s.id)')
        BY <1>7 DEF Awaited
      <4> QED BY <1>5, <3>1, <3>2, <4>1, <4>2, <4>3 DEF CallOK
    <3>3. CASE Owner(s.id) # a
      <4>1. agent'[Owner(s.id)] = agent[Owner(s.id)]
        BY <1>10, <3>1, <3>3
      <4>2. Awaited(s.id) => Awaited(s.id)'
        BY <4>1 DEF Awaited
      <4> QED BY <1>5, <3>1, <4>1, <4>2 DEF CallOK
    <3> QED BY <3>2, <3>3
  <2>2. \A s, t \in sent' : s.id = t.id => s = t
    BY <1>1, <1>5 DEF CallsOK
  <2>3. \A b \in Agents : agent'[b].pc \in {"idle", "spawn"} => agent'[b].n = 0 /\ agent'[b].reply = "none"
    <3>1. \A b \in Agents : agent[b].pc \in {"idle", "spawn"} => agent[b].n = 0 /\ agent[b].reply = "none"
      BY <1>1 DEF CallsOK
    <3>2. told => agent'[a].pc \notin {"idle", "spawn"}
      BY <1>8, <1>9 DEF Waiting
    <3> QED BY <1>7, <1>10, <3>1, <3>2
  <2>4. \A b \in Agents : active'[b] # NoTurn => Owner(active'[b]) = b
    BY <1>1, <1>5 DEF CallsOK
  <2> QED BY <2>1, <2>2, <2>3, <2>4 DEF CallsOK
<1>15. \A b \in Agents \ {a} : Fine(b)'
  <2> SUFFICES ASSUME NEW b \in Agents \ {a} PROVE Fine(b)'
    OBVIOUS
  <2>1. b \in Agents /\ Fine(b) /\ row'[b] = row[b] /\ active'[b] = active[b] /\ agent'[b] = agent[b]
        /\ ran'[b] = ran[b] /\ TurnsOf(b)' \subseteq TurnsOf(b) /\ EndsKept(b)
    BY <1>1, <1>3, <1>5, <1>10
  <2>2. Starts(b)' \subseteq Starts(b)
    BY <1>5 DEF Starts
  <2>3. <<b, agent[b].n>> \in pending => <<b, agent[b].n>> \in pending'
    BY <1>2, <1>5
  <2> QED BY <1>1, <1>3, <2>1, <2>2, <2>3, OthersFine
<1>16. Starts(a)' = Starts(a) \ {r} /\ (r.method = "turn/start" => r \in Starts(a))
  BY <1>0, <1>5 DEF Starts
<1>17. Turned(a)'
  <2>1. CASE told
    <3>1. CASE errors' > errors
      BY <1>8, <1>9, <2>1, <3>1, Unclean
    <3>2. CASE ~(errors' > errors)
      <4>1. agent'[a].saw = agent[a].saw /\ agent'[a] = q
        BY <1>8, <1>9, <2>1, <3>2
      <4>2. CASE agent[a].pc = "turn"
        <5>1. SUFFICES ASSUME Clean(a) PROVE Turned(a)'
          BY <4>1 DEF Turned, Clean
        <5>2. r.method = "turn/start" /\ r.id = <<a, agent[a].n>> /\ agent[a].reply = "none"
          BY <1>9, <2>1, <4>2 DEF MethodAt
        <5>3. /\ result = "ok" /\ TurnsOf(a)' = TurnsOf(a) \cup {[turn |-> r.id, at |-> r.to]}
              /\ Ends(a)' = Ends(a)
          BY <1>4, <3>2, <5>2
        <5>4. TurnsOf(a) = {} /\ Ends(a) = {} /\ \A s \in Starts(a) : s.id = r.id
          BY <1>1, <1>16, <4>2, <5>1, <5>2 DEF Turned
        <5>5. Starts(a)' = {}
          BY <1>1, <1>16, <5>4 DEF CallsOK, Starts
        <5> QED BY <1>1, <1>8, <4>1, <4>2, <5>1, <5>2, <5>3, <5>4, <5>5 DEF Turned, Waiting
      <4>3. CASE agent[a].pc \in {"intr", "cintr"}
        BY <1>1, <1>2, <1>4, <1>5, <1>8, <1>9, <1>16, <2>1, <3>2, <4>1, <4>3 DEF Turned, Clean, Waiting, MethodAt
      <4>4. CASE agent[a].pc \in {"init", "thread", "arch"}
        BY <1>1, <1>2, <1>4, <1>5, <1>8, <1>9, <1>16, <2>1, <3>2, <4>1, <4>4 DEF Turned, Clean, Waiting, MethodAt
      <4> QED BY <1>9, <2>1, <4>2, <4>3, <4>4 DEF Waiting
    <3> QED BY <3>1, <3>2
  <2>2. CASE ~told
    <3>1. agent'[a] = agent[a] /\ active'[a] = active[a]
      BY <1>5, <1>7, <2>2
    <3>2. Clean(a) => r.method # "turn/start"
      <4> SUFFICES ASSUME Clean(a), r.method = "turn/start" PROVE FALSE
        OBVIOUS
      <4>1. agent[a].pc = "turn" /\ agent[a].reply = "none" /\ r.id = <<a, agent[a].n>>
        BY <1>1, <1>16 DEF Turned
      <4>2. r.id \in pending
        BY <1>1, <4>1 DEF Turned, Waiting
      <4>3. Awaited(r.id)
        BY <1>0, <4>1 DEF Awaited, Waiting
      <4> QED BY <2>2, <4>2, <4>3
    <3>3. Clean(a) /\ agent[a].pc \in Waiting /\ agent[a].reply = "none" => <<a, agent[a].n>> \in pending'
      <4> SUFFICES ASSUME Clean(a), agent[a].pc \in Waiting, agent[a].reply = "none"
                   PROVE  <<a, agent[a].n>> \in pending'
        OBVIOUS
      <4>1. <<a, agent[a].n>> \in pending
        BY <1>1 DEF Turned
      <4>2. ASSUME r.id = <<a, agent[a].n>> PROVE FALSE
        <5>1. Awaited(r.id)
          BY <1>0, <4>2 DEF Awaited
        <5> QED BY <2>2, <4>1, <4>2, <5>1
      <4> QED BY <1>5, <4>1, <4>2
    <3> QED BY <1>1, <1>2, <1>4, <1>16, <3>1, <3>2, <3>3 DEF Turned, Clean, Waiting
  <2> QED BY <2>1, <2>2
<1>18. Accounts(a)'
  <2>1. /\ agent'[a].pc = agent[a].pc /\ agent'[a].outcome = agent[a].outcome
        /\ ("cancelled" \in agent'[a].saw <=> "cancelled" \in agent[a].saw)
    BY <1>7, <1>8, <1>9
  <2>2. IsFiniteSet(Starts(a)) /\ Cardinality(Starts(a)) \in Nat
    BY <1>1, StartsFinite
  <2>3. ran[a] \in Nat /\ ran'[a] \in Nat /\ row[a].calls \in Nat
    BY <1>1, <1>3 DEF Types, RowType
  <2>4. Cardinality(Starts(a)') + ran'[a] <= Cardinality(Starts(a)) + ran[a] /\ Cardinality(Starts(a)') \in Nat
    <3>1. Cardinality(Starts(a)') \in Nat /\ Cardinality(Starts(a)') <= Cardinality(Starts(a))
      BY <1>1, <1>16, FewerStarts
    <3>2. r.method = "turn/start" => Cardinality(Starts(a)') = Cardinality(Starts(a)) - 1
      BY <1>16, <2>2, FS_RemoveElement
    <3>3. \/ r.method = "turn/start" /\ ran'[a] = ran[a] + 1
          \/ ran'[a] = ran[a]
      BY <1>4
    <3> QED BY <2>2, <2>3, <3>1, <3>2, <3>3
  <2>5. row'[a] = row[a]
    BY <1>5
  <2> QED BY <1>1, <2>1, <2>2, <2>3, <2>4, <2>5 DEF Accounts
<1>19. Undisturbed(a)'
  <2>1. CASE told /\ errors' > errors
    BY <1>8, <1>9, <2>1 DEF Undisturbed
  <2>2. CASE told /\ ~(errors' > errors)
    <3>1. agent'[a] = q /\ q.saw = agent[a].saw /\ agent[a].pc \in Waiting /\ r.method = MethodAt(agent[a].pc)
      BY <1>8, <1>9, <2>2
    <3>2. SUFFICES ASSUME agent[a].saw = {} PROVE Undisturbed(a)'
      BY <3>1 DEF Undisturbed
    <3>3. agent[a].pc \notin {"intr", "cintr"} /\ agent[a].status # "interrupted"
          /\ (active[a] # NoTurn => agent[a].pc = "loop")
      BY <1>1, <3>2 DEF Undisturbed
    <3>4. r.method # "turn/interrupt"
      BY <3>1, <3>3 DEF MethodAt, Waiting
    <3>5. result = "ok"
      BY <1>4, <2>2, <3>4
    <3>6. agent[a].pc = "arch" => a \in archived'
      <4>1. ASSUME agent[a].pc = "arch" PROVE r.method = "thread/archive"
        BY <3>1, <4>1 DEF MethodAt
      <4>2. Served(r)
        BY <3>5 DEF Answer
      <4> QED BY <1>0, <4>1, <4>2 DEF Served
    <3> QED BY <1>5, <1>8, <3>1, <3>3, <3>5, <3>6 DEF Undisturbed, Waiting
  <2>3. CASE ~told
    BY <1>1, <1>3, <1>5, <1>7, <2>3 DEF Undisturbed
  <2> QED BY <2>1, <2>2, <2>3
<1> QED BY <1>11, <1>13, <1>14, <1>15, <1>17, <1>18, <1>19 DEF Sound, Fine
-----------------------------------------------------------------------------
(* The pieces of a turn and its end are added to the queue.                *)
LEMMA AddNotes ==
    ASSUME queue \in Seq(Note), NEW piece \in Note, piece.what = "delta", NEW note \in Note,
           note.what # "delta", note.thread = piece.thread,
           queue' = queue \o Append([i \in 1 .. Deltas |-> piece], note)
    PROVE  /\ queue' \in Seq(Note)
           /\ \A b \in Agents : b # note.thread => EndsKept(b)
           /\ Ends(note.thread)' = Ends(note.thread) \cup {Len(queue) + Deltas + 1}
<1> DEFINE pieces == [i \in 1 .. Deltas |-> piece]
           last   == Len(queue) + Deltas + 1
<1>1. Deltas \in Nat /\ Len(queue) \in Nat
  BY ConstantsAssumption
<1>2. pieces \in Seq(Note) /\ Len(pieces) = Deltas /\ \A i \in 1 .. Deltas : pieces[i] = piece
  BY <1>1
<1> HIDE DEF pieces
<1>3. /\ Append(pieces, note) \in Seq(Note) /\ Len(Append(pieces, note)) = Deltas + 1
      /\ Append(pieces, note)[Deltas + 1] = note
      /\ \A i \in 1 .. Deltas : Append(pieces, note)[i] = piece
  BY <1>1, <1>2
<1>4. PICK more : more = Append(pieces, note)
  OBVIOUS
<1>5. queue' = queue \o more
  BY <1>4 DEF pieces
<1>6. more \in Seq(Note) /\ Len(more) = Deltas + 1 /\ more[Deltas + 1] = note
      /\ \A i \in 1 .. Deltas : more[i] = piece
  BY <1>3, <1>4
<1>7. queue' \in Seq(Note) /\ Len(queue') = last
  BY <1>1, <1>5, <1>6
<1>8. \A i \in 1 .. Len(queue) : queue'[i] = queue[i]
  BY <1>1, <1>5, <1>6
<1>9. ASSUME NEW i \in 1 .. last, i \notin 1 .. Len(queue), i # last PROVE queue'[i] = piece
  <2>1. i - Len(queue) \in 1 .. Deltas
    BY <1>1, <1>9
  <2>2. queue'[i] = more[i - Len(queue)]
    BY <1>1, <1>5, <1>6, <1>9, <2>1
  <2> QED BY <1>6, <2>1, <2>2
<1>10. queue'[last] = note
  <2>1. queue'[last] = more[last - Len(queue)]
    BY <1>1, <1>5, <1>6
  <2>2. last - Len(queue) = Deltas + 1
    BY <1>1
  <2> QED BY <1>6, <2>1, <2>2
<1>11. 1 .. Len(queue) \subseteq 1 .. last /\ last \in 1 .. last
  BY <1>1
<1> HIDE DEF last
<1>12. \A b \in Agents : b # note.thread => Ends(b)' = Ends(b)
  <2> SUFFICES ASSUME NEW b \in Agents, b # note.thread PROVE Ends(b)' = Ends(b)
    OBVIOUS
  <2>1. \A i \in 1 .. last : queue'[i].thread = b => i \in 1 .. Len(queue)
    BY <1>9, <1>10
  <2> QED BY <1>7, <1>8, <1>11, <2>1 DEF Ends
<1>13. Ends(note.thread)' = Ends(note.thread) \cup {last}
  <2>1. \A i \in 1 .. last : queue'[i].what # "delta" => i \in 1 .. Len(queue) \/ i = last
    BY <1>9
  <2> QED BY <1>7, <1>8, <1>10, <1>11, <2>1 DEF Ends
<1> QED BY <1>7, <1>12, <1>13 DEF EndsKept, last

LEMMA NotifyKept == ASSUME Sound, NEW t \in turns, Notify(t) PROVE Sound'
<1>0. t.turn \in Ids /\ t.at \in Nat /\ turns \subseteq [turn : Ids, at : Nat]
  BY DEF Sound, Types
<1>1. PICK a \in Agents : a = Owner(t.turn)
  BY <1>0, IdParts
<1>2. /\ Types /\ CallsOK /\ Turned(a) /\ Accounts(a) /\ Undisturbed(a) /\ ReaderSurvives
      /\ queue \in Seq(Note) /\ errors \in Nat /\ \A b \in Agents : Fine(b)
  BY Known DEF Sound
<1>3. /\ turns' = turns \ {t} /\ UNCHANGED <<agent, row, pending, active, sent, ran, archived>>
      /\ UNCHANGED <<proc, spawned, alive, readers, garbled>>
  BY DEF Notify, client, procs
<1>4. PICK id \in {t.turn, NoTurn}, what \in {"good", "bad", "odd"} :
         /\ queue' = queue \o Append([i \in 1 .. Deltas |-> [thread |-> a, turn |-> t.turn, what |-> "delta"]],
                                     [thread |-> a, turn |-> id, what |-> what])
         /\ errors' = errors \/ errors' = errors + 1
  BY <1>1 DEF Notify, Pieces, Notice
<1> DEFINE piece == [thread |-> a, turn |-> t.turn, what |-> "delta"]
           note  == [thread |-> a, turn |-> id, what |-> what]
<1>5. piece \in Note /\ piece.what = "delta" /\ note \in Note /\ note.what # "delta" /\ note.thread = a
      /\ note.thread = piece.thread
  BY <1>0, <1>4 DEF Note
<1>6. queue' = queue \o Append([i \in 1 .. Deltas |-> piece], note)
  BY <1>4
<1> HIDE DEF piece, note
<1>7. /\ queue' \in Seq(Note) /\ \A b \in Agents : b # a => EndsKept(b)
      /\ Ends(a)' = Ends(a) \cup {Len(queue) + Deltas + 1}
  BY <1>2, <1>5, <1>6, AddNotes
<1>8. Types'
  BY <1>2, <1>3, <1>4, <1>7 DEF Types
<1>9. CallsOK'
  BY <1>2, <1>3 DEF CallsOK, CallOK, Awaited
<1>10. ReaderSurvives'
  BY <1>2, <1>3 DEF ReaderSurvives
<1>11. \A b \in Agents \ {a} : Fine(b)'
  <2> SUFFICES ASSUME NEW b \in Agents \ {a} PROVE Fine(b)'
    OBVIOUS
  <2>1. TurnsOf(b)' \subseteq TurnsOf(b) /\ Starts(b)' \subseteq Starts(b)
    BY <1>3 DEF TurnsOf, Starts
  <2> QED BY <1>2, <1>3, <1>7, <2>1, OthersFine
<1>12. t \in TurnsOf(a) /\ TurnsOf(a)' = TurnsOf(a) \ {t} /\ Starts(a)' = Starts(a)
  BY <1>1, <1>3 DEF TurnsOf, Starts
<1>13. Turned(a)'
  <2> SUFFICES ASSUME Clean(a) PROVE Turned(a)'
    BY <1>3 DEF Turned, Clean
  <2>1. Ends(a) = {} /\ TurnsOf(a)' = {}
    BY <1>2, <1>12 DEF Turned
  <2>2. \/ agent[a].pc \in {"loop", "intr", "cintr", "close"}
        \/ agent[a].pc = "turn" /\ agent[a].reply \in {"none", "ok"}
    BY <1>2, <1>12 DEF Turned
  <2>3. Starts(a) = {}
    BY <1>2, <1>12 DEF Turned
  <2> QED BY <1>2, <1>3, <1>7, <1>12, <2>1, <2>2, <2>3 DEF Turned, Clean, Waiting
<1>14. Accounts(a)' /\ Undisturbed(a)'
  BY <1>2, <1>3, <1>12 DEF Accounts, Undisturbed
<1> QED BY <1>8, <1>9, <1>10, <1>11, <1>13, <1>14 DEF Sound, Fine
-----------------------------------------------------------------------------
LEMMA ExitKept == ASSUME Sound, NEW p \in alive, Exit(p) PROVE Sound'
<1> DEFINE told == IF p \in readers THEN {a \in Agents : <<a, agent[a].n>> \in pending
                                                       /\ Awaited(<<a, agent[a].n>>)}
                   ELSE {}
           gone(a) == [[agent[a] EXCEPT !.reply = "gone"] EXCEPT !.saw = agent[a].saw \cup {"failed"}]
<1>1. Types /\ CallsOK /\ ReaderSurvives /\ \A b \in Agents : Fine(b)
  BY DEF Sound
<1>2. /\ alive' = alive \ {p} /\ readers' = readers \ {p}
      /\ pending' = (IF p \in readers THEN {} ELSE pending)
      /\ sent' = {r \in sent : r.to # p} /\ turns' = {t \in turns : t.at # p}
      /\ UNCHANGED <<row, active, queue, ran, archived, proc, spawned, garbled, errors>>
  BY DEF Exit
<1>3. agent' = [a \in Agents |-> IF a \in told THEN gone(a) ELSE agent[a]]
  <2>1. agent' = [a \in Agents |-> IF a \in told
                                   THEN [agent[a] EXCEPT !.reply = "gone", !.saw = @ \cup {"failed"}]
                                   ELSE agent[a]]
    BY DEF Exit
  <2>2. \A a \in Agents : [agent[a] EXCEPT !.reply = "gone", !.saw = @ \cup {"failed"}] = gone(a)
    BY <1>1 DEF Types, AgentType
  <2> QED BY <2>1, <2>2
<1>4. \A a \in Agents : /\ gone(a) \in AgentType /\ gone(a).pc = agent[a].pc /\ gone(a).n = agent[a].n
                        /\ gone(a).outcome = agent[a].outcome /\ "failed" \in gone(a).saw
                        /\ gone(a).saw = agent[a].saw \cup {"failed"}
  BY <1>1 DEF Types, AgentType
<1>5. \A a \in told : p \in readers /\ agent[a].pc \in Waiting /\ agent[a].reply = "none"
  BY DEF Awaited, Owner
<1>6. \A a \in Agents : p \in readers /\ <<a, agent[a].n>> \in pending
                        /\ agent[a].pc \in Waiting /\ agent[a].reply = "none" => a \in told
  BY DEF Awaited, Owner
<1> HIDE DEF told, gone
<1>7. \A a \in Agents : /\ a \in told => agent'[a] = gone(a)
                        /\ a \notin told => agent'[a] = agent[a]
                        /\ agent[a].saw \subseteq agent'[a].saw /\ agent'[a].pc = agent[a].pc
                        /\ agent'[a].n = agent[a].n /\ agent'[a].outcome = agent[a].outcome
  BY <1>3, <1>4
<1>8. Types'
  <2>1. sent' \subseteq sent /\ IsFiniteSet(sent')
    BY <1>1, <1>2, FS_Subset DEF Types
  <2>2. agent' \in [Agents -> AgentType]
    BY <1>1, <1>3, <1>4 DEF Types
  <2> QED BY <1>1, <1>2, <2>1, <2>2 DEF Types
<1>9. ReaderSurvives'
  BY <1>1, <1>2, <1>7 DEF ReaderSurvives
<1>10. CallsOK'
  <2>1. ASSUME NEW r \in sent' PROVE CallOK(r)'
    <3>1. r \in sent /\ CallOK(r) /\ Owner(r.id) \in Agents
      BY <1>1, <1>2, IdParts DEF CallsOK, Types, Request
    <3>2. r.id \in pending' => Awaited(r.id)' \/ "cut" \in agent'[Owner(r.id)].saw
      <4> SUFFICES ASSUME r.id \in pending', ~("cut" \in agent'[Owner(r.id)].saw) PROVE Awaited(r.id)'
        OBVIOUS
      <4>1. p \notin readers /\ r.id \in pending
        BY <1>2
      <4>2. agent'[Owner(r.id)] = agent[Owner(r.id)]
        BY <1>5, <1>7, <3>1, <4>1
      <4> QED BY <3>1, <4>1, <4>2 DEF CallOK, Awaited
    <3> QED BY <1>2, <1>7, <3>1, <3>2 DEF CallOK
  <2>2. \A r, s \in sent' : r.id = s.id => r = s
    BY <1>1, <1>2 DEF CallsOK
  <2>3. \A a \in Agents : agent'[a].pc \in {"idle", "spawn"} => agent'[a].n = 0 /\ agent'[a].reply = "none"
    BY <1>1, <1>5, <1>7 DEF CallsOK, Waiting
  <2>4. \A a \in Agents : active'[a] # NoTurn => Owner(active'[a]) = a
    BY <1>1, <1>2 DEF CallsOK
  <2> QED BY <2>1, <2>2, <2>3, <2>4 DEF CallsOK
<1>11. ASSUME NEW b \in Agents PROVE Fine(b)'
  <2>1. TurnsOf(b)' \subseteq TurnsOf(b) /\ Starts(b)' \subseteq Starts(b) /\ EndsKept(b)
    BY <1>2, SameEnds DEF TurnsOf, Starts
  <2>2. CASE b \in told
    <3>1. agent'[b] = gone(b) /\ Turned(b)' /\ Undisturbed(b)'
      BY <1>4, <1>7, <2>2, Unclean
    <3>2. Accounts(b)'
      <4>1. Cardinality(Starts(b)') \in Nat /\ Cardinality(Starts(b)') <= Cardinality(Starts(b))
        BY <1>1, <2>1, FewerStarts
      <4>2. Cardinality(Starts(b)) \in Nat /\ ran[b] \in Nat /\ row[b].calls \in Nat
        BY <1>1, StartsFinite DEF Types, RowType
      <4>3. Accounts(b) /\ ("cancelled" \in agent'[b].saw <=> "cancelled" \in agent[b].saw)
        BY <1>1, <1>4, <3>1 DEF Fine
      <4> QED BY <1>2, <1>7, <4>1, <4>2, <4>3 DEF Accounts
    <3> QED BY <3>1, <3>2 DEF Fine
  <2>3. CASE b \notin told
    <3>1. agent'[b] = agent[b]
      BY <1>7, <2>3
    <3>2. agent[b].pc \in Waiting /\ agent[b].reply = "none" /\ <<b, agent[b].n>> \in pending
            => <<b, agent[b].n>> \in pending'
      BY <1>2, <1>6, <2>3
    <3> QED BY <1>1, <1>2, <2>1, <3>1, <3>2, OthersFine
  <2> QED BY <2>2, <2>3
<1> QED BY <1>8, <1>9, <1>10, <1>11 DEF Sound

LEMMA CloseKept == ASSUME Sound, Close PROVE Sound'
<1>1. Types /\ CallsOK /\ ReaderSurvives /\ \A b \in Agents : Fine(b)
  BY DEF Sound
<1>2. /\ proc' = 0 /\ alive' = alive \ {proc} /\ readers' = readers \ {proc}
      /\ sent' = {r \in sent : r.to # proc} /\ turns' = {t \in turns : t.at # proc}
      /\ UNCHANGED <<agent, row, pending, active, queue, ran, archived, spawned, errors>>
  BY DEF Close, client, bounds
<1>3. Types'
  <2>1. sent' \subseteq sent /\ IsFiniteSet(sent')
    BY <1>1, <1>2, FS_Subset DEF Types
  <2> QED BY <1>1, <1>2, <2>1 DEF Types
<1>4. CallsOK'
  BY <1>1, <1>2 DEF CallsOK, CallOK, Awaited
<1>5. ReaderSurvives'
  BY <1>2, <1>3 DEF ReaderSurvives, Types
<1>6. \A b \in Agents : Fine(b)'
  <2> SUFFICES ASSUME NEW b \in Agents PROVE Fine(b)'
    OBVIOUS
  <2>1. TurnsOf(b)' \subseteq TurnsOf(b) /\ Starts(b)' \subseteq Starts(b) /\ EndsKept(b)
    BY <1>2, SameEnds DEF TurnsOf, Starts
  <2> QED BY <1>1, <1>2, <2>1, OthersFine
<1> QED BY <1>3, <1>4, <1>5, <1>6 DEF Sound

(* What the invariant is about does not change.                            *)
LEMMA IdleKept ==
    ASSUME Sound, UNCHANGED <<agent, row, pending, active, queue, sent, turns, ran, archived>>,
           UNCHANGED <<proc, spawned, alive, readers, garbled, errors>>
    PROVE  Sound'
<1>1. Types' /\ ReaderSurvives'
  BY DEF Sound, Types, ReaderSurvives
<1>2. CallsOK'
  BY DEF Sound, CallsOK, CallOK, Awaited
<1>3. \A b \in Agents : Fine(b)'
  <2> SUFFICES ASSUME NEW b \in Agents PROVE Fine(b)'
    OBVIOUS
  <2>1. TurnsOf(b)' \subseteq TurnsOf(b) /\ Starts(b)' \subseteq Starts(b) /\ EndsKept(b)
    BY SameEnds DEF TurnsOf, Starts
  <2>2. Types /\ Fine(b)
    BY DEF Sound
  <2> QED BY <2>1, <2>2, OthersFine
<1> QED BY <1>1, <1>2, <1>3 DEF Sound

(* A line that cannot be read ends a reader, whatever it stands for.       *)
GarbledAt(p) ==
    /\ UNCHANGED <<agent, row, pending, active, proc, spawned, alive>>
    /\ readers' = readers \ {p} /\ garbled' = garbled \cup {p} /\ errors' \in Nat

LEMMA GarbledKeeps ==
    ASSUME Sound, NEW p, GarbledAt(p), sent' \subseteq sent, queue' \in Seq(Note),
           turns' \subseteq [turn : Ids, at : Nat], ran' \in [Agents -> Nat]
    PROVE  Types' /\ CallsOK' /\ ReaderSurvives'
<1>1. Types /\ CallsOK /\ ReaderSurvives
  BY DEF Sound
<1>2. Types'
  <2>1. IsFiniteSet(sent')
    BY <1>1, FS_Subset DEF Types
  <2> QED BY <1>1, <2>1 DEF Types, GarbledAt
<1>3. CallsOK'
  BY <1>1 DEF CallsOK, CallOK, Awaited, GarbledAt
<1>4. ReaderSurvives'
  BY <1>1 DEF ReaderSurvives, GarbledAt
<1> QED BY <1>2, <1>3, <1>4

(* Pieces of a turn that never ends change nothing but the queue.          *)
LEMMA AddPieces ==
    ASSUME queue \in Seq(Note), NEW piece \in Note, piece.what = "delta", NEW k \in Nat,
           queue' = queue \o [i \in 1 .. k |-> piece]
    PROVE  queue' \in Seq(Note) /\ \A b \in Agents : EndsKept(b) /\ Ends(b)' = Ends(b)
<1> DEFINE pieces == [i \in 1 .. k |-> piece]
<1>1. pieces \in Seq(Note) /\ Len(pieces) = k /\ \A i \in 1 .. k : pieces[i] = piece
  OBVIOUS
<1>2. PICK more : more = pieces
  OBVIOUS
<1>3. queue' = queue \o more
  BY <1>2
<1>4. more \in Seq(Note) /\ Len(more) = k /\ \A i \in 1 .. k : more[i] = piece
  BY <1>1, <1>2
<1> HIDE DEF pieces
<1>5. queue' \in Seq(Note) /\ Len(queue') = Len(queue) + k /\ Len(queue) \in Nat
  BY <1>3, <1>4
<1>6. \A i \in 1 .. Len(queue) : queue'[i] = queue[i]
  BY <1>3, <1>4, <1>5
<1>7. ASSUME NEW i \in 1 .. Len(queue'), i \notin 1 .. Len(queue) PROVE queue'[i].what = "delta"
  <2>1. i - Len(queue) \in 1 .. k
    BY <1>5, <1>7
  <2>2. queue'[i] = more[i - Len(queue)]
    BY <1>3, <1>4, <1>5, <1>7, <2>1
  <2> QED BY <1>4, <2>1, <2>2
<1>8. 1 .. Len(queue) \subseteq 1 .. Len(queue')
  BY <1>5
<1>9. \A b \in Agents : Ends(b)' = Ends(b)
  BY <1>6, <1>7, <1>8 DEF Ends
<1> QED BY <1>5, <1>9 DEF EndsKept

(* An agent whose request was served unheard goes on waiting.              *)
LEMMA UnheardFine ==
    ASSUME Sound, NEW r \in sent, NEW a \in Agents, a = Owner(r.id), ServedTo(a, r),
           sent' = sent \ {r}, UNCHANGED <<agent, row, pending, active>>
    PROVE  Fine(a)'
<1>1. /\ Types /\ CallsOK /\ Turned(a) /\ Accounts(a) /\ Undisturbed(a)
      /\ row[a].calls \in Nat /\ ran[a] \in Nat
  BY Known
<1>2. Starts(a)' = Starts(a) \ {r} /\ (r.method = "turn/start" => r \in Starts(a))
  BY DEF Starts
<1>3. CASE r.method = "turn/start"
  <2>1. ran'[a] = ran[a] + 1 /\ TurnsOf(a)' = TurnsOf(a) \cup {[turn |-> r.id, at |-> r.to]} /\ Ends(a)' = Ends(a)
    BY <1>3 DEF ServedTo
  <2>2. ASSUME Clean(a) PROVE Turned(a)'
    <3>1. /\ TurnsOf(a) = {} /\ Ends(a) = {} /\ agent[a].pc = "turn" /\ agent[a].reply = "none"
          /\ r.id = <<a, agent[a].n>> /\ \A s \in Starts(a) : s.id = r.id
      BY <1>1, <1>2, <1>3, <2>2 DEF Turned
    <3>2. Starts(a)' = {}
      BY <1>1, <1>2, <3>1 DEF CallsOK, Starts
    <3>3. TurnsOf(a)' = {[turn |-> r.id, at |-> r.to]}
      BY <2>1, <3>1
    <3>4. <<a, agent[a].n>> \in pending
      BY <1>1, <2>2, <3>1 DEF Turned, Waiting
    <3>5. Ends(a)' = {}
      BY <2>1, <3>1
    <3> QED BY <3>1, <3>2, <3>3, <3>4, <3>5 DEF Turned, Waiting
  <2>3. Turned(a)'
    BY <2>2 DEF Turned, Clean
  <2>4. Cardinality(Starts(a)') = Cardinality(Starts(a)) - 1 /\ Cardinality(Starts(a)) \in Nat
    BY <1>1, <1>2, <1>3, StartsFinite, FS_RemoveElement
  <2>5. Accounts(a)'
    BY <1>1, <2>1, <2>4 DEF Accounts, InAttempt
  <2>6. Undisturbed(a)'
    BY <1>1 DEF Undisturbed, ServedTo
  <2> QED BY <2>3, <2>5, <2>6 DEF Fine
<1>4. CASE r.method # "turn/start"
  <2>1. ran'[a] = ran[a] /\ Starts(a)' = Starts(a)
    BY <1>2, <1>4 DEF ServedTo, Starts
  <2>2. \/ /\ \E t \in TurnsOf(a) : t.turn = r.turn
           /\ TurnsOf(a)' = {t \in TurnsOf(a) : t.turn # r.turn}
           /\ Len(queue) \in Nat /\ Ends(a)' = Ends(a) \cup {Len(queue) + 1}
        \/ TurnsOf(a)' = TurnsOf(a) /\ Ends(a)' = Ends(a)
    BY <1>4 DEF ServedTo
  <2>3. ASSUME TurnsOf(a)' = TurnsOf(a) /\ Ends(a)' = Ends(a) PROVE Turned(a)'
    BY <1>1, <2>1, <2>3 DEF Turned, Clean
  <2>4. ASSUME /\ \E t \in TurnsOf(a) : t.turn = r.turn
               /\ TurnsOf(a)' = {t \in TurnsOf(a) : t.turn # r.turn}
               /\ Len(queue) \in Nat /\ Ends(a)' = Ends(a) \cup {Len(queue) + 1}
        PROVE  Turned(a)'
    <3>1. ASSUME Clean(a) PROVE Turned(a)'
      <4>1. TurnsOf(a) # {} /\ TurnsOf(a)' = {} /\ Ends(a) = {} /\ Starts(a) = {}
        BY <1>1, <2>4, <3>1 DEF Turned
      <4>2. \/ agent[a].pc \in {"loop", "intr", "cintr", "close"}
            \/ agent[a].pc = "turn" /\ agent[a].reply \in {"none", "ok"}
        BY <1>1, <3>1, <4>1 DEF Turned
      <4>3. Ends(a)' = {Len(queue) + 1}
        BY <2>4, <4>1
      <4>4. /\ agent[a].pc = "loop" => active[a] = agent[a].turn
            /\ agent[a].pc \in Waiting /\ agent[a].reply = "none" => <<a, agent[a].n>> \in pending
            /\ agent[a].pc \in Waiting => agent[a].reply \in {"none", "ok"}
                                           \/ (agent[a].reply = "error" /\ agent[a].pc \in {"intr", "cintr"})
        BY <1>1, <3>1 DEF Turned
      <4> HIDE DEF Waiting
      <4> QED BY <2>1, <4>1, <4>2, <4>3, <4>4 DEF Turned
    <3> QED BY <3>1 DEF Turned, Clean
  <2>5. Turned(a)'
    BY <2>2, <2>3, <2>4
  <2>6. Accounts(a)'
    BY <1>1, <2>1 DEF Accounts, InAttempt
  <2>7. Undisturbed(a)'
    BY <1>1 DEF Undisturbed, ServedTo
  <2> QED BY <2>5, <2>6, <2>7 DEF Fine
<1> QED BY <1>3, <1>4

LEMMA GarbleKept == ASSUME Sound, NEW p, Garble(p) PROVE Sound'
<1>1. Types /\ queue \in Seq(Note) /\ errors \in Nat /\ \A b \in Agents : Fine(b)
  BY DEF Sound, Types
<1>2. GarbledAt(p)
  BY <1>1 DEF Garble, GarbledAt, client
<1>3. UNCHANGED <<agent, row, pending, active>>
  BY <1>2 DEF GarbledAt
<1>4. CASE UNCHANGED <<queue, server>>
  <2>1. UNCHANGED <<queue, sent, turns, ran, archived>>
    BY <1>4 DEF server
  <2>2. Types' /\ CallsOK' /\ ReaderSurvives'
    BY <1>1, <1>2, <2>1, GarbledKeeps DEF Types
  <2>3. \A b \in Agents : Fine(b)'
    <3> SUFFICES ASSUME NEW b \in Agents PROVE Fine(b)'
      OBVIOUS
    <3>1. TurnsOf(b)' \subseteq TurnsOf(b) /\ Starts(b)' \subseteq Starts(b) /\ EndsKept(b)
      BY <2>1, SameEnds DEF TurnsOf, Starts
    <3> QED BY <1>1, <1>3, <2>1, <3>1, OthersFine
  <2> QED BY <2>2, <2>3 DEF Sound
<1>5. ASSUME NEW r \in sent, sent' = sent \ {r}, Served(r) PROVE Sound'
  <2>1. PICK a \in Agents : a = Owner(r.id)
    BY <1>1, IdParts DEF Types, Request
  <2>2. ServedTo(a, r)
    BY <1>5, <2>1, Serves
  <2>3. Types' /\ CallsOK' /\ ReaderSurvives'
    BY <1>2, <1>5, <2>2, GarbledKeeps DEF ServedTo
  <2>4. Fine(a)'
    BY <1>3, <1>5, <2>1, <2>2, UnheardFine
  <2>5. ASSUME NEW b \in Agents \ {a} PROVE Fine(b)'
    <3>1. /\ TurnsOf(b)' \subseteq TurnsOf(b) /\ EndsKept(b) /\ ran'[b] = ran[b]
          /\ archived \subseteq archived'
      BY <2>2 DEF ServedTo
    <3>2. Starts(b)' \subseteq Starts(b)
      BY <1>5 DEF Starts
    <3> QED BY <1>1, <1>3, <3>1, <3>2, OthersFine
  <2> QED BY <2>3, <2>4, <2>5 DEF Sound
<1>6. ASSUME NEW t \in turns, NEW k \in 0 .. Deltas, turns' = turns \ {t},
             queue' = queue \o Pieces(t, k), UNCHANGED <<sent, ran, archived>>
      PROVE  Sound'
  <2> DEFINE piece == [thread |-> Owner(t.turn), turn |-> t.turn, what |-> "delta"]
  <2>1. t.turn \in Ids /\ Owner(t.turn) \in Agents /\ k \in Nat
    BY <1>1, IdParts, ConstantsAssumption DEF Types
  <2>2. piece \in Note /\ piece.what = "delta"
    BY <2>1 DEF Note
  <2>3. queue' = queue \o [i \in 1 .. k |-> piece]
    BY <1>6 DEF Pieces, Notice
  <2> HIDE DEF piece
  <2>4. queue' \in Seq(Note) /\ \A b \in Agents : EndsKept(b)
    BY <1>1, <2>1, <2>2, <2>3, AddPieces
  <2>5. Types' /\ CallsOK' /\ ReaderSurvives'
    BY <1>1, <1>2, <1>6, <2>4, GarbledKeeps DEF Types
  <2>6. ASSUME NEW b \in Agents PROVE Fine(b)'
    <3>1. TurnsOf(b)' \subseteq TurnsOf(b) /\ Starts(b)' \subseteq Starts(b)
      BY <1>6 DEF TurnsOf, Starts
    <3> QED BY <1>1, <1>3, <1>6, <2>4, <3>1, OthersFine
  <2> QED BY <2>5, <2>6 DEF Sound
<1> QED BY <1>4, <1>5, <1>6 DEF Garble

LEMMA InitSound == Init => Sound
<1> SUFFICES ASSUME Init PROVE Sound
  OBVIOUS
<1>1. \A a \in Agents : agent[a] = NoAgent /\ row[a] = NoRow /\ active[a] = NoTurn /\ ran[a] = 0
  BY DEF Init
<1>2. sent = {} /\ turns = {} /\ queue = <<>> /\ proc = 0 /\ alive = {} /\ readers = {} /\ spawned = 0 /\ errors = 0
  BY DEF Init
<1>3. NoAgent \in AgentType /\ NoRow \in RowType
  BY DEF NoAgent, NoRow, AgentType, RowType, Pcs, Statuses, Outcomes
<1>4. Types
  <2>1. IsFiniteSet(sent)
    BY <1>2, FS_EmptySet
  <2>2. agent \in [Agents -> AgentType] /\ row \in [Agents -> RowType]
    BY <1>3 DEF Init
  <2>3. active \in [Agents -> Ids \cup {NoTurn}] /\ ran \in [Agents -> Nat]
    BY DEF Init
  <2>4. alive \subseteq 1 .. spawned /\ readers \subseteq Nat /\ queue \in Seq(Note)
    BY <1>2
  <2> QED BY <1>2, <2>1, <2>2, <2>3, <2>4 DEF Types
<1>5. CallsOK
  BY <1>1, <1>2 DEF CallsOK, NoAgent
<1>6. ReaderSurvives
  BY <1>2 DEF ReaderSurvives
<1>7. ASSUME NEW a \in Agents PROVE Fine(a)
  <2>1. TurnsOf(a) = {} /\ Starts(a) = {} /\ Ends(a) = {}
    BY <1>2 DEF TurnsOf, Starts, Ends
  <2>2. Cardinality(Starts(a)) = 0
    BY <2>1, FS_EmptySet
  <2>3. Turned(a)
    BY <1>1, <2>1 DEF Turned, NoAgent, Waiting
  <2>4. Accounts(a)
    BY <1>1, <2>2 DEF Accounts, NoAgent, NoRow, InAttempt
  <2>5. Undisturbed(a)
    BY <1>1 DEF Undisturbed, NoAgent, Waiting
  <2> QED BY <2>3, <2>4, <2>5 DEF Fine
<1> QED BY <1>4, <1>5, <1>6, <1>7 DEF Sound

LEMMA StepKept == ASSUME Sound, [Next]_vars PROVE Sound'
<1>1. ASSUME NEW a \in Agents, Begin(a) \/ Step(a) \/ SpawnFails(a) \/ Cancel(a) PROVE Sound'
  <2>1. CASE Begin(a)
    BY <2>1, BeginKept
  <2>2. CASE Cancel(a)
    BY <2>2, CancelKept
  <2>4. CASE SpawnFails(a)
    BY <2>4, SpawnFailsKept
  <2>3. CASE Step(a)
    <3>1. CASE Spawn(a) \/ Initialized(a) \/ SessionStarted(a)
      BY <3>1, SpawnKept, InitializedKept, SessionStartedKept
    <3>2. CASE Attempt(a) \/ TurnStarted(a) \/ Read(a) \/ Interrupted(a)
      BY <3>2, AttemptKept, TurnStartedKept, ReadKeeps, InterruptedKept
    <3>3. CASE CloseSession(a) \/ ClosingInterrupted(a) \/ Archived(a)
      BY <3>3, CloseSessionKept, ClosingInterruptedKept, ArchivedKept
    <3>4. CASE TurnTimeout(a) \/ CallTimeout(a)
      BY <3>4, TurnTimeoutKept, LateKept
    <3> QED BY <2>3, <3>1, <3>2, <3>3, <3>4 DEF Step
  <2> QED BY <1>1, <2>1, <2>2, <2>3, <2>4
<1>2. CASE Serve
  BY <1>2, AnswerKept, NotifyKept DEF Serve
<1>3. ASSUME NEW p \in alive, Exit(p) \/ Hang(p) \/ Garble(p) PROVE Sound'
  <2>1. CASE Exit(p)
    BY <2>1, ExitKept
  <2>2. CASE Hang(p)
    <3>1. UNCHANGED <<agent, row, pending, active, queue, sent, turns, ran, archived>>
          /\ UNCHANGED <<proc, spawned, alive, readers, garbled, errors>>
      BY <2>2 DEF Hang, client, server
    <3> QED BY <3>1, IdleKept
  <2>3. CASE Garble(p)
    BY <2>3, GarbleKept
  <2> QED BY <1>3, <2>1, <2>2, <2>3
<1>4. CASE Close
  BY <1>4, CloseKept
<1>5. CASE UNCHANGED vars
  <2>1. UNCHANGED <<agent, row, pending, active, queue, sent, turns, ran, archived>>
        /\ UNCHANGED <<proc, spawned, alive, readers, garbled, errors>>
    BY <1>5 DEF vars, client, server, procs, bounds
  <2> QED BY <2>1, IdleKept
<1> QED BY <1>1, <1>2, <1>3, <1>4, <1>5 DEF Next, Terminated

LEMMA SoundAlways == Spec => []Sound
<1>1. Init => Sound
  BY InitSound
<1>2. Sound /\ [Next]_vars => Sound'
  BY StepKept
<1> QED BY <1>1, <1>2, PTL DEF Spec
-----------------------------------------------------------------------------
(* The reader of the process is lost only after a wait on a call was cut   *)
(* short or at a line that is no message: a late answer finds no future, a *)
(* cancelled one is only left by a cut (ReaderSurvives,                    *)
(* codex_app_server.py:86-89, 121-142).                                    *)
THEOREM ReadersSurvive == Spec => []ReaderSurvives
<1>1. Sound => ReaderSurvives
  BY DEF Sound
<1> QED BY <1>1, SoundAlways, PTL

(* Turns over their time and turns of a stopped session are interrupted    *)
(* before anything else is asked of the server (TurnsMinded).              *)
THEOREM TurnsAreMinded == Spec => []TurnsMinded
<1>1. Sound => TurnsMinded
  <2> SUFFICES ASSUME Sound, NEW a \in Agents, agent[a].saw \cap {"failed", "cut"} = {}
               PROVE  Cardinality({t \in turns : Owner(t.turn) = a}) <= IF At(a, "done") THEN 0 ELSE 1
    BY DEF TurnsMinded
  <2>1. Turned(a) /\ Clean(a) /\ TurnsOf(a) = {t \in turns : Owner(t.turn) = a}
    BY Known DEF Clean, TurnsOf
  <2>2. CASE TurnsOf(a) = {}
    BY <2>1, <2>2, FS_EmptySet
  <2>3. CASE TurnsOf(a) # {}
    <3>1. PICK t \in TurnsOf(a) : TurnsOf(a) = {t}
      BY <2>1, <2>3 DEF Turned
    <3>2. Cardinality({t}) = 1
      BY FS_Singleton
    <3>3. ~At(a, "done")
      BY <2>1, <3>1 DEF Turned, At
    <3> QED BY <2>1, <3>1, <3>2, <3>3
  <2> QED BY <2>2, <2>3
<1> QED BY <1>1, SoundAlways, PTL

(* Every attempt is counted once, whichever way it ends, and asks for one  *)
(* turn at most (TurnsAccounted).                                          *)
THEOREM TurnsAreAccounted == Spec => []TurnsAccounted
<1>1. Sound => TurnsAccounted
  <2> SUFFICES ASSUME Sound, NEW a \in Agents, At(a, "done")
               PROVE  /\ "cancelled" \notin agent[a].saw => ran[a] <= row[a].calls
                      /\ ran[a] <= row[a].calls + 1
                      /\ agent[a].outcome = "answer" => row[a].failures = row[a].calls - 1
    BY DEF TurnsAccounted
  <2>1. Types /\ Accounts(a) /\ ran[a] \in Nat /\ row[a].calls \in Nat
    BY Known
  <2>2. Cardinality(Starts(a)) \in Nat
    BY <2>1, StartsFinite
  <2> QED BY <2>1, <2>2 DEF Accounts, At, InAttempt
<1> QED BY <1>1, SoundAlways, PTL

(* A session whose calls and turns came to an end in time is archived and  *)
(* its row says so (SessionsClosed).                                       *)
THEOREM SessionsAreClosed == Spec => []SessionsClosed
<1>1. Sound => SessionsClosed
  BY DEF Sound, Fine, Undisturbed, SessionsClosed, At
<1> QED BY <1>1, SoundAlways, PTL
=============================================================================
