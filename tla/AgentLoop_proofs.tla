-------------------------- MODULE AgentLoop_proofs --------------------------
(***************************************************************************)
(* Theorems about AgentLoop, for every set of children, all limits and all *)
(* batch sizes.                                                            *)
(***************************************************************************)
EXTENDS AgentLoop, Filtering_proofs, SequenceTheorems, FiniteSetTheorems, TLAPS

-----------------------------------------------------------------------------
(* What a set of runs has consumed, as a set of units *)

Units(o, k, S) == {u \in S \X Nat : u[2] \in 1..o[u[1]][k]}
Consumed(o, k, S) == Cardinality(Units(o, k, S))

\* What a run has consumed of one kind.
LEMMA AmountOf ==
  ASSUME NEW r \in Amounts, NEW k \in Kinds
  PROVE  r[k] \in Nat
BY DEF Amounts, Kinds

LEMMA AgentsFinite == IsFiniteSet(Agents)
BY AgentsAssumption, FS_AddElement DEF Agents

LEMMA UnitsFinite ==
  ASSUME NEW o \in [Agents -> Amounts], NEW k \in Kinds, NEW S \in SUBSET Agents
  PROVE  IsFiniteSet(Units(o, k, S)) /\ Consumed(o, k, S) \in Nat /\ IsFiniteSet(S)
<1>1. IsFiniteSet(S)
  BY AgentsFinite, FS_Subset
<1>2. CASE S = {}
  <2>1. Units(o, k, S) = {}
    BY <1>2 DEF Units
  <2> QED
    BY <1>1, <2>1, FS_EmptySet DEF Consumed
<1>3. CASE S # {}
  <2> DEFINE T == {o[a][k] : a \in S}
             g == [a \in S |-> o[a][k]]
  <2>1. g \in Surjection(S, T)
    BY DEF Surjection
  <2>2. IsFiniteSet(T) /\ T # {} /\ T \subseteq Nat
    <3>1. T # {} /\ T \subseteq Nat
      BY <1>3, AmountOf
    <3> QED
      BY <1>1, <2>1, <3>1, FS_Surjection
  <2>3. PICK m \in T : \A t \in T : t <= m
    <3> HIDE DEF T
    <3> QED
      BY <2>2, Extremes
  <2>4. m \in Nat /\ \A a \in S : o[a][k] \in Nat /\ o[a][k] <= m
    BY <2>2, <2>3
  <2> HIDE DEF T
  <2>5. Units(o, k, S) \subseteq S \X (1..m)
    BY <2>4 DEF Units
  <2>6. IsFiniteSet(1..m)
    BY <2>4, FS_Interval
  <2>7. IsFiniteSet(S \X (1..m))
    BY <1>1, <2>6, FS_Product
  <2>8. IsFiniteSet(Units(o, k, S))
    BY <2>5, <2>7, FS_Subset
  <2> QED
    BY <1>1, <2>8, FS_CardinalityType DEF Consumed
<1> QED
  BY <1>2, <1>3

\* The units of one run beside those of the others.
LEMMA ConsumedOf ==
  ASSUME NEW o \in [Agents -> Amounts], NEW k \in Kinds, NEW S \in SUBSET Agents, NEW x \in S
  PROVE  Consumed(o, k, S) = o[x][k] + Consumed(o, k, S \ {x})
<1> DEFINE n == o[x][k]
           R == S \ {x}
           X == {x} \X (1..n)
           U == Units(o, k, R)
<1>1. n \in Nat
  BY AmountOf
<1>2. IsFiniteSet(U) /\ Cardinality(U) \in Nat
  BY UnitsFinite DEF Consumed
<1>3. IsFiniteSet(X) /\ Cardinality(X) = n
  <2>1. IsFiniteSet(1..n) /\ Cardinality(1..n) = n
    <3> HIDE DEF n
    <3>1. 1 \in Int /\ n \in Int /\ (IF 1 > n THEN 0 ELSE n - 1 + 1) = n
      BY <1>1
    <3> QED
      BY <3>1, FS_Interval
  <2>2. IsFiniteSet({x}) /\ Cardinality({x}) = 1
    BY FS_Singleton
  <2>3. IsFiniteSet({x} \X (1..n)) /\ Cardinality({x} \X (1..n)) = Cardinality({x}) * Cardinality(1..n)
    BY <2>1, <2>2, FS_Product
  <2> QED
    BY <1>1, <2>1, <2>2, <2>3
<1>4. Units(o, k, S) = X \cup U /\ X \cap U = {}
  BY <1>1 DEF Units
<1> HIDE DEF X, U, n
<1>5. Cardinality(X \cup U) = Cardinality(X) + Cardinality(U) - Cardinality(X \cap U)
  BY <1>2, <1>3, FS_Union
<1>6. Cardinality(X \cap U) = 0
  BY <1>4, FS_EmptySet
<1>7. Cardinality(Units(o, k, S)) = n + Cardinality(U)
  BY <1>1, <1>2, <1>3, <1>4, <1>5, <1>6
<1> QED
  BY <1>7 DEF Consumed, n, U

\* Runs that have consumed nothing add nothing, and fewer runs have not consumed more.
LEMMA ConsumedWithin ==
  ASSUME NEW o \in [Agents -> Amounts], NEW p \in [Agents -> Amounts], NEW k \in Kinds,
         NEW S \in SUBSET Agents, NEW T \in SUBSET Agents,
         \A a \in S : p[a][k] = 0 \/ (a \in T /\ p[a][k] = o[a][k])
  PROVE  Consumed(p, k, S) <= Consumed(o, k, T)
<1>1. Units(p, k, S) \subseteq Units(o, k, T)
  BY DEF Units
<1> QED
  BY <1>1, UnitsFinite, FS_Subset DEF Consumed

\* What one run consumes more the runs together consume more, at most.
LEMMA ConsumedMore ==
  ASSUME NEW o \in [Agents -> Amounts], NEW p \in [Agents -> Amounts], NEW k \in Kinds,
         NEW S \in SUBSET Agents, NEW T \in SUBSET S, NEW x \in Agents, NEW d \in Nat,
         p[x][k] = o[x][k] + d, \A a \in Agents \ {x} : p[a][k] = o[a][k]
  PROVE  Consumed(p, k, T) <= Consumed(o, k, S) + d
<1>1. Consumed(p, k, T) \in Nat /\ Consumed(o, k, T) \in Nat /\ Consumed(o, k, S) \in Nat
  BY UnitsFinite
<1>2. Consumed(o, k, T) <= Consumed(o, k, S)
  BY ConsumedWithin
<1>3. CASE x \notin T
  <2>1. Consumed(p, k, T) <= Consumed(o, k, T)
    BY <1>3, ConsumedWithin
  <2> QED
    BY <1>1, <1>2, <2>1
<1>4. CASE x \in T
  <2> DEFINE R == T \ {x}
  <2>1. Consumed(p, k, R) <= Consumed(o, k, R)
    BY ConsumedWithin
  <2>2. Consumed(p, k, T) = p[x][k] + Consumed(p, k, R) /\ Consumed(o, k, T) = o[x][k] + Consumed(o, k, R)
    BY <1>4, ConsumedOf
  <2>3. p[x][k] \in Nat /\ o[x][k] \in Nat /\ Consumed(p, k, R) \in Nat /\ Consumed(o, k, R) \in Nat
    BY UnitsFinite, AmountOf
  <2> HIDE DEF R
  <2> QED
    BY <1>1, <1>2, <2>1, <2>2, <2>3
<1> QED
  BY <1>3, <1>4

\* The sum over a set of runs is what the runs consumed together.
Total(o, k, S) == MapThenSumSet(LAMBDA a : o[a][k], S)

LEMMA TotalConsumed ==
  ASSUME NEW o \in [Agents -> Amounts], NEW k \in Kinds, NEW S \in SUBSET Agents
  PROVE  Total(o, k, S) = Consumed(o, k, S)
<1> DEFINE Chosen(s) == CHOOSE x \in s : TRUE
           Solves(f) == f = [s \in SUBSET S |-> IF s = {} THEN 0
                                                ELSE o[Chosen(s)][k] + f[s \ {Chosen(s)}]]
           iter == CHOOSE f : Solves(f)
           c == [s \in SUBSET S |-> Consumed(o, k, s)]
<1>0. IsFiniteSet(S) /\ \A s \in SUBSET S : IsFiniteSet(s) /\ s \in SUBSET Agents
  BY UnitsFinite
<1>1. \A s \in SUBSET S : s # {} => Chosen(s) \in s /\ s \ {Chosen(s)} \in SUBSET S
  OBVIOUS
<1>2. \A s \in SUBSET S : c[s] = IF s = {} THEN 0 ELSE o[Chosen(s)][k] + c[s \ {Chosen(s)}]
  <2> TAKE s \in SUBSET S
  <2>1. CASE s = {}
    <3>1. Units(o, k, {}) = {}
      BY DEF Units
    <3> QED
      BY <2>1, <3>1, FS_EmptySet DEF Consumed
  <2>2. CASE s # {}
    <3>1. s \in SUBSET Agents /\ Chosen(s) \in s /\ s \ {Chosen(s)} \in SUBSET S
      BY <1>0, <1>1, <2>2
    <3>2. c[s] = Consumed(o, k, s) /\ c[s \ {Chosen(s)}] = Consumed(o, k, s \ {Chosen(s)})
      BY <3>1
    <3> HIDE DEF c, Chosen
    <3>3. Consumed(o, k, s) = o[Chosen(s)][k] + Consumed(o, k, s \ {Chosen(s)})
      BY <3>1, ConsumedOf
    <3> QED
      BY <2>2, <3>2, <3>3
  <2> QED
    BY <2>1, <2>2
<1>3. Solves(iter)
  <2>1. c = [s \in SUBSET S |-> c[s]]
    OBVIOUS
  <2> HIDE DEF c, Chosen
  <2>2. Solves(c)
    BY <1>2, <2>1
  <2> HIDE DEF Solves
  <2> QED
    BY <2>2
<1>4. Total(o, k, S) = iter[S]
  BY DEF Total, MapThenSumSet, MapThenFoldSet
<1> HIDE DEF iter, c, Chosen
<1>5. \A s \in SUBSET S : iter[s] = IF s = {} THEN 0 ELSE o[Chosen(s)][k] + iter[s \ {Chosen(s)}]
  BY <1>3
<1> DEFINE D == {s \in SUBSET S : iter[s] # c[s]}
<1>6. D = {}
  <2> SUFFICES ASSUME D # {} PROVE FALSE
    OBVIOUS
  <2> DEFINE C == {Cardinality(s) : s \in D}
  <2>1. C \subseteq 0..Cardinality(S) /\ C # {} /\ Cardinality(S) \in Nat
    <3>1. \A s \in SUBSET S : Cardinality(s) \in Nat /\ Cardinality(s) <= Cardinality(S)
      BY <1>0, FS_CardinalityType, FS_Subset
    <3>2. \A s \in D : Cardinality(s) \in 0..Cardinality(S)
      BY <1>0, <3>1
    <3> HIDE DEF D
    <3> QED
      BY <1>0, <3>2, FS_CardinalityType
  <2>2. IsFiniteSet(C) /\ C \subseteq Nat
    <3>1. IsFiniteSet(0..Cardinality(S))
      BY <2>1, FS_Interval
    <3> HIDE DEF C
    <3>2. IsFiniteSet(C)
      BY <2>1, <3>1, FS_Subset
    <3> QED
      BY <2>1, <3>2
  <2>3. PICK m \in C : \A x \in C : m <= x
    <3> HIDE DEF C
    <3> QED
      BY <2>1, <2>2, Extremes
  <2>4. PICK s \in D : Cardinality(s) = m
    BY <2>3
  <2>5. s # {}
    BY <1>2, <1>5, <2>4
  <2> DEFINE r == s \ {Chosen(s)}
  <2>6. r \in SUBSET S /\ Cardinality(r) = Cardinality(s) - 1
    BY <1>0, <1>1, <2>4, <2>5, FS_RemoveElement
  <2>7. r \notin D
    <3>1. m \in Nat /\ ~(m <= m - 1)
      BY <2>2, <2>3
    <3>2. Cardinality(r) \notin C
      BY <2>3, <2>4, <2>6, <3>1
    <3> HIDE DEF r, D
    <3> QED
      BY <3>2
  <2>8. iter[r] = c[r]
    BY <2>6, <2>7
  <2> QED
    BY <1>2, <1>5, <2>4, <2>5, <2>8
<1>7. iter[S] = c[S]
  BY <1>6
<1> QED
  BY <1>4, <1>7 DEF c

LEMMA NothingConsumed ==
  ASSUME NEW o, NEW k
  PROVE  Consumed(o, k, {}) = 0
<1>1. Units(o, k, {}) = {}
  BY DEF Units
<1> QED
  BY <1>1, FS_EmptySet DEF Consumed

-----------------------------------------------------------------------------
(* The inductive invariant beside the types *)

\* A turn's current call is one of its calls.
TurnInRange == \A a \in Agents : turn[a].ci <= turn[a].n

\* Only a loop with a hook gate waits for one.
HooksNeedGate == \A a \in Agents : pc[a] = "hook" => HookGate

\* The root waits for children only inside its spawn_agent.
WaitsInSpawn == waiting # {} => pc[Root] = "spawn"

\* The self-check's candidate is as old as its last probe, and no probe is newer than the work.
CandidateDated ==
  \A a \in Agents :
    /\ check[a].atProbe <= check[a].work
    /\ check[a].verified # Silence => check[a].verified.work = check[a].atProbe

\* No fan-out was detached under a goal still to come.
FanoutsDated == \A f \in detached : f.turn <= goals

\* What the live runs the session reaches have consumed is part of the shared counters, together.
RunsCounted == \A k \in Kinds : Consumed(own, k, Tracked) <= used[k]

RunsInv ==
  /\ RunsTyped /\ TurnInRange /\ HooksNeedGate /\ WaitsInSpawn /\ CandidateDated
  /\ FanoutsDated
BudgetInv == BudgetTyped /\ BudgetRespected /\ RunsCounted
IInv == RunsInv /\ BudgetInv /\ InputTyped

\* No effect starts for an aborted run; a final answer is as new as the work.
EffectStep == \A a \in Agents : aborted[a] /\ pc'[a] = "run" => pc[a] = "run"
AnswerStep ==
  \A a \in Agents : pc[a] # "idle" /\ pc'[a] = "idle" /\ stop'[a] = "final"
    => answer'[a].work = check[a].work

\* What every step keeps of the runs; Tracked only shrinks in steps inside a run.
RunsStep == RunsInv' /\ (HookGate \/ EffectStep) /\ AnswerStep
InnerStep == RunsStep /\ Tracked' \subseteq Tracked
GoodStep == RunsStep /\ BudgetInv' /\ InputTyped'

-----------------------------------------------------------------------------
(* The building blocks of the actions: what each keeps *)

\* A child that reports leaves its fan-out; nobody else comes into the session's reach.
LEMMA ReportKeeps ==
  ASSUME RunsInv, NEW a \in Agents, Report(a), goals' = goals
  PROVE  /\ waiting' \subseteq waiting /\ trees' \subseteq trees
         /\ detached' \subseteq [turn : Nat, kids : SUBSET Children]
         /\ FanoutsDated'
         /\ Known' \subseteq Known
<1> DEFINE Less(g) == [g EXCEPT !.kids = @ \ {a}]
<1>1. \A g \in detached : g.turn \in Nat /\ g.kids \subseteq Children /\ g.turn <= goals
                         /\ g = [turn |-> g.turn, kids |-> g.kids]
  BY DEF RunsInv, RunsTyped, FanoutsDated
<1>2. \A g \in detached : Less(g) = [turn |-> g.turn, kids |-> g.kids \ {a}]
  BY <1>1
<1>3. \A f \in detached' : \E g \in detached : f = [turn |-> g.turn, kids |-> g.kids \ {a}]
  BY <1>2 DEF Report
<1>4. waiting' \subseteq waiting /\ trees' \subseteq trees
  BY DEF Report
<1>5. Known' \subseteq Known
  BY <1>3, <1>4 DEF Known
<1> QED BY <1>1, <1>3, <1>4, <1>5 DEF FanoutsDated

\* The run of a moves to another of its control points and nothing else changes.
LEMMA GotoKeeps ==
  ASSUME RunsInv, NEW a \in Agents, pc[a] # "idle", pc[a] # "spawn",
         NEW p \in PCs \ {"idle"}, Goto(a, p),
         p = "hook" => HookGate, p = "run" => HookGate \/ ~aborted[a],
         UNCHANGED <<turn, aborted, check, stop, answer, waiting, detached, trees, goals>>
  PROVE  InnerStep
BY DEF RunsInv, RunsTyped, TurnInRange, HooksNeedGate, WaitsInSpawn, CandidateDated,
       FanoutsDated, InnerStep, RunsStep, EffectStep, AnswerStep, Tracked, Known, Goto, PCs

\* A run goes on with a new turn and self-check state.
LEMMA ProceedKeeps ==
  ASSUME RunsInv, NEW a \in Agents, NEW p \in PCs \ {"hook", "run", "idle"}, NEW h,
         NEW t \in Turns, NEW c \in Checks, Proceed(a, p, h, t, c), goals' = goals,
         pc[a] # "idle", pc[a] = "spawn" => waiting = {}, t.ci <= t.n,
         c.atProbe <= c.work, c.verified # Silence => c.verified.work = c.atProbe
  PROVE  InnerStep
BY DEF RunsInv, RunsTyped, TurnInRange, HooksNeedGate, WaitsInSpawn, CandidateDated,
       FanoutsDated, InnerStep, RunsStep, EffectStep, AnswerStep, Tracked, Known,
       Proceed, Goto, SetHistory, endVars, treeVars

\* A run ends, delivering either nothing or a text as new as its work.
LEMMA EndKeeps ==
  ASSUME RunsInv, NEW a \in Agents, NEW kind \in StopKinds, NEW h, End(a, kind, h), goals' = goals,
         pc[a] # "idle", pc[a] = "spawn" => waiting = {},
         answer' \in [Agents -> Utterances],
         kind = "final" => answer'[a].work = check[a].work
  PROVE  InnerStep
<1>1. /\ NoTurn \in Turns /\ NoTurn.ci <= NoTurn.n
  BY TurnAssumption DEF NoTurn, Turns
<1>2. /\ FreshCheck \in Checks /\ FreshCheck.atProbe <= FreshCheck.work
      /\ FreshCheck.verified = Silence
  BY DEF FreshCheck, Checks, Silence, Utterances
<1>0. /\ Report(a) /\ waiting' \subseteq waiting /\ trees' \subseteq trees
      /\ detached' \subseteq [turn : Nat, kids : SUBSET Children]
      /\ FanoutsDated' /\ Known' \subseteq Known
  BY ReportKeeps DEF End
<1>3. RunsInv'
  BY <1>0, <1>1, <1>2
     DEF RunsInv, RunsTyped, TurnInRange, HooksNeedGate, WaitsInSpawn, CandidateDated,
         End, Goto, SetHistory, PCs, Agents
<1>4. EffectStep /\ AnswerStep
  BY DEF RunsInv, RunsTyped, EffectStep, AnswerStep, End, Goto
<1>5. Tracked' \subseteq Tracked
  BY <1>0 DEF RunsInv, RunsTyped, Tracked, End, Goto
<1> QED BY <1>3, <1>4, <1>5 DEF InnerStep, RunsStep

LEMMA HaltKeeps ==
  ASSUME RunsInv, NEW a \in Agents, NEW kind \in StopKinds \ {"final"}, NEW h,
         Halt(a, kind, h), goals' = goals,
         pc[a] # "idle", pc[a] = "spawn" => waiting = {}
  PROVE  InnerStep
<1>1. answer' \in [Agents -> Utterances]
  BY DEF Halt, RunsInv, RunsTyped, Utterances, Silence
<1> QED BY <1>1, EndKeeps DEF Halt

\* What Deliver hands over: the candidate only when no tool succeeded since its probe.
LEMMA DeliverKeeps ==
  ASSUME RunsInv, NEW a \in Agents, NEW text \in Utterances, text.work = check[a].work,
         NEW h, Deliver(a, text, h), goals' = goals, pc[a] # "idle", pc[a] # "spawn"
  PROVE  InnerStep
<1>1. Delivered(a, text) \in Utterances /\ Delivered(a, text).work = check[a].work
  BY DEF Delivered, RunsInv, RunsTyped, CandidateDated, Checks
<1>2. /\ answer' \in [Agents -> Utterances]
      /\ answer'[a].work = check[a].work
  BY <1>1 DEF Deliver, RunsInv, RunsTyped
<1> QED BY <1>2, EndKeeps DEF Deliver, StopKinds

LEMMA CheckStuckKeeps ==
  ASSUME RunsInv, NEW a \in Agents, NEW h, NEW kind \in {"none", "native", "text", "final"},
         NEW c \in Checks, CheckStuck(a, h, kind, c), goals' = goals,
         pc[a] # "idle", pc[a] = "spawn" => waiting = {},
         c.atProbe <= c.work, c.verified # Silence => c.verified.work = c.atProbe
  PROVE  InnerStep
<1>1. /\ NoTurn \in Turns /\ NoTurn.ci <= NoTurn.n
      /\ [NoTurn EXCEPT !.kind = kind] \in Turns
      /\ [NoTurn EXCEPT !.kind = kind].ci <= [NoTurn EXCEPT !.kind = kind].n
  BY TurnAssumption DEF NoTurn, Turns
<1>2. CASE Proceed(a, "top", h, NoTurn, c)
  BY <1>1, <1>2, ProceedKeeps DEF PCs
<1>3. CASE Proceed(a, "stuck", h, [NoTurn EXCEPT !.kind = kind], c)
  BY <1>1, <1>3, ProceedKeeps DEF PCs
<1>4. CASE Halt(a, "ended", Append(h, Text))
  BY <1>4, HaltKeeps DEF StopKinds
<1> QED BY <1>2, <1>3, <1>4 DEF CheckStuck

\* Emptying an inbox, or leaving all of them, keeps the session's fields.
LEMMA InputKept ==
  ASSUME InputTyped, UNCHANGED boundVars,
         UNCHANGED inbox \/ \E a \in Agents : inbox' = [inbox EXCEPT ![a] = <<>>]
  PROVE  InputTyped'
<1>1. <<>> \in Seq(Nat)
  BY EmptySeq
<1>2. inbox' \in [Agents -> Seq(Nat)]
  BY <1>1 DEF InputTyped
<1> QED BY <1>2 DEF InputTyped, boundVars

LEMMA TrackedAgents == Tracked \in SUBSET Agents
BY DEF Tracked

\* What every step must show of the sum: what the tracked runs have consumed since is counted.
LEMMA CountedSince ==
  ASSUME BudgetInv, BudgetTyped', Tracked' \in SUBSET Agents, NEW k \in Kinds, NEW d \in Nat,
         Consumed(own', k, Tracked') <= Consumed(own, k, Tracked) + d, used'[k] = used[k] + d
  PROVE  Consumed(own', k, Tracked') <= used'[k]
<1>1. Consumed(own, k, Tracked) \in Nat /\ Consumed(own', k, Tracked') \in Nat
  BY UnitsFinite, TrackedAgents DEF BudgetInv, BudgetTyped
<1>2. used[k] \in Nat /\ Consumed(own, k, Tracked) <= used[k]
  BY AmountOf DEF BudgetInv, BudgetTyped, RunsCounted
<1> QED
  BY <1>1, <1>2

LEMMA BudgetKept ==
  ASSUME BudgetInv, UNCHANGED <<used, limits, own>>, Tracked' \subseteq Tracked
  PROVE  BudgetInv'
<1>1. ASSUME NEW k \in Kinds PROVE Consumed(own, k, Tracked') <= used[k]
  <2>1. Consumed(own, k, Tracked') <= Consumed(own, k, Tracked)
    BY TrackedAgents, ConsumedWithin DEF BudgetInv, BudgetTyped
  <2>2. Consumed(own, k, Tracked) \in Nat /\ Consumed(own, k, Tracked') \in Nat /\ used[k] \in Nat
    BY UnitsFinite, TrackedAgents, AmountOf DEF BudgetInv, BudgetTyped
  <2> QED
    BY <2>1, <2>2 DEF BudgetInv, RunsCounted
<1> QED
  BY <1>1 DEF BudgetInv, BudgetTyped, BudgetRespected, RunsCounted

\* What a run takes from the budget it also counts as its own.
LEMMA BudgetTaken ==
  ASSUME BudgetInv, UNCHANGED limits, Tracked' \subseteq Tracked, NEW a \in Agents,
         \/ TryConsumeIteration(a) \/ TryConsumeToolCall(a)
         \/ \E t \in TurnTokens : AddTokens(a, t)
  PROVE  BudgetInv'
<1>0. used \in Amounts /\ limits \in Amounts /\ own \in [Agents -> Amounts]
  BY DEF BudgetInv, BudgetTyped
<1>1. PICK j \in Kinds, d \in Nat :
        /\ used' = [used EXCEPT ![j] = @ + d] /\ own' = [own EXCEPT ![a][j] = @ + d]
        /\ j # "tokens" => used[j] < limits[j] /\ d = 1
  <2>1. CASE TryConsumeIteration(a)
    BY <2>1 DEF TryConsumeIteration, Kinds
  <2>2. CASE TryConsumeToolCall(a)
    BY <2>2 DEF TryConsumeToolCall, Kinds
  <2>3. CASE \E t \in TurnTokens : AddTokens(a, t)
    BY <2>3, TurnAssumption DEF AddTokens, Kinds
  <2> QED
    BY <2>1, <2>2, <2>3
<1>2. used' \in Amounts /\ used'[j] = used[j] + d /\ \A k \in Kinds \ {j} : used'[k] = used[k]
  BY <1>0, <1>1 DEF Amounts, Kinds
<1>3. /\ own' \in [Agents -> Amounts] /\ own'[a][j] = own[a][j] + d
      /\ \A k \in Kinds \ {j} : own'[a][k] = own[a][k]
      /\ \A b \in Agents \ {a} : own'[b] = own[b]
  <2> DEFINE r == [own[a] EXCEPT ![j] = @ + d]
  <2>1. own[a] \in Amounts
    BY <1>0
  <2>2. r \in Amounts /\ r[j] = own[a][j] + d /\ \A k \in Kinds \ {j} : r[k] = own[a][k]
    BY <2>1 DEF Amounts, Kinds
  <2>3. own' = [own EXCEPT ![a] = r]
    BY <1>1
  <2> HIDE DEF r
  <2> QED
    BY <1>0, <2>2, <2>3
<1>4. BudgetTyped' /\ BudgetRespected'
  BY <1>0, <1>1, <1>2 DEF BudgetInv, BudgetTyped, BudgetRespected, Amounts, Kinds
<1>5. ASSUME NEW k \in Kinds PROVE Consumed(own', k, Tracked') <= used'[k]
  <2>1. Tracked' \in SUBSET Agents /\ Tracked' \in SUBSET Tracked
    BY TrackedAgents
  <2>2. CASE k = j
    <3>1. Consumed(own', k, Tracked') <= Consumed(own, k, Tracked) + d
      BY <1>0, <1>3, <2>1, <2>2, TrackedAgents, ConsumedMore
    <3> QED
      BY <1>2, <1>4, <2>1, <2>2, <3>1, CountedSince
  <2>3. CASE k # j
    <3>1. Consumed(own', k, Tracked') <= Consumed(own, k, Tracked)
      BY <1>0, <1>3, <2>1, <2>3, TrackedAgents, ConsumedWithin
    <3>2. /\ Consumed(own, k, Tracked) + 0 = Consumed(own, k, Tracked) /\ used'[k] = used[k] + 0
      BY <1>0, <1>2, <2>3, UnitsFinite, TrackedAgents, AmountOf
    <3> QED
      BY <1>4, <2>1, <3>1, <3>2, CountedSince
  <2> QED
    BY <2>2, <2>3
<1> QED
  BY <1>4, <1>5 DEF BudgetInv, RunsCounted

\* Runs that start with nothing consumed, the counters as they were.
LEMMA BudgetStarts ==
  ASSUME BudgetInv, BudgetTyped', BudgetRespected', used' = used, NEW S \in SUBSET Agents,
         Tracked' \in SUBSET (Tracked \cup S), \A a \in S : own'[a] = Zero,
         \A a \in Agents \ S : own'[a] = own[a]
  PROVE  BudgetInv'
<1>0. Tracked \in SUBSET Agents /\ Tracked' \in SUBSET Agents /\ own \in [Agents -> Amounts]
      /\ own' \in [Agents -> Amounts]
  BY TrackedAgents DEF BudgetInv, BudgetTyped
<1>1. ASSUME NEW k \in Kinds PROVE Consumed(own', k, Tracked') <= used'[k]
  <2>1. Zero[k] = 0
    BY DEF Zero, Kinds
  <2>2. Consumed(own', k, Tracked') <= Consumed(own, k, Tracked)
    BY <1>0, <2>1, ConsumedWithin
  <2>3. Consumed(own, k, Tracked) + 0 = Consumed(own, k, Tracked) /\ used'[k] = used[k] + 0
    BY <1>0, UnitsFinite, AmountOf DEF BudgetInv, BudgetTyped
  <2> QED
    BY <1>0, <2>2, <2>3, CountedSince
<1> QED
  BY <1>1 DEF BudgetInv, RunsCounted

\* A step that leaves the budget and the inputs alone is good when the runs are.
LEMMA QuietStep ==
  ASSUME IInv, InnerStep, UNCHANGED <<budgetVars, own, boundVars>>,
         UNCHANGED inbox \/ \E a \in Agents : inbox' = [inbox EXCEPT ![a] = <<>>]
  PROVE  GoodStep
BY BudgetKept, InputKept DEF IInv, InnerStep, GoodStep, budgetVars

\* ... and so is the arrival of a model turn, which adds its tokens.
LEMMA ModelStep ==
  ASSUME IInv, InnerStep, NEW a \in Agents, \E t \in TurnTokens : AddTokens(a, t),
         UNCHANGED <<limits, inbox, boundVars>>
  PROVE  GoodStep
BY BudgetTaken, InputKept DEF IInv, InnerStep, GoodStep

\* Where a run is when it has a tool call in hand.
Handling == {"batch", "ask", "hook", "run", "spawn"}

LEMMA AnsweredKeeps ==
  ASSUME IInv, NEW a \in Agents, pc[a] \in Handling, pc[a] = "spawn" => waiting = {},
         NEW ok \in {0, 1}, Answered(a, ok)
  PROVE  GoodStep
<1> DEFINE h == Append(history[a], ResultItem(a))
           c == [check[a] EXCEPT !.work = @ + ok]
           t == [turn[a] EXCEPT !.ci = @ + 1]
<1>1. /\ c \in Checks /\ c.atProbe <= c.work
      /\ c.verified # Silence => c.verified.work = c.atProbe
  BY DEF IInv, RunsInv, RunsTyped, CandidateDated, Checks
<1>2. /\ turn[a].kind \in {"none", "native", "text", "final"}
      /\ ~LastCall(a) => t \in Turns /\ t.ci <= t.n
  <2>1. turn[a] \in Turns /\ turn[a].ci <= turn[a].n
    BY DEF IInv, RunsInv, RunsTyped, TurnInRange
  <2> QED BY <2>1, TurnAssumption DEF LastCall, Turns
<1>3. \/ AfterCalls(a, h, c)
      \/ ~LastCall(a) /\ Proceed(a, "batch", h, t, c)
  BY DEF Answered
<1>4. pc[a] # "idle" /\ "batch" \in PCs \ {"hook", "run", "idle"} /\ RunsInv
  BY DEF Handling, PCs, IInv
<1>5. /\ UNCHANGED <<budgetVars, own, boundVars>>
      /\ UNCHANGED inbox \/ inbox' = [inbox EXCEPT ![a] = <<>>]
  BY DEF Answered, AfterCalls
<1> HIDE DEF h, c, t
<1>6. CASE AfterCalls(a, h, c)
  <2>1. CheckStuck(a, h \o Drained(a), turn[a].kind, c)
    BY <1>6 DEF AfterCalls
  <2> QED BY <1>1, <1>2, <1>4, <1>5, <2>1, CheckStuckKeeps, QuietStep DEF boundVars
<1>7. CASE ~LastCall(a) /\ Proceed(a, "batch", h, t, c)
  <2>1. InnerStep
    BY <1>1, <1>2, <1>4, <1>5, <1>7, ProceedKeeps DEF boundVars
  <2> QED BY <1>5, <2>1, QuietStep
<1> QED BY <1>3, <1>6, <1>7

LEMMA StartEffectKeeps ==
  ASSUME IInv, NEW a \in Agents, pc[a] \in Handling \ {"spawn"}, HookGate \/ ~aborted[a],
         StartEffect(a)
  PROVE  GoodStep
<1>1. pc[a] # "idle" /\ pc[a] # "spawn"
  BY DEF Handling
<1>2. CASE /\ TryConsumeToolCall(a) /\ Goto(a, "run")
           /\ UNCHANGED <<limits, turn, aborted, inbox, history, check, endVars, treeVars,
                          boundVars>>
  <2>1. InnerStep
    BY <1>1, <1>2, GotoKeeps DEF IInv, PCs, endVars, treeVars, boundVars
  <2>2. BudgetInv'
    BY <1>2, <2>1, BudgetTaken DEF IInv, InnerStep
  <2>3. InputTyped'
    BY <1>2, InputKept DEF IInv
  <2> QED BY <2>1, <2>2, <2>3 DEF GoodStep, InnerStep
<1>3. CASE /\ Halt(a, "limit", IF Native(a) THEN history[a] \o Unexecuted(turn[a].ci, turn[a].n)
                                            ELSE history[a])
           /\ UNCHANGED <<budgetVars, own, inbox, boundVars>>
  <2>1. InnerStep
    BY <1>1, <1>3, HaltKeeps DEF IInv, StopKinds, boundVars
  <2> QED BY <1>3, <2>1, QuietStep
<1> QED BY <1>2, <1>3 DEF StartEffect

LEMMA PermittedKeeps ==
  ASSUME IInv, NEW a \in Agents, pc[a] \in Handling \ {"spawn"}, HookGate \/ ~aborted[a],
         Permitted(a)
  PROVE  GoodStep
<1>1. CASE ~HookGate
  BY <1>1, StartEffectKeeps DEF Permitted
<1>2. CASE HookGate
  <2>1. pc[a] # "idle" /\ pc[a] # "spawn"
    BY DEF Handling
  <2>2. /\ Goto(a, "hook")
        /\ UNCHANGED <<budgetVars, turn, own, aborted, inbox, history, check, endVars,
                       treeVars, boundVars>>
    BY <1>2 DEF Permitted
  <2>3. InnerStep
    BY <1>2, <2>1, <2>2, GotoKeeps DEF IInv, PCs, endVars, treeVars, boundVars
  <2> QED BY <2>2, <2>3, QuietStep
<1> QED BY <1>1, <1>2

-----------------------------------------------------------------------------
(* The steps of one run *)

LEMMA TopKeeps ==
  ASSUME IInv, NEW a \in Agents, TopAborted(a) \/ TopAtLimit(a) \/ TopReserve(a)
  PROVE  GoodStep
<1> USE DEF IInv
<1>1. pc[a] = "top"
  BY DEF TopAborted, TopAtLimit, TopReserve, At
<1>2. CASE TopAborted(a)
  BY <1>1, <1>2, HaltKeeps, QuietStep DEF TopAborted, Throw, StopKinds, boundVars
<1>3. CASE TopAtLimit(a)
  BY <1>1, <1>3, HaltKeeps, QuietStep DEF TopAtLimit, StopKinds, boundVars
<1>4. CASE TopReserve(a)
  <2>1. InnerStep
    BY <1>1, <1>4, GotoKeeps DEF TopReserve, endVars, treeVars, PCs, boundVars
  <2>2. BudgetInv'
    BY <1>4, <2>1, BudgetTaken DEF TopReserve, InnerStep
  <2>3. InputTyped'
    BY <1>4, InputKept DEF TopReserve
  <2> QED BY <2>1, <2>2, <2>3 DEF GoodStep, InnerStep
<1> QED BY <1>2, <1>3, <1>4

\* The call leaves, fails, is cut, or runs off: no tokens are known.
LEMMA CallKeeps ==
  ASSUME IInv, NEW a \in Agents,
         SendPrompt(a) \/ CallFails(a) \/ CallAborted(a) \/ Expedited(a) \/ Degenerates(a)
  PROVE  GoodStep
<1> USE DEF IInv
<1>1. CASE SendPrompt(a)
  <2>1. InnerStep
    BY <1>1, GotoKeeps DEF SendPrompt, At, endVars, treeVars, PCs, boundVars
  <2> QED BY <1>1, <2>1, QuietStep DEF SendPrompt
<1>2. CASE CallFails(a)
  BY <1>2, HaltKeeps, QuietStep DEF CallFails, At, Throw, StopKinds, boundVars
<1>3. CASE CallAborted(a)
  BY <1>3, HaltKeeps, QuietStep DEF CallAborted, At, Throw, StopKinds, boundVars
<1>4. CASE Expedited(a)
  <2>1. InnerStep
    BY <1>4, GotoKeeps DEF Expedited, At, endVars, treeVars, PCs, boundVars
  <2> QED BY <1>4, <2>1, QuietStep DEF Expedited
<1>5. CASE Degenerates(a)
  BY <1>5, HaltKeeps, QuietStep DEF Degenerates, At, StopKinds, boundVars
<1> QED BY <1>1, <1>2, <1>3, <1>4, <1>5

\* The model answers with tool calls, badly, or nothing at all.
LEMMA ReplyKeeps ==
  ASSUME IInv, NEW a \in Agents,
         ReplyTruncated(a) \/ ReplyWithCalls(a) \/ ReplyMalformed(a)
  PROVE  GoodStep
<1> USE DEF IInv
<1>1. CASE ReplyTruncated(a)
  BY <1>1, HaltKeeps, ModelStep DEF ReplyTruncated, At, StopKinds, boundVars
<1>2. CASE ReplyWithCalls(a)
  <2>1. turn' \in [Agents -> Turns] /\ TurnInRange'
    <3>1. \A n \in 1..MaxBatch : [kind |-> "native", n |-> n, ci |-> 1] \in Turns
      BY TurnAssumption DEF Turns
    <3>2. [kind |-> "text", n |-> 1, ci |-> 1] \in Turns
      BY TurnAssumption DEF Turns
    <3>3. CASE \E n \in 1..MaxBatch :
                 turn' = [turn EXCEPT ![a] = [kind |-> "native", n |-> n, ci |-> 1]]
      BY <3>1, <3>3, TurnAssumption DEF RunsInv, RunsTyped, TurnInRange
    <3>4. CASE turn' = [turn EXCEPT ![a] = [kind |-> "text", n |-> 1, ci |-> 1]]
      BY <3>2, <3>4 DEF RunsInv, RunsTyped, TurnInRange
    <3> QED BY <1>2, <3>3, <3>4 DEF ReplyWithCalls
  <2>2. /\ pc[a] = "call" /\ pc' = [pc EXCEPT ![a] = "batch"]
        /\ UNCHANGED <<aborted, check, stop, answer, waiting, detached, trees, goals>>
    BY <1>2 DEF ReplyWithCalls, At, Goto, endVars, treeVars, boundVars
  <2>3. InnerStep
    BY <2>1, <2>2
       DEF RunsInv, RunsTyped, TurnInRange, HooksNeedGate, WaitsInSpawn, CandidateDated,
           FanoutsDated, InnerStep, RunsStep, EffectStep, AnswerStep, Tracked, Known, PCs
  <2> QED BY <1>2, <2>3, ModelStep DEF ReplyWithCalls
<1>3. CASE ReplyMalformed(a)
  <2>1. /\ check[a] \in Checks /\ check[a].atProbe <= check[a].work
        /\ check[a].verified # Silence => check[a].verified.work = check[a].atProbe
    BY DEF RunsInv, RunsTyped, CandidateDated
  <2>2. InnerStep
    BY <1>3, <2>1, CheckStuckKeeps DEF ReplyMalformed, At, boundVars
  <2> QED BY <1>3, <2>2, ModelStep DEF ReplyMalformed
<1> QED BY <1>1, <1>2, <1>3

\* A final text is probed or delivered: either way the candidate stays as old as its probe.
LEMMA FinalKeeps ==
  ASSUME IInv, NEW a \in Agents, ReplyFinal(a)
  PROVE  GoodStep
<1> USE DEF IInv
<1>0. /\ check[a] \in Checks /\ check[a].atProbe <= check[a].work
      /\ check[a].verified # Silence => check[a].verified.work = check[a].atProbe
  BY DEF RunsInv, RunsTyped, CandidateDated
<1>1. /\ pc[a] = "call" /\ \E t \in TurnTokens : AddTokens(a, t)
      /\ UNCHANGED <<limits, inbox, boundVars>>
  BY DEF ReplyFinal, At
<1>2. PICK form \in {"answer", "question", "empty"} :
        \/ ProbeFinal(a, Utterance(check[a].work, form = "question"))
        \/ AcceptFinal(a, Utterance(check[a].work, form = "question"), form = "empty")
  BY DEF ReplyFinal
<1> DEFINE text == Utterance(check[a].work, form = "question")
<1>3. text \in Utterances /\ text.work = check[a].work
  BY <1>0 DEF Utterance, Utterances, Checks
<1> HIDE DEF text
<1>4. CASE ProbeFinal(a, text)
  <2> DEFINE candidate == IF check[a].verified = Silence \/ check[a].work > check[a].atProbe
                          THEN text ELSE check[a].verified
             c == [work |-> check[a].work, atProbe |-> check[a].work,
                   verified |-> candidate, probes |-> check[a].probes + 1]
  <2>1. candidate \in Utterances /\ candidate.work = check[a].work
    BY <1>0, <1>3 DEF Checks
  <2>2. Proceed(a, "top", history[a] \o <<Text, Text>>, NoTurn, c)
    BY <1>4 DEF ProbeFinal
  <2> HIDE DEF candidate
  <2>3. c \in Checks /\ c.atProbe = c.work /\ c.verified.work = c.work
    <3>1. check[a].work \in Nat /\ check[a].probes + 1 \in Nat
      BY <1>0 DEF Checks
    <3> QED BY <2>1, <3>1 DEF Checks
  <2> HIDE DEF c
  <2>4. NoTurn \in Turns /\ NoTurn.ci <= NoTurn.n
    BY TurnAssumption DEF NoTurn, Turns
  <2>5. c.atProbe <= c.work
    BY <2>3 DEF Checks
  <2>6. InnerStep
    BY <1>1, <2>2, <2>3, <2>4, <2>5, ProceedKeeps DEF PCs, boundVars
  <2> QED BY <1>1, <2>6, ModelStep
<1>5. CASE AcceptFinal(a, text, form = "empty")
  <2> DEFINE h == Append(history[a], Text)
  <2>1. Deliver(a, text, h) \/ CheckStuck(a, h, "final", check[a])
    BY <1>5 DEF AcceptFinal
  <2> HIDE DEF h
  <2>2. CASE Deliver(a, text, h)
    BY <1>1, <1>3, <2>2, DeliverKeeps, ModelStep DEF boundVars
  <2>3. CASE CheckStuck(a, h, "final", check[a])
    BY <1>0, <1>1, <2>3, CheckStuckKeeps, ModelStep DEF boundVars
  <2> QED BY <2>1, <2>2, <2>3
<1> QED BY <1>2, <1>4, <1>5 DEF text

\* The tool calls of a turn, the owner's approval, the hook gate and the tool itself.
LEMMA BatchKeeps ==
  ASSUME IInv, NEW a \in Agents,
         BatchAborted(a) \/ SkipForMessage(a) \/ Decide(a)
  PROVE  GoodStep
<1> USE DEF IInv
<1>0. pc[a] = "batch" /\ pc[a] \in Handling
  BY DEF BatchAborted, SkipForMessage, Decide, At, Handling
<1>1. CASE BatchAborted(a)
  BY <1>0, <1>1, HaltKeeps, QuietStep DEF BatchAborted, Throw, StopKinds, boundVars
<1>2. CASE SkipForMessage(a)
  <2>1. /\ check[a] \in Checks /\ check[a].atProbe <= check[a].work
        /\ check[a].verified # Silence => check[a].verified.work = check[a].atProbe
        /\ turn[a].kind \in {"none", "native", "text", "final"}
    BY DEF RunsInv, RunsTyped, CandidateDated, Turns
  <2> DEFINE h == (history[a] \o Unexecuted(turn[a].ci, turn[a].n)) \o Drained(a)
  <2>2. /\ CheckStuck(a, h, turn[a].kind, check[a])
        /\ inbox' = [inbox EXCEPT ![a] = <<>>] /\ UNCHANGED <<budgetVars, own, boundVars>>
    BY <1>2 DEF SkipForMessage, AfterCalls
  <2> HIDE DEF h
  <2> QED BY <1>0, <2>1, <2>2, CheckStuckKeeps, QuietStep DEF boundVars
<1>3. CASE Decide(a)
  <2>1. CASE Blocked(a)
    BY <1>0, <2>1, AnsweredKeeps DEF Blocked
  <2>2. CASE Permitted(a)
    BY <1>0, <1>3, <2>2, PermittedKeeps DEF Decide
  <2>3. CASE Goto(a, "ask") /\ UNCHANGED <<budgetVars, turn, own, aborted, inbox, history,
                                           check, endVars, treeVars, boundVars>>
    <3>1. InnerStep
      BY <1>0, <2>3, GotoKeeps DEF endVars, treeVars, PCs, boundVars
    <3> QED BY <2>3, <3>1, QuietStep
  <2> QED BY <1>3, <2>1, <2>2, <2>3 DEF Decide
<1> QED BY <1>1, <1>2, <1>3

LEMMA ToolKeeps ==
  ASSUME IInv, NEW a \in Agents,
         \/ AskApproved(a) \/ AskDenied(a) \/ AskCancelled(a) \/ HookVetoes(a)
         \/ HookPasses(a) \/ ToolEnds(a) \/ ToolThrows(a)
  PROVE  GoodStep
<1> USE DEF IInv
<1>1. CASE AskApproved(a)
  BY <1>1, PermittedKeeps DEF AskApproved, At, Handling
<1>2. CASE AskDenied(a) \/ AskCancelled(a) \/ HookVetoes(a)
  BY <1>2, AnsweredKeeps DEF AskDenied, AskCancelled, HookVetoes, Blocked, At, Handling
<1>3. CASE HookPasses(a)
  <2>1. HookGate
    BY <1>3 DEF HookPasses, At, RunsInv, HooksNeedGate
  <2> QED BY <1>3, <2>1, StartEffectKeeps DEF HookPasses, At, Handling
<1>4. CASE ToolEnds(a)
  BY <1>4, AnsweredKeeps DEF ToolEnds, At, Handling
<1>5. CASE ToolThrows(a)
  BY <1>5, HaltKeeps, QuietStep DEF ToolThrows, At, Throw, StopKinds, boundVars
<1> QED BY <1>1, <1>2, <1>3, <1>4, <1>5

LEMMA StuckKeeps ==
  ASSUME IInv, NEW a \in Agents, StuckResolved(a)
  PROVE  GoodStep
<1> USE DEF IInv
<1>1. /\ pc[a] = "stuck" /\ UNCHANGED <<budgetVars, own, inbox, boundVars>>
      /\ check[a] \in Checks /\ check[a].atProbe <= check[a].work
      /\ check[a].verified # Silence => check[a].verified.work = check[a].atProbe
  BY DEF StuckResolved, At, RunsInv, RunsTyped, CandidateDated
<1>2. CASE \E direction \in {<<>>, <<Text>>} :
             Proceed(a, "top", history[a] \o direction, NoTurn, check[a])
  <2>1. NoTurn \in Turns /\ NoTurn.ci <= NoTurn.n
    BY TurnAssumption DEF NoTurn, Turns
  <2> QED BY <1>1, <1>2, <2>1, ProceedKeeps, QuietStep DEF PCs, boundVars
<1>3. CASE Deliver(a, Utterance(check[a].work, FALSE), history[a])
  <2>1. /\ Utterance(check[a].work, FALSE) \in Utterances
        /\ Utterance(check[a].work, FALSE).work = check[a].work
    BY <1>1 DEF Utterance, Utterances, Checks
  <2> QED BY <1>1, <1>3, <2>1, DeliverKeeps, QuietStep DEF boundVars
<1>4. CASE Halt(a, "ended", Append(history[a], Text))
  BY <1>1, <1>4, HaltKeeps, QuietStep DEF StopKinds, boundVars
<1> QED BY <1>2, <1>3, <1>4 DEF StuckResolved

-----------------------------------------------------------------------------
(* The steps of the session and of spawn_agent *)

\* An abort changes the signals and nothing else, and a timeout besides whom the tree still
\* waits for.
LEMMA AbortKeeps ==
  ASSUME IInv, NEW S \in SUBSET Agents, AbortRuns(S),
         UNCHANGED <<waiting, detached, trees>> \/ \E a \in Agents : Report(a)
  PROVE  GoodStep
<1> USE DEF IInv
<1>1. /\ waiting' \subseteq waiting /\ trees' \subseteq trees
      /\ detached' \subseteq [turn : Nat, kids : SUBSET Children]
      /\ FanoutsDated' /\ Known' \subseteq Known
  <2>1. goals' = goals
    BY DEF AbortRuns, boundVars
  <2>2. CASE UNCHANGED <<waiting, detached, trees>>
    BY <2>1, <2>2 DEF RunsInv, RunsTyped, FanoutsDated, Known
  <2>3. CASE \E a \in Agents : Report(a)
    BY <2>1, <2>3, ReportKeeps
  <2> QED BY <2>2, <2>3
<1>2. InnerStep
  BY <1>1 DEF AbortRuns, endVars, RunsInv, RunsTyped, TurnInRange, HooksNeedGate,
              WaitsInSpawn, CandidateDated, InnerStep, RunsStep, EffectStep, AnswerStep, Tracked
<1> QED BY <1>2, QuietStep DEF AbortRuns

\* The fields of a run that starts.
LEMMA StartTypes ==
  ASSUME TRUE
  PROVE  Zero \in Amounts /\ Silence \in Utterances /\ "none" \in StopKinds
         /\ Original \in Amounts
BY LimitsAssumption DEF Zero, Amounts, Silence, Utterances, StopKinds, Original

\* A run of the root starts: the budget is re-armed, kept, or extended.
LEMMA RootStarts ==
  ASSUME IInv, NEW seed, pc[Root] = "idle", StartRuns({Root}, seed), Goto(Root, "top"),
         UNCHANGED <<waiting, detached, trees>>, goals' \in {goals, goals + 1},
         \/ used' = Zero /\ limits' = Original /\ trees = {} /\ goals' = goals + 1
         \/ UNCHANGED <<used, limits>>
         \/ UNCHANGED used /\ limits' = Extended
  PROVE  RunsStep /\ BudgetInv'
<1> USE DEF IInv
<1>0. /\ goals \in Nat /\ \A f \in detached : f.turn \in Nat /\ f.turn <= goals
      /\ FanoutsDated' /\ Known' \subseteq Known
      /\ goals' = goals + 1 => Known' \subseteq UNION {f.kids : f \in {g \in detached : g.turn \in trees}}
  <2>1. goals \in Nat /\ \A f \in detached : f.turn \in Nat /\ f.turn <= goals
    BY BoundsAssumption DEF InputTyped, RunsInv, RunsTyped, FanoutsDated
  <2>2. waiting = {}
    BY DEF RunsInv, WaitsInSpawn
  <2>3. \A f \in detached : f.turn # goals + 1
    BY <2>1
  <2> QED BY <2>1, <2>2, <2>3 DEF FanoutsDated, Known
<1>1. RunsStep
  BY <1>0, StartTypes DEF StartRuns, Goto, PCs, Agents, RunsInv, RunsTyped, TurnInRange,
         HooksNeedGate, WaitsInSpawn, CandidateDated, RunsStep, EffectStep, AnswerStep
<1>2. /\ Tracked' \subseteq Tracked \cup {Root} /\ own' \in [Agents -> Amounts]
      /\ own'[Root] = Zero /\ \A a \in Agents \ {Root} : own'[a] = own[a]
  BY <1>0, StartTypes
     DEF StartRuns, Goto, Tracked, Agents, RunsInv, RunsTyped, BudgetInv, BudgetTyped
<1>3. CASE used' = Zero /\ limits' = Original /\ trees = {} /\ goals' = goals + 1
  <2>1. Known' = {}
    BY <1>0, <1>3
  <2>2. Tracked' \subseteq {Root}
    BY <2>1 DEF Tracked
  <2>3. BudgetTyped' /\ BudgetRespected'
    BY <1>2, <1>3, StartTypes, LimitsAssumption
       DEF BudgetInv, BudgetTyped, BudgetRespected, Zero, Original
  <2>4. ASSUME NEW k \in Kinds PROVE Consumed(own', k, Tracked') <= used'[k]
    <3>1. own'[Root][k] = 0 /\ used'[k] = 0
      BY <1>2, <1>3 DEF Zero, Kinds
    <3>2. Consumed(own', k, Tracked') <= Consumed(own', k, {})
      BY <1>2, <2>2, <3>1, ConsumedWithin DEF Agents
    <3> QED
      BY <3>1, <3>2, NothingConsumed
  <2> QED
    BY <1>1, <2>3, <2>4 DEF BudgetInv, RunsCounted
<1>4. Extended \in Amounts /\ limits.iterations <= Extended.iterations
                           /\ limits.toolCalls <= Extended.toolCalls
  BY LimitsAssumption DEF Extended, Amounts, LesserOf, BudgetInv, BudgetTyped
<1>5. CASE used' = used /\ (limits' = limits \/ limits' = Extended)
  <2>1. BudgetTyped' /\ BudgetRespected'
    BY <1>2, <1>4, <1>5 DEF BudgetInv, BudgetTyped, BudgetRespected, Amounts
  <2>2. {Root} \in SUBSET Agents /\ \A a \in {Root} : own'[a] = Zero
    BY <1>2 DEF Agents
  <2> QED
    BY <1>1, <1>2, <1>5, <2>1, <2>2, BudgetStarts
<1> QED BY <1>1, <1>3, <1>5

LEMMA SessionKeeps ==
  ASSUME IInv, Session
  PROVE  GoodStep
<1> USE DEF IInv
<1>1. CASE NewGoal
  <2>1. RunsStep /\ BudgetInv'
    BY <1>1, RootStarts DEF NewGoal, RearmBudget, At, treeVars, budgetVars, boundVars
  <2>2. <<>> \in Seq(Nat) /\ goals + 1 \in 0..MaxGoals
    BY <1>1, EmptySeq, BoundsAssumption DEF NewGoal, InputTyped
  <2>3. InputTyped'
    BY <1>1, <2>2 DEF NewGoal, InputTyped
  <2> QED BY <2>1, <2>3 DEF GoodStep
<1>2. CASE ContinueAfterBudget
  <2>1. RunsStep /\ BudgetInv'
    BY <1>2, RootStarts DEF ContinueAfterBudget, At, treeVars, budgetVars, boundVars
  <2>2. InputTyped'
    BY <1>2, BoundsAssumption DEF ContinueAfterBudget, InputTyped
  <2> QED BY <2>1, <2>2 DEF GoodStep
<1>3. CASE Esc
  BY <1>3, AbortKeeps DEF Esc, treeVars, Agents
<1>4. CASE StopAll
  <2>1. {Root} \cup Known \subseteq Agents
    BY DEF Known, Agents, RunsInv, RunsTyped
  <2> QED BY <1>4, <2>1, AbortKeeps DEF StopAll, treeVars
<1>5. CASE \E a \in Agents : Send(a)
  <2>1. PICK a \in Agents : Send(a)
    BY <1>5
  <2>2. RunsStep /\ Tracked' = Tracked
    BY <2>1 DEF Send, endVars, treeVars, RunsInv, RunsTyped, TurnInRange, HooksNeedGate,
                WaitsInSpawn, CandidateDated, FanoutsDated, RunsStep, EffectStep, AnswerStep,
                Tracked, Known
  <2>3. BudgetInv'
    BY <2>1, <2>2, BudgetKept DEF Send, budgetVars
  <2>4. sent + 1 \in Nat /\ sent' \in 0..MaxSends
    BY <2>1, BoundsAssumption DEF Send, InputTyped
  <2>5. Append(inbox[a], sent + 1) \in Seq(Nat)
    BY <2>4, AppendProperties DEF InputTyped
  <2>6. InputTyped'
    BY <2>1, <2>4, <2>5 DEF Send, InputTyped
  <2> QED BY <2>2, <2>3, <2>6 DEF GoodStep
<1> QED BY <1>1, <1>2, <1>3, <1>4, <1>5 DEF Session

LEMMA TreeKeeps ==
  ASSUME IInv, Tree
  PROVE  GoodStep
<1> USE DEF IInv
<1>1. CASE \E S \in SUBSET Children, wait \in BOOLEAN : Spawn(S, wait)
  <2>1. PICK S \in SUBSET Children, wait \in BOOLEAN : Spawn(S, wait)
    BY <1>1
  <2>2. S \subseteq Agents /\ Root \notin S /\ pc[Root] = "run"
        /\ \A c \in S : pc[c] = "idle"
    BY <2>1, AgentsAssumption DEF Spawn, At, Agents
  <2>0. /\ goals \in Nat /\ goals' = goals /\ waiting = {}
        /\ waiting' \subseteq Children /\ waiting' # {} => pc'[Root] = "spawn"
        /\ trees' \subseteq Nat
        /\ detached' \subseteq [turn : Nat, kids : SUBSET Children]
        /\ FanoutsDated' /\ Known' \subseteq Known \cup S
    <3>1. goals \in Nat /\ goals' = goals /\ waiting = {} /\ pc'[Root] = "spawn"
      BY <2>1, <2>2, BoundsAssumption
         DEF Spawn, boundVars, InputTyped, RunsInv, WaitsInSpawn, Agents
    <3>2. CASE waiting' = S /\ UNCHANGED <<detached, trees>>
      BY <3>1, <3>2 DEF RunsInv, RunsTyped, FanoutsDated, Known
    <3>3. CASE SetLoose(S) /\ UNCHANGED waiting
      <4>1. [turn |-> goals, kids |-> S] \in [turn : Nat, kids : SUBSET Children]
        BY <3>1
      <4>2. detached' \subseteq [turn : Nat, kids : SUBSET Children] /\ trees' \subseteq Nat
        BY <3>1, <3>3, <4>1 DEF SetLoose, RunsInv, RunsTyped
      <4>3. FanoutsDated'
        BY <3>1, <3>3 DEF SetLoose, RunsInv, FanoutsDated
      <4>4. Known' \subseteq Known \cup S
        BY <3>1, <3>3 DEF SetLoose, Known
      <4> QED BY <3>1, <3>3, <4>2, <4>3, <4>4
    <3> QED BY <2>1, <3>2, <3>3 DEF Spawn
  <2>3. RunsStep
    BY <2>0, <2>1, <2>2, StartTypes
       DEF Spawn, StartRuns, PCs, Agents, RunsInv, RunsTyped, TurnInRange, HooksNeedGate,
           WaitsInSpawn, CandidateDated, RunsStep, EffectStep, AnswerStep
  <2>4. /\ Tracked' \subseteq Tracked \cup S /\ own' \in [Agents -> Amounts]
        /\ \A a \in S : own'[a] = Zero
        /\ \A a \in Agents \ S : own'[a] = own[a]
    BY <2>0, <2>1, <2>2, StartTypes DEF Spawn, StartRuns, Tracked, RunsInv, RunsTyped, WaitsInSpawn,
                                  BudgetInv, BudgetTyped, Agents
  <2>6. BudgetInv'
    <3>1. used' = used /\ limits' = limits
      BY <2>1 DEF Spawn, budgetVars
    <3>2. BudgetTyped' /\ BudgetRespected'
      BY <2>4, <3>1 DEF BudgetInv, BudgetTyped, BudgetRespected
    <3> QED
      BY <2>2, <2>4, <3>1, <3>2, BudgetStarts
  <2>7. InputTyped'
    BY <2>1, EmptySeq DEF Spawn, InputTyped, boundVars
  <2> QED BY <2>3, <2>6, <2>7 DEF GoodStep
<1>2. CASE Detach
  <2>1. /\ goals \in Nat /\ goals' = goals /\ trees' = trees \cup {goals} /\ waiting' = {}
        /\ detached' = detached \cup {[turn |-> goals, kids |-> waiting]}
    BY <1>2, BoundsAssumption DEF Detach, SetLoose, boundVars, InputTyped
  <2>2. [turn |-> goals, kids |-> waiting] \in [turn : Nat, kids : SUBSET Children]
    BY <2>1 DEF RunsInv, RunsTyped
  <2>3. /\ detached' \subseteq [turn : Nat, kids : SUBSET Children] /\ trees' \subseteq Nat
        /\ FanoutsDated' /\ Known' \subseteq Known
    BY <2>1, <2>2 DEF RunsInv, RunsTyped, FanoutsDated, Known
  <2>4. InnerStep
    BY <1>2, <2>1, <2>3
       DEF Detach, endVars, RunsInv, RunsTyped, TurnInRange, HooksNeedGate, WaitsInSpawn,
           CandidateDated, InnerStep, RunsStep, EffectStep, AnswerStep, Tracked
  <2> QED BY <1>2, <2>4, QuietStep DEF Detach
<1>3. CASE SpawnReturns
  BY <1>3, AnsweredKeeps DEF SpawnReturns, At, Handling, Agents
<1>4. CASE \E c \in Children : StopChild(c)
  BY <1>4, AbortKeeps DEF StopChild, treeVars, Agents
<1>5. CASE \E c \in Children : IdleTimeout(c)
  BY <1>5, AbortKeeps DEF IdleTimeout, Agents
<1> QED BY <1>1, <1>2, <1>3, <1>4, <1>5 DEF Tree

-----------------------------------------------------------------------------
(* The invariant *)

LEMMA InitInv == Init => IInv
<1> SUFFICES ASSUME Init PROVE IInv
  OBVIOUS
<1>1. NoTurn \in Turns /\ NoTurn.ci <= NoTurn.n
  BY TurnAssumption DEF NoTurn, Turns
<1>2. /\ FreshCheck \in Checks /\ FreshCheck.atProbe <= FreshCheck.work
      /\ FreshCheck.verified = Silence
  BY DEF FreshCheck, Checks, Silence, Utterances
<1>3. RunsInv
  BY <1>1, <1>2, StartTypes DEF Init, RunsInv, RunsTyped, TurnInRange, HooksNeedGate,
                                WaitsInSpawn, CandidateDated, FanoutsDated, PCs
<1>4. BudgetInv
  <2>1. BudgetTyped /\ BudgetRespected /\ Tracked = {}
    BY StartTypes, LimitsAssumption
       DEF Init, BudgetTyped, BudgetRespected, Tracked, Zero, Original
  <2>2. \A k \in Kinds : used[k] = 0
    BY DEF Init, Zero, Kinds
  <2> QED
    BY <2>1, <2>2, NothingConsumed DEF BudgetInv, RunsCounted
<1>5. InputTyped
  BY EmptySeq, BoundsAssumption DEF Init, InputTyped
<1> QED BY <1>3, <1>4, <1>5 DEF IInv

LEMMA NextKeeps ==
  ASSUME IInv, [Next]_vars
  PROVE  GoodStep
<1>1. CASE Session
  BY <1>1, SessionKeeps
<1>2. CASE Tree
  BY <1>2, TreeKeeps
<1>3. ASSUME NEW a \in Agents, Automatic(a) PROVE GoodStep
  BY <1>3, TopKeeps, CallKeeps, ReplyKeeps, FinalKeeps, BatchKeeps, ToolKeeps DEF Automatic
<1>4. ASSUME NEW a \in Agents, OwnerDecides(a) PROVE GoodStep
  BY <1>4, ToolKeeps, CallKeeps, StuckKeeps DEF OwnerDecides
<1>5. CASE UNCHANGED vars
  <2>1. InnerStep
    BY <1>5 DEF vars, IInv, RunsInv, RunsTyped, TurnInRange, HooksNeedGate, WaitsInSpawn,
                CandidateDated, FanoutsDated, InnerStep, RunsStep, EffectStep, AnswerStep,
                Tracked, Known
  <2> QED BY <1>5, <2>1, QuietStep DEF vars, budgetVars, boundVars
<1> QED BY <1>1, <1>2, <1>3, <1>4, <1>5 DEF Next

\* Everything the later theorems rest on holds in every reachable state: the types, the
\* ranges of the loops' counters, the dates of the self-check and the budget's accounts.
THEOREM Invariance == Spec => []IInv
<1>1. IInv /\ [Next]_vars => IInv'
  BY NextKeeps DEF GoodStep, RunsStep, IInv
<1> QED BY InitInv, <1>1, PTL DEF Spec

\* The shared budget, the locals of every run and the session's fields keep their types.
THEOREM TypesHold == Spec => []TypeOK
<1>1. IInv => TypeOK
  BY DEF IInv, RunsInv, BudgetInv, TypeOK
<1> QED BY <1>1, Invariance, PTL

\* However many children run and however they interleave with the root, the tree's
\* iterations and tool calls never pass the shared limits (shared-budget.ts).
THEOREM BudgetHolds == Spec => []BudgetRespected
<1>1. IInv => BudgetRespected
  BY DEF IInv, BudgetInv
<1> QED BY <1>1, Invariance, PTL

\* What the runs the session still reaches have consumed stays counted in the shared budget, all
\* together: the reset of a new goal (controller.ts) forgets no live child of a tree it keeps.
THEOREM RunsStayCounted == Spec => []LiveConsumptionCounted
<1>1. IInv => LiveConsumptionCounted
  <2> SUFFICES ASSUME IInv, NEW k \in Kinds PROVE Total(own, k, Tracked) <= used[k]
    BY DEF LiveConsumptionCounted, Counted, Total
  <2> QED
    BY TotalConsumed, TrackedAgents DEF IInv, BudgetInv, BudgetTyped, RunsCounted
<1> QED BY <1>1, Invariance, PTL

\* A final answer is as new as the run's last successful tool, whatever was probed before
\* (loop.ts, the self-check).
THEOREM AnswersAreCurrent == Spec => AnswerReflectsWork
<1>1. IInv /\ [Next]_vars => [AnswerStep]_vars
  BY NextKeeps DEF GoodStep, RunsStep
<1>2. [AnswerStep]_vars => [\A a \in Agents : pc[a] # "idle" /\ pc'[a] = "idle"
                              /\ stop'[a] = "final" => answer'[a].work = check[a].work]_vars
  BY DEF AnswerStep
<1> QED BY <1>1, <1>2, Invariance, PTL DEF Spec, AnswerReflectsWork

\* Without a hook gate no tool starts for a run whose signal has fired: with one, the code
\* does not look at the signal again once the hook has passed.
THEOREM NoEffectWithoutGate == ASSUME ~HookGate PROVE Spec => NoEffectAfterAbort
<1>1. IInv /\ [Next]_vars => [EffectStep]_vars
  BY NextKeeps DEF GoodStep, RunsStep
<1>2. [EffectStep]_vars =>
        [\A a \in Agents : aborted[a] /\ pc'[a] = "run" => pc[a] = "run"]_vars
  BY DEF EffectStep
<1> QED BY <1>1, <1>2, Invariance, PTL DEF Spec, NoEffectAfterAbort

-----------------------------------------------------------------------------
(* Tokens *)

\* Tokens never pass their limit by as much as a turn of every agent, nor the limit its ceiling.
TokenInv == limits.tokens <= TokensCeiling /\ TokenOvershootBounded

\* A step starts no call and leaves the tokens alone; starts calls below the limit; books a
\* turn as its call ends; or sets the budget anew.
TokenStep ==
  \/ /\ UNCHANGED used.tokens /\ InFlight' \subseteq InFlight
     /\ limits' = limits \/ limits' = Extended
  \/ UNCHANGED <<used.tokens, limits>> /\ used.tokens < limits.tokens
  \/ /\ UNCHANGED limits
     /\ \E a \in InFlight, t \in TurnTokens :
          used'.tokens = used.tokens + t /\ InFlight' \subseteq InFlight \ {a}
  \/ used' = Zero /\ limits' = Original /\ InFlight' \subseteq InFlight

\* A run that is moved on, but not to a call, starts none.
LEMMA Settles ==
  ASSUME pc \in [Agents -> PCs], NEW a \in Agents, NEW p \in PCs \ {"prep", "call"}, Goto(a, p)
  PROVE  InFlight' \subseteq InFlight \ {a}
BY DEF InFlight, Goto

Resting(a) == \E p \in PCs \ {"prep", "call"} : Goto(a, p)

\* What ends a run or takes it to its next iteration or tool call starts no call.
LEMMA RestingMoves ==
  ASSUME NEW a \in Agents
  PROVE  /\ \A kind, h : End(a, kind, h) \/ Halt(a, kind, h) \/ Throw(a, kind) => Resting(a)
         /\ \A text, h : Deliver(a, text, h) => Resting(a)
         /\ \A h, kind, c : CheckStuck(a, h, kind, c) => Resting(a)
         /\ \A ok : Answered(a, ok) => Resting(a)
         /\ Permitted(a) => Resting(a)
<1>1. {"idle", "top", "stuck", "batch", "hook", "run"} \subseteq PCs \ {"prep", "call"}
  BY DEF PCs
<1>2. \A kind, h : End(a, kind, h) \/ Halt(a, kind, h) \/ Throw(a, kind) => Resting(a)
  BY <1>1 DEF End, Halt, Throw, Resting
<1>3. \A text, h : Deliver(a, text, h) => Resting(a)
  BY <1>2 DEF Deliver
<1>4. \A h, kind, c : CheckStuck(a, h, kind, c) => Resting(a)
  BY <1>1, <1>2 DEF CheckStuck, Proceed, Resting
<1>5. ASSUME NEW ok, Answered(a, ok) PROVE Resting(a)
  <2>1. \/ \E h, c : AfterCalls(a, h, c)
        \/ \E h, t, c : Proceed(a, "batch", h, t, c)
    BY <1>5 DEF Answered
  <2> QED
    BY <1>1, <1>4, <2>1 DEF AfterCalls, Proceed, Resting
<1>6. Permitted(a) => Resting(a)
  BY <1>1, <1>2 DEF Permitted, StartEffect, Resting
<1> QED
  BY <1>2, <1>3, <1>4, <1>5, <1>6

\* The steps of one run, by what they do to the tokens.
LEMMA RunTokens ==
  ASSUME IInv, NEW a \in Agents, Automatic(a) \/ OwnerDecides(a)
  PROVE  TokenStep
<1>0. pc \in [Agents -> PCs] /\ used \in Amounts /\ limits \in Amounts
  BY DEF IInv, RunsInv, RunsTyped, BudgetInv, BudgetTyped
<1>1. ASSUME Resting(a), UNCHANGED <<used.tokens, limits>> PROVE TokenStep
  BY <1>0, <1>1, Settles DEF Resting, TokenStep
<1>2. CASE TopAborted(a) \/ TopAtLimit(a)
  BY <1>1, <1>2, RestingMoves DEF TopAborted, TopAtLimit, Throw, budgetVars
<1>3. CASE TopReserve(a)
  BY <1>0, <1>3 DEF TopReserve, PeekExceeded, TryConsumeIteration, Amounts, TokenStep
<1>4. CASE SendPrompt(a)
  BY <1>0, <1>4 DEF SendPrompt, At, Goto, InFlight, budgetVars, TokenStep
<1>5. CASE CallFails(a) \/ CallAborted(a) \/ Degenerates(a) \/ BatchAborted(a) \/ ToolThrows(a)
  BY <1>1, <1>5, RestingMoves
     DEF CallFails, CallAborted, Degenerates, BatchAborted, ToolThrows, Throw, budgetVars
<1>6. CASE Expedited(a)
  BY <1>1, <1>6 DEF Expedited, Resting, PCs, budgetVars
<1>7. CASE ReplyTruncated(a) \/ ReplyWithCalls(a) \/ ReplyMalformed(a) \/ ReplyFinal(a)
  <2>1. /\ a \in InFlight /\ UNCHANGED limits
        /\ \E t \in TurnTokens : used'.tokens = used.tokens + t
    BY <1>0, <1>7
       DEF ReplyTruncated, ReplyWithCalls, ReplyMalformed, ReplyFinal, At, InFlight, AddTokens, Amounts
  <2>2. Resting(a)
    <3>1. CASE ReplyTruncated(a) \/ ReplyMalformed(a)
      BY <3>1, RestingMoves DEF ReplyTruncated, ReplyMalformed
    <3>2. CASE ReplyWithCalls(a)
      BY <3>2 DEF ReplyWithCalls, Resting, PCs
    <3>3. CASE ReplyFinal(a)
      <4>1. PICK text, empty : ProbeFinal(a, text) \/ AcceptFinal(a, text, empty)
        BY <3>3 DEF ReplyFinal
      <4>2. CASE ProbeFinal(a, text)
        BY <4>2 DEF ProbeFinal, Proceed, Resting, PCs
      <4>3. CASE AcceptFinal(a, text, empty)
        BY <4>3, RestingMoves DEF AcceptFinal
      <4> QED
        BY <4>1, <4>2, <4>3
    <3> QED
      BY <1>7, <3>1, <3>2, <3>3
  <2>3. InFlight' \subseteq InFlight \ {a}
    BY <1>0, <2>2, Settles DEF Resting
  <2> QED
    BY <2>1, <2>3 DEF TokenStep
<1>8. CASE SkipForMessage(a)
  BY <1>1, <1>8, RestingMoves DEF SkipForMessage, AfterCalls, budgetVars
<1>9. ASSUME Permitted(a) PROVE UNCHANGED <<used.tokens, limits>>
  BY <1>0, <1>9 DEF Permitted, StartEffect, TryConsumeToolCall, Amounts, budgetVars
<1>10. ASSUME NEW ok, Answered(a, ok) PROVE UNCHANGED <<used.tokens, limits>>
  BY <1>10 DEF Answered, budgetVars
<1>11. CASE Decide(a)
  <2>1. CASE Goto(a, "ask") /\ UNCHANGED budgetVars
    BY <1>1, <2>1 DEF Resting, PCs, budgetVars
  <2> QED
    BY <1>1, <1>9, <1>10, <1>11, <2>1, RestingMoves DEF Decide, Blocked
<1>12. CASE AskApproved(a) \/ AskDenied(a) \/ AskCancelled(a) \/ HookVetoes(a) \/ ToolEnds(a)
  BY <1>1, <1>9, <1>10, <1>12, RestingMoves
     DEF AskApproved, AskDenied, AskCancelled, HookVetoes, ToolEnds, Blocked
<1>13. CASE HookPasses(a)
  <2>1. Resting(a)
    BY <1>13, RestingMoves DEF HookPasses, StartEffect, Resting, PCs
  <2>2. UNCHANGED <<used.tokens, limits>>
    BY <1>0, <1>13 DEF HookPasses, StartEffect, TryConsumeToolCall, Amounts, budgetVars
  <2> QED
    BY <1>1, <2>1, <2>2
<1>14. CASE StuckResolved(a)
  <2>1. Resting(a)
    BY <1>14, RestingMoves DEF StuckResolved, Proceed, Resting, PCs
  <2> QED
    BY <1>1, <1>14, <2>1 DEF StuckResolved, budgetVars
<1> QED
  BY <1>2, <1>3, <1>4, <1>5, <1>6, <1>7, <1>8, <1>11, <1>12, <1>13, <1>14
     DEF Automatic, OwnerDecides

\* The session and spawn_agent start no call, and raise the limits or set them anew.
LEMMA OtherTokens ==
  ASSUME IInv, Session \/ Tree \/ UNCHANGED vars
  PROVE  TokenStep
<1>0. pc \in [Agents -> PCs] /\ Root \in Agents
  BY DEF IInv, RunsInv, RunsTyped, Agents
<1>1. ASSUME NEW p \in {"top", "spawn"}, Goto(Root, p) PROVE InFlight' \subseteq InFlight
  BY <1>0, <1>1, Settles DEF PCs
<1>2. CASE NewGoal
  BY <1>1, <1>2 DEF NewGoal, RearmBudget, budgetVars, TokenStep
<1>3. CASE ContinueAfterBudget
  BY <1>1, <1>3 DEF ContinueAfterBudget, TokenStep
<1>4. ASSUME UNCHANGED <<pc, used, limits>> PROVE TokenStep
  BY <1>4 DEF TokenStep, InFlight
<1>5. CASE Esc \/ StopAll \/ \E a \in Agents : Send(a)
  BY <1>4, <1>5 DEF Esc, StopAll, AbortRuns, Send, budgetVars
<1>6. CASE Detach \/ \E c \in Children : StopChild(c) \/ IdleTimeout(c)
  BY <1>4, <1>6 DEF Detach, StopChild, IdleTimeout, AbortRuns, budgetVars
<1>7. CASE \E S \in SUBSET Children, wait \in BOOLEAN : Spawn(S, wait)
  <2>1. InFlight' \subseteq InFlight
    BY <1>0, <1>7 DEF Spawn, InFlight
  <2> QED
    BY <1>7, <2>1 DEF Spawn, budgetVars, TokenStep
<1>8. CASE SpawnReturns
  <2>1. Resting(Root) /\ UNCHANGED <<used, limits>>
    BY <1>0, <1>8, RestingMoves DEF SpawnReturns, Answered, budgetVars
  <2> QED
    BY <1>0, <2>1, Settles DEF Resting, TokenStep
<1>9. CASE UNCHANGED vars
  BY <1>4, <1>9 DEF vars
<1> QED
  BY <1>2, <1>3, <1>5, <1>6, <1>7, <1>8, <1>9 DEF Session, Tree

\* The arithmetic of a bound per agent.
LEMMA Multiples ==
  ASSUME NEW m \in Nat, NEW i \in Nat, NEW j \in Nat
  PROVE  /\ m * i \in Nat
         /\ i <= j => m * i <= m * j
         /\ i + 1 <= j => m * i + m <= m * j
OBVIOUS

\* Every kind of step keeps the overshoot in its bounds.
LEMMA TokenStepKeeps ==
  ASSUME IInv, TokenInv, TokenStep, IInv'
  PROVE  TokenInv'
<1> DEFINE M == MostTokens
           n == Cardinality(InFlight)
           all == Cardinality(Agents)
<1>1. IsFiniteSet(Agents) /\ InFlight \subseteq Agents /\ InFlight' \subseteq Agents
  BY AgentsAssumption, FS_AddElement, FS_Union, FS_Singleton DEF Agents, InFlight
<1>2. /\ IsFiniteSet(InFlight) /\ IsFiniteSet(InFlight')
      /\ n \in Nat /\ n' \in Nat /\ all \in Nat /\ n <= all /\ n' <= all
  BY <1>1, FS_Subset, FS_CardinalityType
<1>3. M \in Nat /\ \A t \in TurnTokens : t \in Nat /\ t <= M
  BY TurnTokensAssumption, TurnAssumption DEF MostTokens
<1>4. /\ used.tokens \in Nat /\ limits.tokens \in Nat /\ used'.tokens \in Nat /\ limits'.tokens \in Nat
      /\ limits.tokens <= TokensCeiling /\ used.tokens + M * n < limits.tokens + M * all
  BY DEF IInv, BudgetInv, BudgetTyped, Amounts, TokenInv, TokenOvershootBounded
<1>5. M' = M /\ all' = all
  BY DEF MostTokens, Agents
<1>6. InFlight' \subseteq InFlight => n' <= n
  BY <1>2, FS_Subset
<1> SUFFICES /\ limits'.tokens <= TokensCeiling
             /\ used'.tokens + M * n' < limits'.tokens + M * all
  BY <1>5 DEF TokenInv, TokenOvershootBounded
<1>7. M * n \in Nat /\ M * n' \in Nat /\ M * all \in Nat /\ M * n' <= M * all
  BY <1>2, <1>3, Multiples
<1>8. CASE /\ UNCHANGED used.tokens /\ InFlight' \subseteq InFlight
           /\ limits' = limits \/ limits' = Extended
  <2>1. limits.tokens <= limits'.tokens /\ limits'.tokens <= TokensCeiling
    BY <1>4, <1>8, LimitsAssumption DEF Extended, LesserOf
  <2>2. M * n' <= M * n
    BY <1>2, <1>3, <1>6, <1>8, Multiples
  <2> HIDE DEF M, n, all
  <2> QED
    BY <1>4, <1>7, <1>8, <2>1, <2>2
<1>9. CASE UNCHANGED <<used.tokens, limits>> /\ used.tokens < limits.tokens
  <2> HIDE DEF M, n, all
  <2> QED
    BY <1>4, <1>7, <1>9
<1>10. ASSUME UNCHANGED limits, NEW a \in InFlight, NEW t \in TurnTokens,
              used'.tokens = used.tokens + t, InFlight' \subseteq InFlight \ {a}
       PROVE  /\ limits'.tokens <= TokensCeiling
              /\ used'.tokens + M * n' < limits'.tokens + M * all
  <2>1. Cardinality(InFlight \ {a}) = n - 1 /\ n' <= Cardinality(InFlight \ {a})
    BY <1>2, <1>10, FS_RemoveElement, FS_Subset
  <2>2. n' + 1 <= n
    BY <1>2, <2>1
  <2>3. M * n' + M <= M * n
    BY <1>2, <1>3, <2>2, Multiples
  <2>4. t \in Nat /\ t <= M
    BY <1>3
  <2> HIDE DEF M, n, all
  <2> QED
    BY <1>3, <1>4, <1>7, <1>10, <2>3, <2>4
<1>11. CASE used' = Zero /\ limits' = Original /\ InFlight' \subseteq InFlight
  <2>1. used'.tokens = 0 /\ limits'.tokens = MaxTokens
    BY <1>11 DEF Zero, Original
  <2> HIDE DEF M, n, all
  <2> QED
    BY <1>7, <2>1, LimitsAssumption
<1> QED
  BY <1>8, <1>9, <1>10, <1>11 DEF TokenStep

\* The tree's tokens pass their limit by less than one model turn of each agent, however many
\* agents there are and whatever a turn may cost: the gate lets nobody start past the limit.
THEOREM OvershootHolds == Spec => []TokenOvershootBounded
<1>1. IInv /\ Init => TokenInv
  <2> SUFFICES ASSUME IInv, Init PROVE TokenInv
    OBVIOUS
  <2>1. InFlight = {}
    BY DEF Init, InFlight
  <2>2. IsFiniteSet(Agents) /\ Cardinality(Agents) \in Nat /\ Cardinality(InFlight) = 0
    BY <2>1, AgentsAssumption, FS_EmptySet, FS_AddElement, FS_Union, FS_Singleton, FS_CardinalityType
       DEF Agents
  <2>3. MostTokens \in Nat
    BY TurnTokensAssumption, TurnAssumption DEF MostTokens
  <2>4. MostTokens * Cardinality(Agents) \in Nat /\ MostTokens * Cardinality(InFlight) = 0
    BY <2>2, <2>3, Multiples
  <2> HIDE DEF MostTokens
  <2> QED
    BY <2>4, LimitsAssumption DEF Init, TokenInv, TokenOvershootBounded, Zero, Original
<1>2. IInv /\ TokenInv /\ [Next]_vars => TokenInv'
  BY NextKeeps, TokenStepKeeps, RunTokens, OtherTokens DEF GoodStep, RunsStep, IInv, Next
<1>3. TokenInv => TokenOvershootBounded
  BY DEF TokenInv
<1> QED
  BY InitInv, <1>1, <1>2, <1>3, Invariance, PTL DEF Spec

-----------------------------------------------------------------------------
(* The shape of histories: texts, and histories put together *)

\* The items of a history.
Roles == {"text", "user_inject", "model_tool_calls", "tool_result"}
Entries == [role : Roles, k : Nat]

\* A member of a sequence put together comes from one of its parts.
LEMMA PartsOf ==
  ASSUME NEW T, NEW s \in Seq(T), NEW t \in Seq(T)
  PROVE  /\ s \o t \in Seq(T) /\ Len(s) \in Nat /\ Len(t) \in Nat /\ Len(s \o t) = Len(s) + Len(t)
         /\ DOMAIN s = 1..Len(s) /\ DOMAIN t = 1..Len(t) /\ DOMAIN (s \o t) = 1..(Len(s) + Len(t))
         /\ \A i \in 1..Len(s) : (s \o t)[i] = s[i]
         /\ \A i \in 1..Len(t) : (s \o t)[Len(s) + i] = t[i]
<1>1. /\ s \o t \in Seq(T) /\ Len(s \o t) = Len(s) + Len(t) /\ Len(s) \in Nat /\ Len(t) \in Nat
      /\ \A i \in 1..Len(s) + Len(t) :
           (s \o t)[i] = IF i <= Len(s) THEN s[i] ELSE t[i - Len(s)]
  BY ConcatProperties, LenProperties
<1>2. DOMAIN s = 1..Len(s) /\ DOMAIN t = 1..Len(t) /\ DOMAIN (s \o t) = 1..(Len(s) + Len(t))
  BY <1>1, LenProperties
<1>3. ASSUME NEW i \in 1..Len(t) PROVE (s \o t)[Len(s) + i] = t[i]
  <2>1. Len(s) + i \in 1..Len(s) + Len(t) /\ ~(Len(s) + i <= Len(s)) /\ (Len(s) + i) - Len(s) = i
    BY <1>1
  <2>2. (s \o t)[Len(s) + i] = t[(Len(s) + i) - Len(s)]
    BY <1>1, <2>1
  <2> QED
    BY <2>1, <2>2
<1>4. \A i \in 1..Len(s) : (s \o t)[i] = s[i]
  BY <1>1
<1> QED
  BY <1>1, <1>2, <1>3, <1>4

\* Two histories that a provider accepts, one after the other, are one that it accepts.
LEMMA PairedJoined ==
  ASSUME NEW s \in Seq(Entries), NEW t \in Seq(Entries), Paired(s), Paired(t)
  PROVE  s \o t \in Seq(Entries) /\ Paired(s \o t)
<1> DEFINE h == s \o t
           m == Len(s)
           n == Len(t)
<1>1. /\ h \in Seq(Entries) /\ m \in Nat /\ n \in Nat
      /\ DOMAIN s = 1..m /\ DOMAIN t = 1..n /\ DOMAIN h = 1..m + n
      /\ \A i \in 1..m : h[i] = s[i]
      /\ \A i \in 1..n : h[m + i] = t[i]
  BY PartsOf
<1>0. \A i \in 1..n : t[i].k \in Nat
  <2>1. \A i \in 1..Len(t) : t[i] \in Entries
    BY ElementOfSeq
  <2> QED
    BY <2>1 DEF Entries
<1> HIDE DEF h, m, n
<1>2. ASSUME NEW i \in 1..m + n PROVE i \in 1..m \/ (i - m \in 1..n /\ h[i] = t[i - m])
  <2>1. CASE i > m
    <3>1. i - m \in 1..n /\ m + (i - m) = i
      BY <1>1, <2>1
    <3> QED
      BY <1>1, <3>1
  <2> QED
    BY <1>1, <2>1
<1>3. ASSUME NEW i \in 1..m + n, IsCalls(h, i), NEW j \in 1..h[i].k
      PROVE  IsResult(h, i + j) /\ h[i + j].k = j
  <2>1. CASE i \in 1..m
    <3>1. IsCalls(s, i) /\ j \in 1..s[i].k
      BY <1>1, <1>3, <2>1 DEF IsCalls
    <3>2. IsResult(s, i + j) /\ s[i + j].k = j
      BY <1>1, <2>1, <3>1 DEF Paired
    <3> QED
      BY <1>1, <3>2 DEF IsResult
  <2>2. CASE i - m \in 1..n /\ h[i] = t[i - m]
    <3>1. IsCalls(t, i - m) /\ j \in 1..t[i - m].k
      BY <1>1, <1>3, <2>2 DEF IsCalls
    <3>2. IsResult(t, (i - m) + j) /\ t[(i - m) + j].k = j
      BY <1>1, <2>2, <3>1 DEF Paired
    <3>3. (i - m) + j \in 1..n /\ m + ((i - m) + j) = i + j
      BY <1>0, <1>1, <2>2, <3>1, <3>2 DEF IsResult
    <3> QED
      BY <1>1, <3>2, <3>3 DEF IsResult
  <2> QED
    BY <1>2, <2>1, <2>2
<1>4. ASSUME NEW i \in 1..m + n, IsResult(h, i)
      PROVE  IsCalls(h, i - h[i].k) /\ h[i].k <= h[i - h[i].k].k
  <2>1. CASE i \in 1..m
    <3>1. IsResult(s, i) /\ h[i].k = s[i].k
      BY <1>1, <1>4, <2>1 DEF IsResult
    <3>2. IsCalls(s, i - s[i].k) /\ s[i].k <= s[i - s[i].k].k
      BY <1>1, <2>1, <3>1 DEF Paired
    <3> QED
      BY <1>1, <3>1, <3>2 DEF IsCalls
  <2>2. CASE i - m \in 1..n /\ h[i] = t[i - m]
    <3>1. IsResult(t, i - m) /\ h[i].k = t[i - m].k /\ t[i - m].k \in Nat
      BY <1>0, <1>1, <1>4, <2>2 DEF IsResult
    <3>2. IsCalls(t, (i - m) - t[i - m].k) /\ t[i - m].k <= t[(i - m) - t[i - m].k].k
      BY <1>1, <2>2, <3>1 DEF Paired
    <3>3. (i - m) - t[i - m].k \in 1..n /\ m + ((i - m) - t[i - m].k) = i - h[i].k
      BY <1>1, <2>2, <3>1, <3>2 DEF IsCalls
    <3> QED
      BY <1>1, <3>1, <3>2, <3>3 DEF IsCalls
  <2> QED
    BY <1>2, <2>1, <2>2
<1> QED
  BY <1>1, <1>3, <1>4 DEF Paired, h

\* What holds no calls and no results is accepted.
LEMMA PlainPaired ==
  ASSUME NEW s \in Seq(Entries),
         \A i \in DOMAIN s : s[i].role \notin {"tool_result", "model_tool_calls"}
  PROVE  Paired(s)
BY DEF Paired, IsResult, IsCalls

LEMMA TextsPaired ==
  /\ <<>> \in Seq(Entries) /\ Paired(<<>>)
  /\ <<Text>> \in Seq(Entries) /\ Paired(<<Text>>)
  /\ <<Text, Text>> \in Seq(Entries) /\ Paired(<<Text, Text>>)
<1>1. Text \in Entries /\ Text.role \notin {"tool_result", "model_tool_calls"}
  BY DEF Text, Entries, Roles
<1>2. <<>> \in Seq(Entries) /\ <<Text>> \in Seq(Entries) /\ <<Text, Text>> \in Seq(Entries)
  BY <1>1
<1>3. \A i \in DOMAIN <<>> : <<>>[i].role \notin {"tool_result", "model_tool_calls"}
  OBVIOUS
<1>4. \A i \in DOMAIN <<Text>> : <<Text>>[i].role \notin {"tool_result", "model_tool_calls"}
  BY <1>1
<1>5. \A i \in DOMAIN <<Text, Text>> : <<Text, Text>>[i].role \notin {"tool_result", "model_tool_calls"}
  BY <1>1
<1> QED
  BY <1>2, <1>3, <1>4, <1>5, PlainPaired

\* One more item of the model or of the loop.
LEMMA TextAppended ==
  ASSUME NEW h \in Seq(Entries), Paired(h)
  PROVE  /\ Append(h, Text) \in Seq(Entries) /\ Paired(Append(h, Text))
         /\ h \o <<Text>> \in Seq(Entries) /\ Paired(h \o <<Text>>)
         /\ h \o <<Text, Text>> \in Seq(Entries) /\ Paired(h \o <<Text, Text>>)
<1>1. Text \in Entries
  BY DEF Text, Entries, Roles
<1>2. Append(h, Text) = h \o <<Text>>
  BY <1>1, AppendIsConcat
<1> QED
  BY <1>2, TextsPaired, PairedJoined

-----------------------------------------------------------------------------
(* Groups of tool calls *)

\* The calls of a group and the results of all of them make a history that is accepted.
LEMMA GroupPaired ==
  ASSUME NEW g \in Seq(Entries), NEW n \in Nat, Len(g) = n + 1, g[1] = ToolCalls(n),
         \A j \in 1..n : g[1 + j] = ToolResult(j)
  PROVE  Paired(g)
<1>1. DOMAIN g = 1..n + 1
  BY LenProperties
<1>2. ASSUME NEW i \in 1..n + 1, i # 1
      PROVE  i - 1 \in 1..n /\ g[i].role = "tool_result" /\ g[i].k = i - 1
  <2>1. i - 1 \in 1..n /\ 1 + (i - 1) = i
    BY <1>2
  <2>2. g[i] = ToolResult(i - 1)
    BY <2>1
  <2> QED
    BY <2>1, <2>2 DEF ToolResult
<1>3. g[1].role = "model_tool_calls" /\ g[1].k = n
  BY DEF ToolCalls
<1>4. ASSUME NEW i \in 1..n + 1, IsCalls(g, i), NEW j \in 1..g[i].k
      PROVE  IsResult(g, i + j) /\ g[i + j].k = j
  <2>1. i = 1
    BY <1>2, <1>4 DEF IsCalls
  <2>2. i + j \in 1..n + 1 /\ i + j # 1 /\ (i + j) - 1 = j
    BY <1>3, <2>1
  <2> QED
    BY <1>1, <1>2, <2>2 DEF IsResult
<1>5. ASSUME NEW i \in 1..n + 1, IsResult(g, i)
      PROVE  IsCalls(g, i - g[i].k) /\ g[i].k <= g[i - g[i].k].k
  <2>1. i # 1
    BY <1>3, <1>5 DEF IsResult
  <2>2. i - g[i].k = 1 /\ g[i].k <= n
    BY <1>2, <2>1
  <2> QED
    BY <1>1, <1>3, <2>2 DEF IsCalls
<1> QED
  BY <1>1, <1>4, <1>5 DEF Paired

\* What a sequence begins with is not touched by what is put after it.
LEMMA BeginningKept ==
  ASSUME NEW T, NEW s \in Seq(T), NEW t \in Seq(T), NEW n \in 0..Len(s)
  PROVE  SubSeq(s \o t, 1, n) = SubSeq(s, 1, n)
<1>1. Len(s) \in Nat
  BY LenProperties
<1>2. CASE n = 0
  BY <1>1, <1>2, SubSeqEmpty
<1>3. CASE n # 0
  <2>1. 1 \in 1..Len(s) /\ n \in 1..Len(s)
    BY <1>1, <1>3
  <2> QED
    BY <2>1, SubSeqOfConcat1
<1> QED
  BY <1>2, <1>3

\* The loop appends the results the group still lacks, one or all of them.
LEMMA ResultsFollow ==
  ASSUME NEW h \in Seq(Entries), NEW n \in Nat, NEW done \in Nat, PairedUpTo(h, n, done),
         NEW t \in Seq(Entries), \A j \in 1..Len(t) : t[j] = ToolResult(done + j)
  PROVE  h \o t \in Seq(Entries) /\ PairedUpTo(h \o t, n, done + Len(t))
<1> DEFINE head == Len(h) - done
           more == Len(t)
<1>1. /\ head >= 1 /\ h[head] = ToolCalls(n) /\ Paired(SubSeq(h, 1, head - 1))
      /\ \A j \in 1..done : h[head + j] = ToolResult(j)
  BY DEF PairedUpTo
<1>2. /\ h \o t \in Seq(Entries) /\ Len(h) \in Nat /\ more \in Nat
      /\ Len(h \o t) = Len(h) + more
      /\ \A i \in 1..Len(h) : (h \o t)[i] = h[i]
      /\ \A i \in 1..more : (h \o t)[Len(h) + i] = t[i]
  BY PartsOf
<1>3. Len(h \o t) - (done + more) = head
  BY <1>2
<1>4. head \in 1..Len(h) /\ head - 1 \in 0..Len(h) /\ head + done = Len(h)
  BY <1>1, <1>2
<1>5. SubSeq(h \o t, 1, head - 1) = SubSeq(h, 1, head - 1)
  BY <1>4, BeginningKept
<1>6. \A j \in 1..more : t[j] = ToolResult(done + j)
  OBVIOUS
<1> HIDE DEF head, more
<1>7. ASSUME NEW j \in 1..(done + more) PROVE (h \o t)[head + j] = ToolResult(j)
  <2>1. CASE j <= done
    <3>1. head + j \in 1..Len(h) /\ j \in 1..done
      BY <1>2, <1>4, <2>1
    <3> QED
      BY <1>1, <1>2, <3>1
  <2>2. CASE ~(j <= done)
    <3>4. j \in Int /\ head \in Int /\ more \in Int /\ Len(h) \in Int
      BY <1>2, <1>4
    <3>7. done + (j - done) = j
      BY <3>4
    <3>8. (head + done) + (j - done) = head + j
      BY <3>4
    <3>5. Len(h) + (j - done) = head + j /\ done + (j - done) = j
      BY <1>4, <3>7, <3>8
    <3>6. j - done \in 1..more
      BY <2>2, <3>4
    <3>1. j - done \in 1..more /\ Len(h) + (j - done) = head + j /\ done + (j - done) = j
      BY <3>5, <3>6
    <3>2. (h \o t)[Len(h) + (j - done)] = t[j - done]
      BY <1>2, <3>1
    <3>3. t[j - done] = ToolResult(done + (j - done))
      BY <1>6, <3>1
    <3> QED
      BY <3>1, <3>2, <3>3
  <2> QED
    BY <2>1, <2>2
<1>8. (h \o t)[head] = ToolCalls(n)
  BY <1>1, <1>2, <1>4
<1>9. PairedUpTo(h \o t, n, done + more)
  BY <1>1, <1>3, <1>5, <1>7, <1>8 DEF PairedUpTo
<1> QED
  BY <1>2, <1>9 DEF more

\* A group that has all its results is complete.
LEMMA GroupComplete ==
  ASSUME NEW h \in Seq(Entries), NEW n \in Nat, PairedUpTo(h, n, n)
  PROVE  Paired(h)
<1> DEFINE head == Len(h) - n
           s == SubSeq(h, 1, head - 1)
           g == SubSeq(h, head, Len(h))
<1>1. /\ head >= 1 /\ h[head] = ToolCalls(n) /\ Paired(s)
      /\ \A j \in 1..n : h[head + j] = ToolResult(j)
  BY DEF PairedUpTo
<1>2. Len(h) \in Nat /\ head \in 1..Len(h)
  BY <1>1, LenProperties
<1>3. \A i \in 1..Len(h) : h[i] \in Entries
  BY ElementOfSeq
<1>4. s \in Seq(Entries) /\ g \in Seq(Entries) /\ Len(g) = n + 1
      /\ \A i \in 1..n + 1 : g[i] = h[head + i - 1]
  <2>1. /\ \A i \in 1..head - 1 : h[i] \in Entries
        /\ \A i \in head..Len(h) : h[i] \in Entries
    BY <1>2, <1>3
  <2>2. s \in Seq(Entries)
    BY <1>2, <2>1, SubSeqProperties
  <2>3. /\ g \in Seq(Entries) /\ Len(g) = Len(h) - head + 1
        /\ \A i \in 1..Len(h) - head + 1 : g[i] = h[head + i - 1]
    BY <1>2, <2>1, SubSeqProperties
  <2>4. Len(h) - head + 1 = n + 1
    BY <1>2
  <2> QED
    BY <2>2, <2>3, <2>4
<1>5. s \o g = h
  <2>1. 1 \in 1..Len(h) + 1 /\ head - 1 \in (1 - 1)..Len(h) /\ Len(h) \in (head - 1)..Len(h)
        /\ (head - 1) + 1 = head
    BY <1>2
  <2> HIDE DEF head
  <2>2. SubSeq(h, 1, head - 1) \o SubSeq(h, (head - 1) + 1, Len(h)) = SubSeq(h, 1, Len(h))
    BY <2>1, ConcatAdjacentSubSeq
  <2> QED
    BY <2>1, <2>2, SubSeqFull
<1>6. g[1] = ToolCalls(n) /\ \A j \in 1..n : g[1 + j] = ToolResult(j)
  <2>1. 1 \in 1..n + 1 /\ head + 1 - 1 = head
    BY <1>2
  <2>2. \A j \in 1..n : 1 + j \in 1..n + 1 /\ head + (1 + j) - 1 = head + j
    BY <1>2
  <2> HIDE DEF head, g
  <2> QED
    BY <1>1, <1>4, <2>1, <2>2
<1> HIDE DEF s, g
<1>7. Paired(g)
  BY <1>4, <1>6, GroupPaired
<1> QED
  BY <1>1, <1>4, <1>5, <1>7, PairedJoined

\* The results written for the calls that were not run.
LEMMA UnexecutedItems ==
  ASSUME NEW i \in Nat \ {0}, NEW n \in Nat, i <= n + 1
  PROVE  /\ Unexecuted(i, n) \in Seq(Entries) /\ Len(Unexecuted(i, n)) = n - (i - 1)
         /\ n - (i - 1) \in Nat
         /\ \A j \in 1..n - (i - 1) : Unexecuted(i, n)[j] = ToolResult((i - 1) + j)
<1>1. n - i + 1 \in Nat /\ n - i + 1 = n - (i - 1)
  OBVIOUS
<1>2. \A j \in 1..(n - i + 1) : ToolResult(i + j - 1) \in Entries /\ i + j - 1 = (i - 1) + j
  BY DEF ToolResult, Entries, Roles
<1> DEFINE u == [j \in 1..(n - i + 1) |-> ToolResult(i + j - 1)]
<1>3. u \in Seq(Entries) /\ Len(u) = n - i + 1
  BY <1>1, <1>2
<1>4. \A j \in 1..(n - i + 1) : u[j] = ToolResult((i - 1) + j)
  BY <1>2
<1>5. u = Unexecuted(i, n)
  BY DEF Unexecuted
<1> HIDE DEF u
<1> QED
  BY <1>1, <1>3, <1>4, <1>5

\* A group under way is completed by the results of the calls from i on.
LEMMA GroupClosed ==
  ASSUME NEW h \in Seq(Entries), NEW n \in Nat, NEW i \in Nat \ {0}, i <= n + 1,
         PairedUpTo(h, n, i - 1)
  PROVE  h \o Unexecuted(i, n) \in Seq(Entries) /\ Paired(h \o Unexecuted(i, n))
<1> DEFINE u == Unexecuted(i, n)
<1>1. /\ u \in Seq(Entries) /\ Len(u) = n - (i - 1)
      /\ \A j \in 1..Len(u) : u[j] = ToolResult((i - 1) + j)
  BY UnexecutedItems
<1>2. i - 1 \in Nat /\ (i - 1) + (n - (i - 1)) = n
  OBVIOUS
<1> HIDE DEF u
<1>3. h \o u \in Seq(Entries) /\ PairedUpTo(h \o u, n, (i - 1) + Len(u))
  BY <1>1, <1>2, ResultsFollow
<1> QED
  BY <1>1, <1>2, <1>3, GroupComplete DEF u

\* The next result of a group.
LEMMA NextResult ==
  ASSUME NEW h \in Seq(Entries), NEW n \in Nat, NEW i \in Nat \ {0}, PairedUpTo(h, n, i - 1)
  PROVE  Append(h, ToolResult(i)) \in Seq(Entries) /\ PairedUpTo(Append(h, ToolResult(i)), n, i)
<1>1. ToolResult(i) \in Entries
  BY DEF ToolResult, Entries, Roles
<1> DEFINE t == <<ToolResult(i)>>
<1>2. t \in Seq(Entries) /\ Len(t) = 1 /\ t[1] = ToolResult(i)
  BY <1>1
<1>3. \A j \in 1..Len(t) : t[j] = ToolResult((i - 1) + j)
  <2>1. \A j \in 1..1 : j = 1 /\ (i - 1) + j = i
    OBVIOUS
  <2> QED
    BY <1>2, <2>1
<1>4. i - 1 \in Nat /\ (i - 1) + 1 = i
  OBVIOUS
<1>5. Append(h, ToolResult(i)) = h \o t
  BY <1>1, AppendIsConcat
<1> HIDE DEF t
<1>6. h \o t \in Seq(Entries) /\ PairedUpTo(h \o t, n, (i - 1) + Len(t))
  BY <1>2, <1>3, <1>4, ResultsFollow
<1> QED
  BY <1>2, <1>4, <1>5, <1>6

\* A turn with tool calls opens a group.
LEMMA GroupOpened ==
  ASSUME NEW h \in Seq(Entries), Paired(h), NEW n \in Nat
  PROVE  /\ Append(h, ToolCalls(n)) \in Seq(Entries)
         /\ PairedUpTo(Append(h, ToolCalls(n)), n, 0)
<1>1. ToolCalls(n) \in Entries
  BY DEF ToolCalls, Entries, Roles
<1> DEFINE g == Append(h, ToolCalls(n))
<1>2. g \in Seq(Entries) /\ Len(g) = Len(h) + 1 /\ g[Len(h) + 1] = ToolCalls(n)
  BY <1>1, AppendProperties
<1>3. SubSeq(g, 1, Len(h)) = h
  <2>1. g = h \o <<ToolCalls(n)>> /\ <<ToolCalls(n)>> \in Seq(Entries) /\ Len(h) \in 0..Len(h)
    BY <1>1, AppendIsConcat, LenProperties
  <2>2. SubSeq(g, 1, Len(h)) = SubSeq(h, 1, Len(h))
    BY <2>1, BeginningKept
  <2> QED
    BY <2>2, SubSeqFull
<1>4. Len(h) \in Nat
  BY LenProperties
<1> HIDE DEF g
<1>5. Len(g) - 0 = Len(h) + 1 /\ Len(h) + 1 >= 1 /\ (Len(h) + 1) - 1 = Len(h) /\ \A j \in 1..0 : FALSE
  BY <1>2, <1>4
<1> QED
  BY <1>2, <1>3, <1>5 DEF PairedUpTo, g

-----------------------------------------------------------------------------
(* Compaction *)

\* The cut is somewhere in the history, and what is kept does not begin with a result.
LEMMA SplitFound ==
  ASSUME NEW h \in Seq(Entries), NEW keep \in Nat
  PROVE  /\ SplitAt(h, keep) \in 0..Len(h)
         /\ SplitAt(h, keep) = 0 \/ ~IsResult(h, SplitAt(h, keep) + 1)
<1> DEFINE Cut(s) == (s <= Len(h) - keep \/ s = 0) /\ (s = 0 \/ ~IsResult(h, s + 1))
           S == {s \in 0..Len(h) : Cut(s)}
           Furthest(s) == \A t \in (s + 1)..Len(h) : t > Len(h) - keep \/ IsResult(h, t + 1)
<1>1. Len(h) \in Nat
  BY LenProperties
<1>2. 0 \in S /\ S \subseteq Nat /\ IsFiniteSet(S)
  <2>1. IsFiniteSet(0..Len(h))
    BY <1>1, FS_Interval
  <2>2. S \subseteq 0..Len(h) /\ 0 \in S
    BY <1>1
  <2> QED
    BY <1>1, <2>1, <2>2, FS_Subset
<1>3. PICK m \in S : \A x \in S : x <= m
  <2> HIDE DEF S
  <2> QED
    BY <1>2, Extremes
<1>4. Furthest(m)
  <2> SUFFICES ASSUME NEW t \in (m + 1)..Len(h), ~(t > Len(h) - keep), ~IsResult(h, t + 1)
               PROVE  FALSE
    OBVIOUS
  <2>1. m \in Nat /\ t \in 0..Len(h) /\ t <= Len(h) - keep /\ ~(t <= m)
    BY <1>1, <1>2
  <2>2. t \in S
    BY <2>1
  <2> QED
    BY <1>3, <2>1, <2>2
<1>5. m \in 0..Len(h) /\ Cut(m)
  OBVIOUS
<1>6. SplitAt(h, keep) = CHOOSE s \in 0..Len(h) : Cut(s) /\ Furthest(s)
  BY DEF SplitAt
<1> HIDE DEF Cut, S, Furthest
<1>7. SplitAt(h, keep) \in 0..Len(h) /\ Cut(SplitAt(h, keep))
  BY <1>4, <1>5, <1>6
<1> QED
  BY <1>7 DEF Cut

\* Compaction never separates a result from its calls.
LEMMA CompactedPaired ==
  ASSUME NEW h \in Seq(Entries), NEW keep \in Nat, Paired(h)
  PROVE  Compacted(h, keep) \in Seq(Entries) /\ Paired(Compacted(h, keep))
<1> DEFINE s == SplitAt(h, keep)
           b == SubSeq(h, s + 1, Len(h))
           n == Len(h) - s
<1>1. s \in 0..Len(h) /\ (s = 0 \/ ~IsResult(h, s + 1))
  BY SplitFound
<1>2. Len(h) \in Nat /\ DOMAIN h = 1..Len(h) /\ \A i \in 1..Len(h) : h[i] \in Entries
  BY LenProperties, ElementOfSeq
<1>3. \A i \in 1..Len(h) : h[i].k \in Nat
  BY <1>2 DEF Entries
<1> HIDE DEF s
<1>4. s \in Nat /\ n \in Nat /\ s + n = Len(h)
  BY <1>1, <1>2
<1>5. b \in Seq(Entries) /\ Len(b) = n /\ DOMAIN b = 1..n /\ \A i \in 1..n : b[i] = h[s + i]
  <2>0. \A i \in (s + 1)..Len(h) : i \in 1..Len(h)
    BY <1>2, <1>4
  <2>1. \A i \in (s + 1)..Len(h) : h[i] \in Entries
    BY <1>2, <2>0
  <2>2. s + 1 \in Int /\ Len(h) \in Int
    <3>1. s \in Int
      BY <1>4
    <3> QED
      BY <1>2, <3>1
  <2>3. /\ b \in Seq(Entries) /\ Len(b) = IF s + 1 <= Len(h) THEN Len(h) - (s + 1) + 1 ELSE 0
        /\ \A i \in 1..Len(h) - (s + 1) + 1 : b[i] = h[(s + 1) + i - 1]
    BY <2>1, <2>2, SubSeqProperties
  <2>4. Len(h) - (s + 1) + 1 = n /\ (~(s + 1 <= Len(h)) => n = 0)
    <3>1. Len(h) \in Nat /\ s \in Nat /\ s <= Len(h)
      BY <1>2, <1>4
    <3> QED
      BY <3>1
  <2>5. \A i \in 1..n : (s + 1) + i - 1 = s + i
    BY <1>4
  <2>6. Len(b) = n
    BY <2>3, <2>4
  <2> HIDE DEF b, n
  <2>7. \A i \in 1..n : b[i] = h[s + i]
    BY <2>3, <2>4, <2>5
  <2> QED
    BY <2>3, <2>6, <2>7, LenProperties
<1> HIDE DEF b, n
<1>6. \A i \in 1..n : s + i \in 1..Len(h)
  BY <1>4
<1>7. ASSUME NEW i \in 1..n, IsCalls(b, i), NEW j \in 1..b[i].k
      PROVE  IsResult(b, i + j) /\ b[i + j].k = j
  <2>1. IsCalls(h, s + i) /\ j \in 1..h[s + i].k /\ h[s + i].k \in Nat
    BY <1>2, <1>3, <1>5, <1>6, <1>7 DEF IsCalls
  <2>2. IsResult(h, (s + i) + j) /\ h[(s + i) + j].k = j
    BY <1>2, <1>6, <2>1 DEF Paired
  <2>3. i + j \in 1..n /\ s + (i + j) = (s + i) + j
    BY <1>2, <1>4, <2>1, <2>2 DEF IsResult
  <2> QED
    BY <1>5, <2>2, <2>3 DEF IsResult
<1>8. ASSUME NEW i \in 1..n, IsResult(b, i)
      PROVE  IsCalls(b, i - b[i].k) /\ b[i].k <= b[i - b[i].k].k
  <2> DEFINE k == h[s + i].k
             c == (s + i) - k
  <2>1. IsResult(h, s + i) /\ b[i].k = k /\ k \in Nat
    BY <1>2, <1>3, <1>5, <1>6, <1>8 DEF IsResult
  <2>2. IsCalls(h, c) /\ k <= h[c].k /\ c \in 1..Len(h)
    BY <1>2, <1>6, <2>1 DEF Paired, IsCalls
  <2>3. h[c].k \in Nat
    BY <1>3, <2>2
  <2> HIDE DEF k
  <2>4. ~(c <= s)
    <3> SUFFICES ASSUME c <= s PROVE FALSE
      OBVIOUS
    <3>1. (s + 1) - c \in 1..h[c].k /\ c + ((s + 1) - c) = s + 1 /\ s # 0
      BY <1>4, <2>1, <2>2, <2>3
    <3> HIDE DEF c
    <3>2. IsResult(h, c + ((s + 1) - c))
      BY <1>2, <2>2, <3>1 DEF Paired
    <3> QED
      BY <1>1, <3>1, <3>2
  <2>5. i - k \in 1..n /\ s + (i - k) = c
    BY <1>4, <2>1, <2>2, <2>4
  <2> HIDE DEF c
  <2>6. b[i - k] = h[c]
    BY <1>5, <2>5
  <2> QED
    BY <1>5, <2>1, <2>2, <2>5, <2>6 DEF IsCalls
<1>9. Paired(b)
  BY <1>5, <1>7, <1>8 DEF Paired
<1>10. Compacted(h, keep) = <<Text>> \o b
  BY DEF Compacted, b, s
<1> QED
  BY <1>5, <1>9, <1>10, TextsPaired, PairedJoined

-----------------------------------------------------------------------------
(* The history of an interrupted turn *)

\* g[i] is what the first i of some sequences are together.
Gathers(g, seqs) ==
  \A i \in 1..Len(seqs) : g[i] = IF i = 1 THEN seqs[i] ELSE g[i - 1] \o seqs[i]

\* Whatever satisfies the recursion of FlattenSeq is what it computes.
LEMMA FlattenedBy ==
  ASSUME NEW seqs, Len(seqs) \in Nat \ {0}, NEW g, Gathers(g, seqs)
  PROVE  FlattenSeq(seqs) = g[Len(seqs)]
<1> DEFINE n == Len(seqs)
<1>0. n \in Nat \ {0} /\ \A i \in 1..n : g[i] = IF i = 1 THEN seqs[i] ELSE g[i - 1] \o seqs[i]
  BY DEF Gathers
<1> DEFINE Solves(f) == f = [i \in 1..n |-> IF i = 1 THEN seqs[i] ELSE f[i - 1] \o seqs[i]]
           flatten == CHOOSE f : Solves(f)
<1>1. Solves(flatten)
  <2> DEFINE f == [i \in 1..n |-> g[i]]
  <2>1. \A i \in 1..n : f[i] = IF i = 1 THEN seqs[i] ELSE f[i - 1] \o seqs[i]
    <3>1. \A i \in 1..n : i # 1 => i - 1 \in 1..n
      BY <1>0
    <3> QED
      BY <1>0, <3>1
  <2>2. f = [i \in 1..n |-> f[i]]
    OBVIOUS
  <2> HIDE DEF f
  <2>3. Solves(f)
    BY <2>1, <2>2
  <2> HIDE DEF Solves
  <2> QED
    BY <2>3
<1>2. FlattenSeq(seqs) = flatten[n]
  BY DEF FlattenSeq
<1> HIDE DEF flatten, n
<1>3. \A i \in 1..n : flatten[i] = IF i = 1 THEN seqs[i] ELSE flatten[i - 1] \o seqs[i]
  BY <1>1
<1> DEFINE D == {i \in 1..n : flatten[i] # g[i]}
<1>5. D = {}
  <2> SUFFICES ASSUME D # {} PROVE FALSE
    OBVIOUS
  <2>1. D \subseteq 1..n /\ D \subseteq Nat /\ IsFiniteSet(D)
    <3>1. IsFiniteSet(1..n)
      BY <1>0, FS_Interval
    <3>2. D \subseteq 1..n
      OBVIOUS
    <3> HIDE DEF D
    <3>3. IsFiniteSet(D)
      BY <3>1, <3>2, FS_Subset
    <3> QED
      BY <3>2, <3>3
  <2>2. PICK m \in D : \A x \in D : m <= x
    <3> HIDE DEF D
    <3> QED
      BY <2>1, Extremes
  <2>3. m # 1
    BY <1>0, <1>3
  <2>4. m - 1 \in 1..n /\ ~(m <= m - 1)
    BY <1>0, <2>1, <2>3
  <2>5. m - 1 \notin D
    BY <2>2, <2>4
  <2>6. flatten[m - 1] = g[m - 1]
    BY <2>4, <2>5
  <2> QED
    BY <1>0, <1>3, <2>1, <2>3, <2>6
<1>4. n \in 1..n
  BY <1>0
<1> QED
  BY <1>2, <1>4, <1>5 DEF n

\* Where all the results of the calls so far are there, nothing is missing.
LEMMA NothingMissing ==
  ASSUME NEW h \in Seq(Entries), NEW i \in 1..Len(h),
         \A j \in 1..i : IsCalls(h, j) =>
           \A c \in 1..h[j].k : IsResult(h, j + c) /\ h[j + c].k = c
  PROVE  MissingAfter(h, i) = <<>>
<1>1. CASE GroupOf(h, i) = {} \/ IsResult(h, i + 1)
  BY <1>1 DEF MissingAfter
<1>2. CASE GroupOf(h, i) # {} /\ ~IsResult(h, i + 1)
  <2> DEFINE j == CHOOSE j \in GroupOf(h, i) : TRUE
             k == h[j].k
             answered == {h[x].k : x \in (j + 1)..i}
             open == {ToolResult(c) : c \in (1..k) \ answered}
  <2>1. j \in GroupOf(h, i)
    BY <1>2
  <2>2. MissingAfter(h, i) = Filtered(Unexecuted(1, k), open)
    BY <1>2 DEF MissingAfter
  <2> HIDE DEF j
  <2>3. j \in 1..i /\ IsCalls(h, j)
    BY <2>1 DEF GroupOf
  <2>4. k \in Nat /\ i \in Nat /\ j \in Nat /\ j <= i
    <3>1. \A x \in 1..Len(h) : h[x].k \in Nat
      <4>1. \A x \in 1..Len(h) : h[x] \in Entries
        BY ElementOfSeq
      <4> QED
        BY <4>1 DEF Entries
    <3>2. Len(h) \in Nat
      BY LenProperties
    <3>3. j \in 1..Len(h) /\ i \in Nat /\ j \in Nat /\ j <= i
      BY <2>3, <3>2
    <3> QED
      BY <3>1, <3>3
  <2>5. \A c \in 1..k : IsResult(h, j + c) /\ h[j + c].k = c
    BY <2>3
  <2> HIDE DEF k
  <2>6. ASSUME NEW c \in 1..k PROVE j + c \in (j + 1)..i
    <3>1. CASE j + c <= i
      BY <2>4, <3>1
    <3>2. CASE ~(j + c <= i)
      <4>1. (i + 1) - j \in 1..k /\ j + ((i + 1) - j) = i + 1
        BY <2>4, <3>2
      <4>2. IsResult(h, j + ((i + 1) - j))
        BY <2>5, <4>1
      <4> QED
        BY <1>2, <4>1, <4>2
    <3> QED
      BY <3>1, <3>2
  <2>7. ASSUME NEW c \in 1..k PROVE c \in answered
    <3>1. j + c \in (j + 1)..i /\ h[j + c].k = c
      BY <2>5, <2>6
    <3> QED
      BY <3>1
  <2>8. open = {}
    BY <2>7
  <2> HIDE DEF open
  <2>9. Places(Unexecuted(1, k), open) = {}
    BY <2>8 DEF Places
  <2>10. Filtered(Unexecuted(1, k), open)
           = [m \in 1..0 |-> Unexecuted(1, k)[Nth(Places(Unexecuted(1, k), open), m)]]
    BY <2>9, FS_EmptySet DEF Filtered
  <2>11. Filtered(Unexecuted(1, k), open) = <<>>
    <3>1. 1..0 = {}
      OBVIOUS
    <3> QED
      BY <2>10, <3>1
  <2> QED
    BY <2>2, <2>11
<1> QED
  BY <1>1, <1>2

\* The numbers of an interval, in order.
LEMMA NthOfInterval ==
  ASSUME NEW d \in Nat, NEW n \in Nat, d <= n, NEW m \in 1..(n - d)
  PROVE  Nth((d + 1)..n, m) = d + m
<1> DEFINE S == (d + 1)..n
<1>1. S \subseteq Nat /\ IsFiniteSet(S) /\ Cardinality(S) = n - d
  <2>1. IsFiniteSet(S) /\ Cardinality(S) = IF d + 1 > n THEN 0 ELSE n - (d + 1) + 1
    BY FS_Interval
  <2>2. (IF d + 1 > n THEN 0 ELSE n - (d + 1) + 1) = n - d
    OBVIOUS
  <2> QED
    BY <2>1, <2>2
<1> HIDE DEF S
<1> DEFINE i == Nth(S, m)
<1>2. i \in S /\ Cardinality({j \in S : j <= i}) = m
  BY <1>1, NthCovers
<1> HIDE DEF i
<1>3. i \in Nat /\ i >= d + 1 /\ {j \in S : j <= i} = (d + 1)..i
  BY <1>2 DEF S
<1>4. Cardinality((d + 1)..i) = i - d
  <2>1. Cardinality((d + 1)..i) = IF d + 1 > i THEN 0 ELSE i - (d + 1) + 1
    BY <1>3, FS_Interval
  <2>2. ~(d + 1 > i) /\ i - (d + 1) + 1 = i - d
    BY <1>3
  <2> QED
    BY <2>1, <2>2
<1>5. i = d + m
  <2>1. i - d = m
    BY <1>2, <1>3, <1>4
  <2> QED
    BY <1>3, <2>1
<1> QED
  BY <1>5 DEF i, S

\* After the last result of a group under way, those of its other calls are missing.
LEMMA LastMissing ==
  ASSUME NEW h \in Seq(Entries), NEW n \in Nat, NEW d \in Nat, d <= n, PairedUpTo(h, n, d)
  PROVE  MissingAfter(h, Len(h)) = Unexecuted(d + 1, n)
<1> DEFINE head == Len(h) - d
           i == Len(h)
<1>1. i \in Nat /\ DOMAIN h = 1..i
  BY LenProperties
<1>2. /\ head >= 1 /\ h[head] = ToolCalls(n)
      /\ \A j \in 1..d : h[head + j] = ToolResult(j)
  BY DEF PairedUpTo
<1>3. head \in 1..i /\ head + d = i
  BY <1>1, <1>2
<1> HIDE DEF head, i
<1>4. /\ IsCalls(h, head) /\ h[head].k = n /\ ~IsResult(h, head)
  BY <1>1, <1>2, <1>3 DEF IsCalls, IsResult, ToolCalls
<1>5. ASSUME NEW x \in (head + 1)..i
      PROVE  x - head \in 1..d /\ IsResult(h, x) /\ ~IsCalls(h, x) /\ h[x].k = x - head
  <2>1. head \in Nat
    BY <1>1, <1>3
  <2>2. x - head \in 1..d /\ head + (x - head) = x /\ x \in 1..i
    BY <1>1, <1>3, <2>1
  <2>3. h[x] = ToolResult(x - head)
    BY <1>2, <2>2
  <2> QED
    BY <1>1, <2>2, <2>3 DEF IsCalls, IsResult, ToolResult
<1>6. GroupOf(h, i) = {head}
  <2>1. head \in GroupOf(h, i)
    BY <1>3, <1>4, <1>5 DEF GroupOf
  <2>2. ASSUME NEW j \in GroupOf(h, i), j # head PROVE FALSE
    <3>1. j \in 1..i /\ IsCalls(h, j) /\ \A x \in (j + 1)..i : IsResult(h, x)
      BY <2>2 DEF GroupOf
    <3>2. j \in (head + 1)..i \/ head \in (j + 1)..i
      BY <1>1, <1>3, <2>2, <3>1
    <3> QED
      BY <1>4, <1>5, <3>1, <3>2
  <2> QED
    BY <2>1, <2>2
<1>7. ~IsResult(h, i + 1)
  BY <1>1 DEF IsResult
<1> DEFINE answered == {h[x].k : x \in (head + 1)..i}
           open == {ToolResult(c) : c \in (1..n) \ answered}
           u == Unexecuted(1, n)
<1>8. MissingAfter(h, i) = Filtered(u, open)
  <2>1. (CHOOSE j \in GroupOf(h, i) : TRUE) = head
    BY <1>6
  <2> QED
    BY <1>4, <1>6, <1>7, <2>1 DEF MissingAfter
<1>9. answered = 1..d
  <2>1. \A c \in 1..d : head + c \in (head + 1)..i /\ (head + c) - head = c
    BY <1>1, <1>3
  <2>2. ASSUME NEW c \in 1..d PROVE c \in answered
    <3>1. head + c \in (head + 1)..i /\ h[head + c].k = c
      BY <1>5, <2>1
    <3> QED
      BY <3>1
  <2>3. ASSUME NEW x \in (head + 1)..i PROVE h[x].k \in 1..d
    BY <1>5
  <2> QED
    BY <2>2, <2>3
<1> HIDE DEF answered
<1>10. DOMAIN u = 1..n /\ \A c \in 1..n : u[c] = ToolResult(c)
  <2>1. n - 1 + 1 = n /\ \A c \in 1..n : 1 + c - 1 = c
    OBVIOUS
  <2> QED
    BY <2>1 DEF Unexecuted
<1> HIDE DEF u
<1>11. Places(u, open) = (d + 1)..n
  <2>1. \A c, e \in 1..n : ToolResult(c) = ToolResult(e) => c = e
    BY DEF ToolResult
  <2>2. \A c \in 1..n : u[c] \in open <=> c \notin 1..d
    BY <1>9, <1>10, <2>1
  <2>3. \A c \in 1..n : c \notin 1..d <=> c \in (d + 1)..n
    OBVIOUS
  <2>4. (d + 1)..n \subseteq 1..n
    OBVIOUS
  <2> HIDE DEF open
  <2> QED
    BY <1>10, <2>2, <2>3, <2>4 DEF Places
<1> HIDE DEF open
<1>12. Cardinality((d + 1)..n) = n - d /\ n - d \in Nat
  <2>1. Cardinality((d + 1)..n) = IF d + 1 > n THEN 0 ELSE n - (d + 1) + 1
    BY FS_Interval
  <2> QED
    BY <2>1
<1>13. \A m \in 1..(n - d) : u[Nth((d + 1)..n, m)] = ToolResult(d + m)
  <2> TAKE m \in 1..(n - d)
  <2>1. Nth((d + 1)..n, m) = d + m /\ d + m \in 1..n
    BY NthOfInterval
  <2> QED
    BY <1>10, <2>1
<1>14. Filtered(u, open) = [m \in 1..(n - d) |-> ToolResult(d + m)]
  BY <1>11, <1>12, <1>13 DEF Filtered
<1>15. Unexecuted(d + 1, n) = [m \in 1..(n - d) |-> ToolResult(d + m)]
  <2>1. n - (d + 1) + 1 = n - d /\ \A m \in 1..(n - d) : (d + 1) + m - 1 = d + m
    OBVIOUS
  <2> QED
    BY <2>1 DEF Unexecuted
<1> QED
  BY <1>8, <1>14, <1>15 DEF i

\* A history in which something is missing at its end at most is closed by putting that there.
LEMMA ClosedAtEnd ==
  ASSUME NEW h \in Seq(Entries), h # <<>>, NEW t \in Seq(Entries), MissingAfter(h, Len(h)) = t,
         \A i \in 1..Len(h) : i # Len(h) => MissingAfter(h, i) = <<>>
  PROVE  CloseInterruptedHistory(h) = h \o t
<1> DEFINE n == Len(h)
           seqs == [i \in DOMAIN h |-> <<h[i]>> \o MissingAfter(h, i)]
           g == [i \in 1..n |-> IF i = n THEN h \o t ELSE SubSeq(h, 1, i)]
<1> HIDE DEF n, seqs, g
<1>1. n \in Nat \ {0} /\ DOMAIN h = 1..n /\ \A i \in 1..n : h[i] \in Entries
  BY EmptySeq, LenProperties, ElementOfSeq DEF n
<1>2. MissingAfter(h, n) = t /\ \A i \in 1..n : i # n => MissingAfter(h, i) = <<>>
  BY DEF n
<1>3. SubSeq(h, 1, n) = h
  BY SubSeqFull DEF n
<1>4. \A i \in 1..n : SubSeq(h, 1, i) \in Seq(Entries)
  <2> TAKE i \in 1..n
  <2>3. \A x \in 1..i : x \in 1..n
    BY <1>1
  <2>1. \A x \in 1..i : h[x] \in Entries
    BY <1>1, <2>3
  <2>2. 1 \in Int /\ i \in Int
    BY <1>1
  <2> QED
    BY <2>1, <2>2, SubSeqProperties
<1>5. \A i \in 1..n : SubSeq(h, 1, i) = SubSeq(h, 1, i - 1) \o <<h[i]>>
  <2> TAKE i \in 1..n
  <2>1. 1 \in 1..n /\ i \in 1..n
    BY <1>1
  <2>2. 1 \in 1..Len(h) /\ i \in 1..Len(h)
    BY <2>1 DEF n
  <2> QED
    BY <2>2, SubSeqRecursiveSecond
<1>6. \A i \in 1..n : <<h[i]>> \in Seq(Entries) /\ <<h[i]>> \o <<>> = <<h[i]>>
  <2>1. \A i \in 1..n : <<h[i]>> \in Seq(Entries)
    BY <1>1
  <2> QED
    BY <2>1, ConcatEmptySeq
<1>7. Len(seqs) = n /\ \A i \in 1..n : seqs[i] = <<h[i]>> \o MissingAfter(h, i)
  BY <1>1 DEF seqs
<1>8. CloseInterruptedHistory(h) = FlattenSeq(seqs)
  BY DEF CloseInterruptedHistory, seqs
<1>9. \A i \in 1..n : g[i] = IF i = n THEN h \o t ELSE SubSeq(h, 1, i)
  BY DEF g
<1>10. SubSeq(h, 1, 0) = <<>> /\ <<>> \in Seq(Entries)
  BY SubSeqEmpty, EmptySeq
<1> HIDE DEF n, seqs
<1>11. ASSUME NEW i \in 1..n PROVE g[i] = IF i = 1 THEN seqs[i] ELSE g[i - 1] \o seqs[i]
  <2> DEFINE before == SubSeq(h, 1, i - 1)
  <2>1. before \in Seq(Entries) /\ (i = 1 => before = <<>>) /\ (i # 1 => g[i - 1] = before)
    <3>1. CASE i = 1
      <4>1. before = SubSeq(h, 1, 0)
        BY <3>1
      <4> QED
        BY <1>10, <3>1, <4>1
    <3>2. CASE i # 1
      <4>1. i - 1 \in 1..n /\ i - 1 # n
        BY <1>1, <3>2
      <4> QED
        BY <1>4, <1>9, <3>2, <4>1
    <3> QED
      BY <3>1, <3>2
  <2>2. SubSeq(h, 1, i) = before \o <<h[i]>> /\ <<h[i]>> \in Seq(Entries)
    BY <1>5, <1>6
  <2> HIDE DEF before
  <2>3. i = 1 => before \o seqs[i] = seqs[i]
    <3>1. seqs[i] = <<h[i]>> \o MissingAfter(h, i) /\ MissingAfter(h, i) \in Seq(Entries)
      BY <1>2, <1>7, <1>10
    <3>2. seqs[i] \in Seq(Entries)
      BY <2>2, <3>1, ConcatProperties
    <3> QED
      BY <2>1, <3>2, ConcatEmptySeq
  <2>4. before \o seqs[i] = g[i]
    <3>1. CASE i = n
      <4>1. seqs[i] = <<h[i]>> \o t
        BY <1>2, <1>7, <3>1
      <4>2. before \o (<<h[i]>> \o t) = (before \o <<h[i]>>) \o t
        BY <2>1, <2>2, ConcatAssociative
      <4>3. before \o <<h[i]>> = h
        BY <1>3, <2>2, <3>1
      <4>4. g[i] = h \o t
        BY <1>9, <3>1
      <4> QED
        BY <4>1, <4>2, <4>3, <4>4
    <3>2. CASE i # n
      <4>1. seqs[i] = <<h[i]>>
        BY <1>2, <1>6, <1>7, <3>2
      <4>2. g[i] = SubSeq(h, 1, i)
        BY <1>9, <3>2
      <4> QED
        BY <2>2, <4>1, <4>2
    <3> QED
      BY <3>1, <3>2
  <2> QED
    BY <2>1, <2>3, <2>4
<1>12. g[n] = h \o t
  <2>1. n \in 1..n
    BY <1>1
  <2> QED
    BY <1>9, <2>1
<1>13. FlattenSeq(seqs) = g[n]
  <2>1. Len(seqs) \in Nat \ {0} /\ Gathers(g, seqs)
    BY <1>1, <1>7, <1>11 DEF Gathers
  <2> QED
    BY <1>7, <2>1, FlattenedBy
<1> QED
  BY <1>8, <1>12, <1>13

\* A history that is accepted already stays as it is.
THEOREM ClosingKeepsPaired ==
  ASSUME NEW h \in Seq(Entries), Paired(h)
  PROVE  CloseInterruptedHistory(h) = h
<1>1. CASE h = <<>>
  <2>1. DOMAIN h = {} /\ Len(h) = 0
    BY <1>1
  <2>2. [i \in DOMAIN h |-> <<h[i]>> \o MissingAfter(h, i)] = h
    BY <1>1, <2>1
  <2> QED
    BY <2>1, <2>2 DEF CloseInterruptedHistory, FlattenSeq
<1>2. CASE h # <<>>
  <2>1. Len(h) \in Nat \ {0} /\ DOMAIN h = 1..Len(h)
    BY <1>2, EmptySeq, LenProperties
  <2>2. \A i \in 1..Len(h) : MissingAfter(h, i) = <<>>
    <3> TAKE i \in 1..Len(h)
    <3>1. 1..i \subseteq 1..Len(h)
      BY <2>1
    <3>2. \A j \in 1..i : IsCalls(h, j) =>
            \A c \in 1..h[j].k : IsResult(h, j + c) /\ h[j + c].k = c
      BY <2>1, <3>1 DEF Paired
    <3> QED
      BY <3>2, NothingMissing
  <2>3. Len(h) \in 1..Len(h) /\ <<>> \in Seq(Entries)
    BY <2>1, EmptySeq
  <2>4. CloseInterruptedHistory(h) = h \o <<>>
    BY <1>2, <2>2, <2>3, ClosedAtEnd
  <2> QED
    BY <2>4, ConcatEmptySeq
<1> QED
  BY <1>1, <1>2

\* A history cut in the middle of a batch gets one result for each call that has none.
THEOREM ClosingCompletesGroup ==
  ASSUME NEW h \in Seq(Entries), NEW n \in Nat, NEW d \in Nat, d <= n, PairedUpTo(h, n, d)
  PROVE  CloseInterruptedHistory(h) = h \o Unexecuted(d + 1, n)
<1> DEFINE head == Len(h) - d
           s == SubSeq(h, 1, head - 1)
<1>1. /\ head >= 1 /\ h[head] = ToolCalls(n) /\ Paired(s)
      /\ \A j \in 1..d : h[head + j] = ToolResult(j)
  BY DEF PairedUpTo
<1>2. Len(h) \in Nat /\ DOMAIN h = 1..Len(h) /\ \A i \in 1..Len(h) : h[i] \in Entries
  BY LenProperties, ElementOfSeq
<1>3. head \in 1..Len(h) /\ head + d = Len(h) /\ Len(h) \in Nat \ {0} /\ head \in Nat
  BY <1>1, <1>2
<1> HIDE DEF head
<1>4. s \in Seq(Entries) /\ DOMAIN s = 1..head - 1 /\ \A i \in 1..head - 1 : s[i] = h[i]
  <2>1. \A i \in 1..head - 1 : h[i] \in Entries
    BY <1>2, <1>3
  <2>2. /\ s \in Seq(Entries) /\ Len(s) = IF 1 <= head - 1 THEN (head - 1) - 1 + 1 ELSE 0
        /\ \A i \in 1..(head - 1) - 1 + 1 : s[i] = h[1 + i - 1]
    BY <1>3, <2>1, SubSeqProperties
  <2>3. (IF 1 <= head - 1 THEN (head - 1) - 1 + 1 ELSE 0) = head - 1 /\ (head - 1) - 1 + 1 = head - 1
    BY <1>3
  <2>4. \A i \in 1..head - 1 : 1 + i - 1 = i
    BY <1>3
  <2> HIDE DEF s
  <2>5. \A i \in 1..head - 1 : s[i] = h[i]
    BY <2>2, <2>3, <2>4
  <2>6. Len(s) = head - 1
    BY <2>2, <2>3
  <2> QED
    BY <2>2, <2>5, <2>6, LenProperties
<1> HIDE DEF s
<1>5. ASSUME NEW i \in 1..Len(h), i # Len(h) PROVE MissingAfter(h, i) = <<>>
  <2>1. CASE i < head
    <3>1. \A j \in 1..i : j \in 1..head - 1
      BY <1>3, <2>1
    <3>2. ASSUME NEW j \in 1..i, IsCalls(h, j), NEW c \in 1..h[j].k
          PROVE  IsResult(h, j + c) /\ h[j + c].k = c
      <4>1. IsCalls(s, j) /\ c \in 1..s[j].k /\ j \in 1..head - 1
        BY <1>4, <3>1, <3>2 DEF IsCalls
      <4>2. IsResult(s, j + c) /\ s[j + c].k = c
        BY <1>1, <1>4, <4>1 DEF Paired
      <4>3. j + c \in 1..head - 1 /\ h[j + c] = s[j + c]
        BY <1>4, <4>2 DEF IsResult
      <4>4. j + c \in 1..Len(h)
        BY <1>3, <4>3
      <4> QED
        BY <1>2, <4>2, <4>3, <4>4 DEF IsResult
    <3> QED
      BY <3>2, NothingMissing
  <2>2. CASE ~(i < head)
    <3>1. (i + 1) - head \in 1..d /\ head + ((i + 1) - head) = i + 1 /\ i + 1 \in 1..Len(h)
      BY <1>3, <1>5, <2>2
    <3>2. h[i + 1] = ToolResult((i + 1) - head)
      BY <1>1, <3>1
    <3>3. IsResult(h, i + 1)
      BY <1>2, <3>1, <3>2 DEF IsResult, ToolResult
    <3> QED
      BY <3>3 DEF MissingAfter
  <2> QED
    BY <2>1, <2>2
<1>6. Unexecuted(d + 1, n) \in Seq(Entries)
  <2>1. d + 1 \in Nat \ {0} /\ d + 1 <= n + 1
    OBVIOUS
  <2> QED
    BY <2>1, UnexecutedItems
<1>7. MissingAfter(h, Len(h)) = Unexecuted(d + 1, n)
  BY LastMissing
<1>8. h # <<>>
  BY <1>3
<1> QED
  BY <1>5, <1>6, <1>7, <1>8, ClosedAtEnd

-----------------------------------------------------------------------------
(* The histories of the runs *)

Accepted(h) == h \in Seq(Entries) /\ Paired(h)

\* A history in the middle of a turn t: its calls before the current one are answered.
MidTurn(t, h) ==
  \/ t.kind = "native" /\ t.ci \in 1..t.n /\ PairedUpTo(h, t.n, t.ci - 1)
  \/ t.kind = "text" /\ t.n = 1 /\ t.ci = 1 /\ Paired(h)

\* The history of a run at p with turn t.
Sound(p, t, h) == h \in Seq(Entries) /\ IF p \in Handling THEN MidTurn(t, h) ELSE Paired(h)

HistoryInv ==
  /\ history \in [Agents -> Seq(Entries)]
  /\ \A a \in Agents : Sound(pc[a], turn[a], history[a])
  /\ Accepted(lastHistory)

LEMMA InitHistories == Init => HistoryInv
BY TextsPaired DEF Init, HistoryInv, Sound, Accepted, Handling

\* The messages drained from an inbox.
LEMMA DrainedAccepted ==
  ASSUME InputTyped, NEW a \in Agents
  PROVE  Accepted(Drained(a))
<1>1. inbox[a] \in Seq(Nat)
  BY DEF InputTyped
<1>2. Len(inbox[a]) \in Nat /\ DOMAIN inbox[a] = 1..Len(inbox[a])
      /\ \A i \in 1..Len(inbox[a]) : inbox[a][i] \in Nat
  BY <1>1, LenProperties, ElementOfSeq
<1>3. \A m \in Nat : Inject(m) \in Entries /\ Inject(m).role \notin {"tool_result", "model_tool_calls"}
  BY DEF Inject, Entries, Roles
<1>4. Drained(a) = [i \in 1..Len(inbox[a]) |-> Inject(inbox[a][i])]
  BY <1>2 DEF Drained
<1>5. \A i \in 1..Len(inbox[a]) : /\ Inject(inbox[a][i]) \in Entries
                                  /\ Inject(inbox[a][i]).role \notin {"tool_result", "model_tool_calls"}
  BY <1>2, <1>3
<1>6. Drained(a) \in Seq(Entries)
  BY <1>2, <1>4, <1>5
<1>7. \A i \in DOMAIN Drained(a) : Drained(a)[i].role \notin {"tool_result", "model_tool_calls"}
  BY <1>4, <1>5
<1> QED
  BY <1>6, <1>7, PlainPaired DEF Accepted

LEMMA Joins ==
  ASSUME NEW s, NEW t, Accepted(s), Accepted(t)
  PROVE  Accepted(s \o t)
BY PairedJoined DEF Accepted

LEMMA Grows ==
  ASSUME NEW h, Accepted(h)
  PROVE  Accepted(Append(h, Text)) /\ Accepted(h \o <<Text>>) /\ Accepted(h \o <<Text, Text>>)
BY TextAppended DEF Accepted

\* A run in the middle of a turn, and what its history is once the turn is given up.
LEMMA TurnGivenUp ==
  ASSUME RunsTyped, NEW a \in Agents, NEW h \in Seq(Entries), MidTurn(turn[a], h)
  PROVE  /\ Accepted(CloseInterruptedHistory(h))
         /\ Accepted(IF Native(a) THEN h \o Unexecuted(turn[a].ci, turn[a].n) ELSE h)
<1> DEFINE n == turn[a].n
           i == turn[a].ci
<1>1. n \in Nat /\ i \in Nat
  <2>1. turn[a] \in Turns
    BY DEF RunsTyped
  <2> QED
    BY <2>1, TurnAssumption DEF Turns
<1>2. CASE turn[a].kind = "native" /\ i \in 1..n /\ PairedUpTo(h, n, i - 1)
  <2>1. i \in Nat \ {0} /\ i <= n + 1 /\ i - 1 \in Nat /\ i - 1 <= n /\ (i - 1) + 1 = i
    BY <1>1, <1>2
  <2> HIDE DEF n, i
  <2>2. Accepted(h \o Unexecuted(i, n))
    BY <1>1, <1>2, <2>1, GroupClosed DEF Accepted
  <2>3. CloseInterruptedHistory(h) = h \o Unexecuted((i - 1) + 1, n)
    BY <1>1, <1>2, <2>1, ClosingCompletesGroup
  <2> QED
    BY <1>2, <2>1, <2>2, <2>3 DEF Native, n, i
<1>3. CASE turn[a].kind = "text" /\ Paired(h)
  BY <1>3, ClosingKeepsPaired DEF Accepted, Native
<1> QED
  BY <1>2, <1>3 DEF MidTurn

-----------------------------------------------------------------------------
(* The building blocks of the actions: what each does to the histories *)

LEMMA HistoryMoves ==
  ASSUME RunsTyped, HistoryInv, NEW a \in Agents, NEW p, NEW t, NEW h, Goto(a, p), SetHistory(a, h),
         turn' = [turn EXCEPT ![a] = t], Sound(p, t, h), Accepted(lastHistory')
  PROVE  HistoryInv'
<1>1. history' \in [Agents -> Seq(Entries)]
  BY DEF HistoryInv, SetHistory, Sound
<1>2. ASSUME NEW b \in Agents PROVE Sound(pc'[b], turn'[b], history'[b])
  <2>1. CASE b = a
    <3>1. pc'[b] = p /\ turn'[b] = t /\ history'[b] = h
      BY <2>1 DEF Goto, SetHistory, RunsTyped, HistoryInv
    <3> QED
      BY <3>1
  <2>2. CASE b # a
    <3>1. pc'[b] = pc[b] /\ turn'[b] = turn[b] /\ history'[b] = history[b]
      BY <2>2 DEF Goto, SetHistory, RunsTyped, HistoryInv
    <3> QED
      BY <3>1 DEF HistoryInv
  <2> QED
    BY <2>1, <2>2
<1> QED
  BY <1>1, <1>2 DEF HistoryInv

LEMMA HistoryKept ==
  ASSUME HistoryInv, UNCHANGED <<pc, turn, history, lastHistory>>
  PROVE  HistoryInv'
BY DEF HistoryInv

LEMMA HistoryGoto ==
  ASSUME RunsTyped, HistoryInv, NEW a \in Agents, NEW p, Goto(a, p),
         UNCHANGED <<turn, history, lastHistory>>, Sound(p, turn[a], history[a])
  PROVE  HistoryInv'
<1>1. turn' = [turn EXCEPT ![a] = turn[a]] /\ SetHistory(a, history[a])
  BY DEF RunsTyped, HistoryInv, SetHistory
<1>2. Accepted(lastHistory')
  BY DEF HistoryInv
<1> QED
  BY <1>1, <1>2, HistoryMoves

LEMMA HistoryProceeds ==
  ASSUME RunsTyped, HistoryInv, NEW a \in Agents, NEW p, NEW h, NEW t, NEW c,
         Proceed(a, p, h, t, c), Sound(p, t, h)
  PROVE  HistoryInv'
<1>1. Accepted(lastHistory')
  BY DEF Proceed, treeVars, HistoryInv
<1> QED
  BY <1>1, HistoryMoves DEF Proceed

\* What the session keeps of a run that ends.
LEMMA HistoryEnds ==
  ASSUME RunsTyped, HistoryInv, NEW a \in Agents, NEW kind, NEW h, End(a, kind, h),
         kind = "aborted" => Accepted(CloseInterruptedHistory(h)),
         kind \notin {"aborted", "error"} => Accepted(h)
  PROVE  HistoryInv'
<1>1. Accepted(Kept(kind, h))
  <2>1. CASE kind = "aborted"
    BY <2>1, Grows DEF Kept
  <2>2. CASE kind = "error"
    BY <2>2 DEF Kept, HistoryInv
  <2>3. CASE kind \notin {"aborted", "error"}
    BY <2>3 DEF Kept
  <2> QED
    BY <2>1, <2>2, <2>3
<1>2. Accepted(lastHistory')
  BY <1>1 DEF End, HistoryInv
<1>3. Sound("idle", NoTurn, <<>>)
  BY TextsPaired DEF Sound, Handling
<1> QED
  BY <1>2, <1>3, HistoryMoves DEF End

LEMMA HistoryChecked ==
  ASSUME RunsTyped, HistoryInv, NEW a \in Agents, NEW h, NEW kind, NEW c,
         CheckStuck(a, h, kind, c), Accepted(h)
  PROVE  HistoryInv'
<1>1. Accepted(Append(h, Text))
  BY Grows
<1>2. CASE \E p, t : p \in {"top", "stuck"} /\ Proceed(a, p, h, t, c)
  <2>1. PICK p, t : p \in {"top", "stuck"} /\ Proceed(a, p, h, t, c)
    BY <1>2
  <2>2. Sound(p, t, h)
    BY <2>1 DEF Sound, Accepted, Handling
  <2> QED
    BY <2>1, <2>2, HistoryProceeds
<1>3. CASE Halt(a, "ended", Append(h, Text))
  BY <1>1, <1>3, HistoryEnds DEF Halt
<1> QED
  BY <1>2, <1>3 DEF CheckStuck

\* A run outside a turn has a history that is accepted.
LEMMA OutsideTurn ==
  ASSUME HistoryInv, NEW a \in Agents, pc[a] \notin Handling
  PROVE  Accepted(history[a]) /\ Accepted(CloseInterruptedHistory(history[a]))
BY ClosingKeepsPaired DEF HistoryInv, Sound, Accepted

LEMMA InsideTurn ==
  ASSUME HistoryInv, NEW a \in Agents, pc[a] \in Handling
  PROVE  history[a] \in Seq(Entries) /\ MidTurn(turn[a], history[a])
BY DEF HistoryInv, Sound

\* The current call gets its answer.
LEMMA HistoryAnswered ==
  ASSUME RunsTyped, InputTyped, HistoryInv, NEW a \in Agents, pc[a] \in Handling, NEW ok,
         Answered(a, ok)
  PROVE  HistoryInv'
<1> DEFINE h == Append(history[a], ResultItem(a))
           n == turn[a].n
           i == turn[a].ci
           t == [turn[a] EXCEPT !.ci = @ + 1]
           c == [check[a] EXCEPT !.work = @ + ok]
<1>1. turn[a] \in Turns /\ n \in Nat /\ i \in Nat
  <2>1. turn[a] \in Turns
    BY DEF RunsTyped
  <2> QED
    BY <2>1, TurnAssumption DEF Turns
<1>2. history[a] \in Seq(Entries) /\ MidTurn(turn[a], history[a])
  BY InsideTurn
<1>3. (LastCall(a) /\ AfterCalls(a, h, c)) \/ (~LastCall(a) /\ Proceed(a, "batch", h, t, c))
  BY DEF Answered
<1>4. /\ h \in Seq(Entries)
      /\ LastCall(a) => Paired(h)
      /\ ~LastCall(a) => MidTurn(t, h)
  <2>1. CASE turn[a].kind = "native" /\ i \in 1..n /\ PairedUpTo(history[a], n, i - 1)
    <3>1. ResultItem(a) = ToolResult(i) /\ i \in Nat \ {0}
      BY <1>1, <2>1 DEF ResultItem, Native
    <3>2. h \in Seq(Entries) /\ PairedUpTo(h, n, i)
      BY <1>1, <1>2, <2>1, <3>1, NextResult
    <3>3. LastCall(a) => Paired(h)
      BY <1>1, <3>2, GroupComplete DEF LastCall
    <3>4. ~LastCall(a) => MidTurn(t, h)
      <4>1. t.kind = turn[a].kind /\ t.n = n /\ t.ci = i + 1
        BY <1>1 DEF Turns
      <4>2. ~LastCall(a) => i + 1 \in 1..n /\ (i + 1) - 1 = i
        BY <1>1, <2>1 DEF LastCall
      <4> HIDE DEF h, t, n, i
      <4> QED
        BY <2>1, <3>2, <4>1, <4>2 DEF MidTurn
    <3> QED
      BY <3>2, <3>3, <3>4
  <2>2. CASE turn[a].kind = "text" /\ n = 1 /\ i = 1 /\ Paired(history[a])
    <3>1. ResultItem(a) = Text /\ LastCall(a)
      BY <2>2 DEF ResultItem, Native, LastCall
    <3> QED
      BY <1>2, <2>2, <3>1, TextAppended
  <2> QED
    BY <1>2, <2>1, <2>2 DEF MidTurn
<1> HIDE DEF h, t, c
<1>5. CASE AfterCalls(a, h, c) /\ LastCall(a)
  <2>1. Accepted(h \o Drained(a))
    BY <1>4, <1>5, DrainedAccepted, Joins DEF Accepted
  <2> QED
    BY <1>5, <2>1, HistoryChecked DEF AfterCalls
<1>6. CASE ~LastCall(a) /\ Proceed(a, "batch", h, t, c)
  <2>1. Sound("batch", t, h)
    BY <1>4, <1>6 DEF Sound, Handling
  <2> QED
    BY <1>6, <2>1, HistoryProceeds
<1> QED
  BY <1>3, <1>5, <1>6

\* A call that nothing stands against runs, or ends the run at the limit.
LEMMA HistoryPermitted ==
  ASSUME RunsTyped, HistoryInv, NEW a \in Agents, pc[a] \in Handling,
         StartEffect(a) \/ Permitted(a)
  PROVE  HistoryInv'
<1>1. history[a] \in Seq(Entries) /\ MidTurn(turn[a], history[a])
  BY InsideTurn
<1>2. ASSUME NEW p \in {"run", "hook"}, Goto(a, p), UNCHANGED <<turn, history, lastHistory>>
      PROVE  HistoryInv'
  <2>1. Sound(p, turn[a], history[a])
    BY <1>1 DEF Sound, Handling
  <2> QED
    BY <1>2, <2>1, HistoryGoto
<1>3. CASE StartEffect(a)
  <2>1. CASE Goto(a, "run") /\ UNCHANGED <<turn, history, treeVars>>
    BY <1>2, <2>1 DEF treeVars
  <2>2. CASE Halt(a, "limit", IF Native(a) THEN history[a] \o Unexecuted(turn[a].ci, turn[a].n)
                                           ELSE history[a])
    BY <1>1, <2>2, TurnGivenUp, HistoryEnds DEF Halt
  <2> QED
    BY <1>3, <2>1, <2>2 DEF StartEffect
<1>4. CASE Goto(a, "hook") /\ UNCHANGED <<turn, history, treeVars>>
  BY <1>2, <1>4 DEF treeVars
<1> QED
  BY <1>3, <1>4 DEF Permitted

-----------------------------------------------------------------------------
(* The steps of a run and of the session *)

LEMMA TopHistories ==
  ASSUME RunsTyped, InputTyped, HistoryInv, NEW a \in Agents,
         TopAborted(a) \/ TopAtLimit(a) \/ TopReserve(a) \/ SendPrompt(a)
  PROVE  HistoryInv'
<1>1. pc[a] \in {"top", "prep"}
  BY DEF TopAborted, TopAtLimit, TopReserve, SendPrompt, At
<1>2. Accepted(history[a]) /\ Accepted(CloseInterruptedHistory(history[a]))
  BY <1>1, OutsideTurn DEF Handling
<1>3. CASE TopAborted(a) \/ TopAtLimit(a)
  BY <1>2, <1>3, HistoryEnds DEF TopAborted, TopAtLimit, Throw, Halt
<1>4. ASSUME NEW p \in {"prep", "call"}, NEW h, Accepted(h), Goto(a, p), SetHistory(a, h),
             UNCHANGED <<turn, treeVars>>
      PROVE  HistoryInv'
  <2>1. turn' = [turn EXCEPT ![a] = turn[a]] /\ Accepted(lastHistory')
    BY <1>4 DEF RunsTyped, treeVars, HistoryInv
  <2>2. Sound(p, turn[a], h)
    BY <1>4 DEF Sound, Accepted, Handling
  <2> QED
    BY <1>4, <2>1, <2>2, HistoryMoves
<1>5. CASE TopReserve(a)
  <2>1. Accepted(history[a] \o Drained(a))
    BY <1>2, DrainedAccepted, Joins
  <2> QED
    BY <1>4, <1>5, <2>1 DEF TopReserve
<1>6. CASE SendPrompt(a)
  <2>1. Goto(a, "call") /\ UNCHANGED <<turn, treeVars>>
    BY <1>6 DEF SendPrompt
  <2>2. CASE UNCHANGED history
    <3>1. SetHistory(a, history[a])
      BY <2>2 DEF SetHistory, HistoryInv
    <3> QED
      BY <1>2, <1>4, <2>1, <3>1
  <2>3. CASE SetHistory(a, Compacted(history[a], KeepRecent))
    <3>1. Accepted(Compacted(history[a], KeepRecent))
      BY <1>2, TurnAssumption, CompactedPaired DEF Accepted
    <3> QED
      BY <1>4, <2>1, <2>3, <3>1
  <2> QED
    BY <1>6, <2>2, <2>3 DEF SendPrompt
<1> QED
  BY <1>3, <1>5, <1>6

LEMMA CallHistories ==
  ASSUME RunsTyped, InputTyped, HistoryInv, NEW a \in Agents,
         \/ CallFails(a) \/ CallAborted(a) \/ Degenerates(a) \/ Expedited(a)
         \/ ReplyTruncated(a) \/ ReplyWithCalls(a) \/ ReplyMalformed(a) \/ ReplyFinal(a)
  PROVE  HistoryInv'
<1>1. pc[a] = "call"
  BY DEF CallFails, CallAborted, Degenerates, Expedited, ReplyTruncated, ReplyWithCalls,
         ReplyMalformed, ReplyFinal, At
<1>2. Accepted(history[a]) /\ Accepted(CloseInterruptedHistory(history[a]))
  BY <1>1, OutsideTurn DEF Handling
<1>3. /\ Accepted(Append(history[a], Text)) /\ Accepted(history[a] \o <<Text, Text>>)
  BY <1>2, Grows
<1>4. CASE CallFails(a) \/ CallAborted(a)
  BY <1>2, <1>4, HistoryEnds DEF CallFails, CallAborted, Throw, Halt
<1>5. CASE Degenerates(a) \/ ReplyTruncated(a)
  BY <1>3, <1>5, HistoryEnds DEF Degenerates, ReplyTruncated, Halt
<1>6. CASE Expedited(a)
  <2>1. Sound("top", turn[a], history[a])
    BY <1>2 DEF Sound, Accepted, Handling
  <2> QED
    BY <1>6, <2>1, HistoryGoto DEF Expedited, treeVars
<1>7. CASE ReplyWithCalls(a)
  <2>1. Accepted(lastHistory') /\ Goto(a, "batch")
    BY <1>7 DEF ReplyWithCalls, treeVars, HistoryInv
  <2>2. CASE \E n \in 1..MaxBatch :
               /\ turn' = [turn EXCEPT ![a] = [kind |-> "native", n |-> n, ci |-> 1]]
               /\ SetHistory(a, Append(history[a], ToolCalls(n)))
    <3>1. PICK n \in 1..MaxBatch :
            /\ turn' = [turn EXCEPT ![a] = [kind |-> "native", n |-> n, ci |-> 1]]
            /\ SetHistory(a, Append(history[a], ToolCalls(n)))
      BY <2>2
    <3> DEFINE t == [kind |-> "native", n |-> n, ci |-> 1]
    <3>2. n \in Nat /\ 1 \in 1..n
      BY TurnAssumption
    <3>3. Append(history[a], ToolCalls(n)) \in Seq(Entries)
          /\ PairedUpTo(Append(history[a], ToolCalls(n)), n, 0)
      BY <1>2, <3>2, GroupOpened DEF Accepted
    <3>4. t.kind = "native" /\ t.n = n /\ t.ci = 1 /\ t.ci - 1 = 0
      OBVIOUS
    <3> HIDE DEF t
    <3>5. Sound("batch", t, Append(history[a], ToolCalls(n)))
      BY <3>2, <3>3, <3>4 DEF Sound, MidTurn, Handling
    <3> QED
      BY <2>1, <3>1, <3>5, HistoryMoves DEF t
  <2>3. CASE /\ turn' = [turn EXCEPT ![a] = [kind |-> "text", n |-> 1, ci |-> 1]]
             /\ SetHistory(a, Append(history[a], Text))
    <3>1. Sound("batch", [kind |-> "text", n |-> 1, ci |-> 1], Append(history[a], Text))
      BY <1>3 DEF Sound, MidTurn, Handling, Accepted
    <3> QED
      BY <2>1, <2>3, <3>1, HistoryMoves
  <2> QED
    BY <1>7, <2>2, <2>3 DEF ReplyWithCalls
<1>8. CASE ReplyMalformed(a)
  BY <1>3, <1>8, HistoryChecked DEF ReplyMalformed
<1>9. CASE ReplyFinal(a)
  <2>1. PICK text, empty : ProbeFinal(a, text) \/ AcceptFinal(a, text, empty)
    BY <1>9 DEF ReplyFinal
  <2>2. CASE ProbeFinal(a, text)
    <3>1. PICK c : Proceed(a, "top", history[a] \o <<Text, Text>>, NoTurn, c)
      BY <2>2 DEF ProbeFinal
    <3>2. Sound("top", NoTurn, history[a] \o <<Text, Text>>)
      BY <1>3 DEF Sound, Accepted, Handling
    <3> QED
      BY <3>1, <3>2, HistoryProceeds
  <2>3. CASE AcceptFinal(a, text, empty)
    <3>1. \/ Deliver(a, text, Append(history[a], Text))
          \/ CheckStuck(a, Append(history[a], Text), "final", check[a])
      BY <2>3 DEF AcceptFinal
    <3> QED
      BY <1>3, <3>1, HistoryEnds, HistoryChecked DEF Deliver
  <2> QED
    BY <2>1, <2>2, <2>3
<1> QED
  BY <1>4, <1>5, <1>6, <1>7, <1>8, <1>9

LEMMA BatchHistories ==
  ASSUME RunsTyped, InputTyped, HistoryInv, NEW a \in Agents,
         BatchAborted(a) \/ SkipForMessage(a) \/ Decide(a)
  PROVE  HistoryInv'
<1>1. pc[a] = "batch" /\ pc[a] \in Handling
  BY DEF BatchAborted, SkipForMessage, Decide, At, Handling
<1>2. history[a] \in Seq(Entries) /\ MidTurn(turn[a], history[a])
  BY <1>1, InsideTurn
<1>3. CASE BatchAborted(a)
  BY <1>2, <1>3, TurnGivenUp, HistoryEnds DEF BatchAborted, Throw, Halt
<1>4. CASE SkipForMessage(a)
  <2>1. Accepted(history[a] \o Unexecuted(turn[a].ci, turn[a].n))
    BY <1>2, <1>4, TurnGivenUp DEF SkipForMessage
  <2>2. Accepted((history[a] \o Unexecuted(turn[a].ci, turn[a].n)) \o Drained(a))
    BY <2>1, DrainedAccepted, Joins
  <2> QED
    BY <1>4, <2>2, HistoryChecked DEF SkipForMessage, AfterCalls
<1>5. CASE Decide(a)
  <2>1. CASE Blocked(a)
    BY <1>1, <2>1, HistoryAnswered DEF Blocked
  <2>2. CASE Goto(a, "ask") /\ UNCHANGED <<turn, history, treeVars>>
    <3>1. Sound("ask", turn[a], history[a])
      BY <1>2 DEF Sound, Handling
    <3> QED
      BY <2>2, <3>1, HistoryGoto DEF treeVars
  <2>3. CASE Permitted(a)
    BY <1>1, <2>3, HistoryPermitted
  <2> QED
    BY <1>5, <2>1, <2>2, <2>3 DEF Decide
<1> QED
  BY <1>3, <1>4, <1>5

LEMMA ToolHistories ==
  ASSUME RunsTyped, InputTyped, HistoryInv, NEW a \in Agents,
         \/ AskApproved(a) \/ AskDenied(a) \/ AskCancelled(a) \/ HookVetoes(a) \/ HookPasses(a)
         \/ ToolEnds(a) \/ ToolThrows(a)
  PROVE  HistoryInv'
<1>1. pc[a] \in Handling
  BY DEF AskApproved, AskDenied, AskCancelled, HookVetoes, HookPasses, ToolEnds, ToolThrows, At, Handling
<1>2. CASE AskDenied(a) \/ AskCancelled(a) \/ HookVetoes(a) \/ ToolEnds(a)
  BY <1>1, <1>2, HistoryAnswered DEF AskDenied, AskCancelled, HookVetoes, ToolEnds, Blocked
<1>3. CASE AskApproved(a) \/ HookPasses(a)
  BY <1>1, <1>3, HistoryPermitted DEF AskApproved, HookPasses
<1>4. CASE ToolThrows(a)
  BY <1>4, HistoryEnds DEF ToolThrows, Throw, Halt
<1> QED
  BY <1>2, <1>3, <1>4

LEMMA StuckHistories ==
  ASSUME RunsTyped, HistoryInv, NEW a \in Agents, StuckResolved(a)
  PROVE  HistoryInv'
<1>1. Accepted(history[a])
  BY OutsideTurn DEF StuckResolved, At, Handling
<1>2. Accepted(Append(history[a], Text)) /\ Accepted(history[a] \o <<Text>>)
      /\ Accepted(history[a] \o <<>>)
  BY <1>1, Grows, Joins, TextsPaired DEF Accepted
<1>3. CASE \E direction \in {<<>>, <<Text>>} :
             Proceed(a, "top", history[a] \o direction, NoTurn, check[a])
  <2>1. PICK direction \in {<<>>, <<Text>>} :
             Proceed(a, "top", history[a] \o direction, NoTurn, check[a])
    BY <1>3
  <2>2. Sound("top", NoTurn, history[a] \o direction)
    BY <1>2 DEF Sound, Accepted, Handling
  <2> QED
    BY <2>1, <2>2, HistoryProceeds
<1>4. CASE Deliver(a, Utterance(check[a].work, FALSE), history[a])
  BY <1>1, <1>4, HistoryEnds DEF Deliver
<1>5. CASE Halt(a, "ended", Append(history[a], Text))
  BY <1>2, <1>5, HistoryEnds DEF Halt
<1> QED
  BY <1>3, <1>4, <1>5 DEF StuckResolved

LEMMA SessionHistories ==
  ASSUME RunsTyped, InputTyped, HistoryInv, Session
  PROVE  HistoryInv'
<1>0. Root \in Agents
  BY DEF Agents
<1>1. ASSUME NEW seed, Accepted(seed), StartRuns({Root}, seed), Goto(Root, "top"), UNCHANGED treeVars
      PROVE  HistoryInv'
  <2>1. SetHistory(Root, seed) /\ turn' = [turn EXCEPT ![Root] = turn[Root]]
    BY <1>1 DEF StartRuns, SetHistory, HistoryInv, RunsTyped
  <2>2. Sound("top", turn[Root], seed) /\ Accepted(lastHistory')
    BY <1>1 DEF Sound, Accepted, Handling, treeVars, HistoryInv
  <2> QED
    BY <1>0, <1>1, <2>1, <2>2, HistoryMoves
<1>2. CASE NewGoal
  <2>1. Accepted(lastHistory \o Drained(Root))
    BY <1>0, DrainedAccepted, Joins DEF HistoryInv
  <2>2. Accepted(lastHistory \o Drained(Root) \o <<Text>>)
    BY <2>1, Grows
  <2> QED
    BY <1>1, <1>2, <2>2 DEF NewGoal
<1>3. CASE ContinueAfterBudget
  BY <1>1, <1>3 DEF ContinueAfterBudget, HistoryInv
<1>4. CASE Esc \/ StopAll \/ \E a \in Agents : Send(a)
  BY <1>4, HistoryKept DEF Esc, StopAll, Send, AbortRuns, treeVars
<1> QED
  BY <1>2, <1>3, <1>4 DEF Session

LEMMA TreeHistories ==
  ASSUME RunsTyped, InputTyped, HistoryInv, Tree
  PROVE  HistoryInv'
<1>0. Root \in Agents /\ Root \notin Children /\ Children \subseteq Agents
  BY AgentsAssumption DEF Agents
<1>1. ASSUME NEW S \in SUBSET Children, NEW wait \in BOOLEAN, Spawn(S, wait) PROVE HistoryInv'
  <2>1. /\ turn' = turn /\ lastHistory' = lastHistory /\ pc[Root] = "run"
        /\ pc' = [a \in Agents |-> CASE a \in S -> "top" [] a = Root -> "spawn" [] OTHER -> pc[a]]
        /\ history' = [a \in Agents |-> IF a \in S THEN <<Text>> ELSE history[a]]
    BY <1>1 DEF Spawn, StartRuns, At
  <2>2. history' \in [Agents -> Seq(Entries)]
    BY <2>1, TextsPaired DEF HistoryInv
  <2>3. ASSUME NEW a \in Agents PROVE Sound(pc'[a], turn'[a], history'[a])
    <3>1. CASE a \in S
      <4>1. pc'[a] = "top"
        BY <1>0, <2>1, <3>1
      <4>2. history'[a] = <<Text>>
        BY <2>1, <3>1
      <4> QED
        BY <4>1, <4>2, TextsPaired DEF Sound, Handling
    <3>2. CASE a = Root
      <4>1. pc'[a] = "spawn" /\ history'[a] = history[a] /\ turn'[a] = turn[a]
        BY <1>0, <2>1, <3>2
      <4>2. history[a] \in Seq(Entries) /\ MidTurn(turn[a], history[a])
        BY <2>1, <3>2, InsideTurn DEF Handling
      <4> QED
        BY <4>1, <4>2 DEF Sound, Handling
    <3>3. CASE a \notin S /\ a # Root
      <4>1. pc'[a] = pc[a] /\ history'[a] = history[a] /\ turn'[a] = turn[a]
        BY <2>1, <3>3
      <4> QED
        BY <4>1 DEF HistoryInv
    <3> QED
      BY <3>1, <3>2, <3>3
  <2> QED
    BY <2>1, <2>2, <2>3 DEF HistoryInv
<1>2. CASE Detach
  BY <1>2, HistoryKept DEF Detach
<1>3. CASE SpawnReturns
  BY <1>0, <1>3, HistoryAnswered DEF SpawnReturns, At, Handling
<1>4. CASE \E c \in Children : StopChild(c) \/ IdleTimeout(c)
  BY <1>4, HistoryKept DEF StopChild, IdleTimeout, AbortRuns, treeVars
<1> QED
  BY <1>1, <1>2, <1>3, <1>4 DEF Tree

LEMMA NextHistories ==
  ASSUME IInv, HistoryInv, [Next]_vars
  PROVE  HistoryInv'
<1>0. RunsTyped /\ InputTyped
  BY DEF IInv, RunsInv
<1>1. ASSUME NEW a \in Agents, Automatic(a) \/ OwnerDecides(a) PROVE HistoryInv'
  BY <1>0, <1>1, TopHistories, CallHistories, BatchHistories, ToolHistories, StuckHistories
     DEF Automatic, OwnerDecides
<1>2. CASE UNCHANGED vars
  BY <1>2, HistoryKept DEF vars
<1> QED
  BY <1>0, <1>1, <1>2, SessionHistories, TreeHistories DEF Next

\* Every prompt that leaves is one a provider accepts, for batches of any size and histories of
\* any length: however calls are answered, refused, skipped and cut, whatever is compacted, and
\* whatever the next goal goes on from (loop.ts, interrupted-history.ts, compaction).
THEOREM PromptsAccepted == Spec => []PromptWellFormed
<1>1. HistoryInv => PromptWellFormed
  <2> SUFFICES ASSUME HistoryInv PROVE PromptWellFormed
    OBVIOUS
  <2>1. ASSUME NEW a \in Agents, pc[a] \in {"top", "prep", "call", "stuck"} PROVE Paired(history[a])
    BY <2>1 DEF HistoryInv, Sound, Handling
  <2>2. ASSUME NEW a \in Agents, pc[a] \in Handling, Native(a)
        PROVE  PairedUpTo(history[a], turn[a].n, turn[a].ci - 1)
    BY <2>2, InsideTurn DEF MidTurn, Native
  <2>3. Paired(lastHistory)
    BY DEF HistoryInv, Accepted
  <2> QED
    BY <2>1, <2>2, <2>3 DEF PromptWellFormed, Handling
<1>2. IInv /\ HistoryInv /\ [Next]_vars => HistoryInv'
  BY NextHistories
<1> QED
  BY <1>1, <1>2, InitHistories, Invariance, PTL DEF Spec

-----------------------------------------------------------------------------
(* How far a run can go *)

\* How many steps of its own an aborted run is from rest, at most.
ToRest(p) ==
  IF p = "idle" THEN 0 ELSE IF p \in {"top", "stuck", "batch"} THEN 1
  ELSE IF p \in {"call", "ask", "spawn"} THEN 2 ELSE IF p \in {"prep", "run"} THEN 3 ELSE 4

\* ... and how many any run is from its end or its next iteration.  A tool call takes five
\* steps at most: decision, question, hook, run, wait for children.
Stage(p) ==
  IF p = "batch" THEN 5 ELSE IF p = "ask" THEN 4 ELSE IF p = "hook" THEN 3
  ELSE IF p = "run" THEN 2 ELSE 1
ToIterationEnd(p, t) ==
  IF p = "idle" THEN 0 ELSE IF p = "top" THEN 1 ELSE IF p = "stuck" THEN 2
  ELSE IF p = "call" THEN 5 * MaxBatch + 3 ELSE IF p = "prep" THEN 5 * MaxBatch + 4
  ELSE 5 * (t.n - t.ci) + Stage(p) + 2

\* A step leaves the place of an aborted run, or brings it nearer to rest.
SinkStep ==
  \A a \in Agents : aborted[a] =>
    \/ aborted'[a] /\ pc'[a] = pc[a]
    \/ (aborted'[a] \/ pc'[a] = "idle") /\ ToRest(pc'[a]) < ToRest(pc[a])

\* A step leaves a run where it is, uses up its iteration, starts it, or pays for a new one.
PaidStep ==
  \A a \in Agents :
    \/ pc'[a] = pc[a] /\ turn'[a] = turn[a]
    \/ ToIterationEnd(pc'[a], turn'[a]) < ToIterationEnd(pc[a], turn[a])
    \/ pc[a] = "idle" /\ pc'[a] = "top"
    \/ /\ pc[a] = "top" /\ pc'[a] = "prep"
       /\ used'.iterations = used.iterations + 1 /\ used'.iterations <= limits.iterations

\* A signal that has fired belongs to a run.
SignalsOfRuns == \A a \in Agents : aborted[a] => pc[a] # "idle"

\* The run goes on at p with turn t; at its end its signal goes with it.
Moves(a, p, t) ==
  /\ pc' = [pc EXCEPT ![a] = p] /\ turn' = [turn EXCEPT ![a] = t]
  /\ aborted' = IF p = "idle" THEN [aborted EXCEPT ![a] = FALSE] ELSE aborted

\* The run leaves its iteration: to its end, to the next one, to the question of the watchdog.
Leaves(a) ==
  \E t : Moves(a, "idle", t) \/ Moves(a, "top", t) \/ (~aborted[a] /\ Moves(a, "stuck", t))

\* The next call of the batch.
NextCall(a) ==
  \E t \in Turns : t.n = turn[a].n /\ t.ci = turn[a].ci + 1 /\ Moves(a, "batch", t)

\* Where one step takes a run.
RunMove(a) ==
  \/ pc[a] \in {"call"} \cup Handling /\ (pc[a] = "batch" => ~aborted[a]) /\ Leaves(a)
  \/ pc[a] \in {"top", "stuck", "batch"} /\ \E t : Moves(a, "idle", t)
  \/ pc[a] = "stuck" /\ ~aborted[a] /\ \E t : Moves(a, "top", t)
  \/ /\ pc[a] = "top" /\ ~aborted[a] /\ Moves(a, "prep", turn[a])
     /\ used'.iterations = used.iterations + 1 /\ used'.iterations <= limits.iterations
  \/ pc[a] = "prep" /\ Moves(a, "call", turn[a])
  \/ pc[a] = "call" /\ \E t \in Turns : t.ci = 1 /\ Moves(a, "batch", t)
  \/ pc[a] \in Handling /\ (pc[a] = "batch" => ~aborted[a]) /\ NextCall(a)
  \/ pc[a] = "batch" /\ ~aborted[a] /\ Moves(a, "ask", turn[a])
  \/ pc[a] \in {"batch", "ask"} /\ ~aborted[a] /\ Moves(a, "hook", turn[a])
  \/ pc[a] \in {"batch", "ask"} /\ ~aborted[a] /\ Moves(a, "run", turn[a])
  \/ pc[a] = "hook" /\ Moves(a, "run", turn[a])

MoveStep == SinkStep /\ PaidStep /\ SignalsOfRuns'

\* The two measures, place by place.
LEMMA RestRanks ==
  /\ ToRest("idle") = 0 /\ ToRest("top") = 1 /\ ToRest("stuck") = 1 /\ ToRest("batch") = 1
  /\ ToRest("call") = 2 /\ ToRest("ask") = 2 /\ ToRest("spawn") = 2
  /\ ToRest("prep") = 3 /\ ToRest("run") = 3 /\ ToRest("hook") = 4
BY DEF ToRest

LEMMA IterationRanks ==
  ASSUME NEW t
  PROVE  /\ ToIterationEnd("idle", t) = 0 /\ ToIterationEnd("top", t) = 1
         /\ ToIterationEnd("stuck", t) = 2 /\ ToIterationEnd("call", t) = 5 * MaxBatch + 3
         /\ ToIterationEnd("prep", t) = 5 * MaxBatch + 4
         /\ ToIterationEnd("batch", t) = 5 * (t.n - t.ci) + 5 + 2
         /\ ToIterationEnd("ask", t) = 5 * (t.n - t.ci) + 4 + 2
         /\ ToIterationEnd("hook", t) = 5 * (t.n - t.ci) + 3 + 2
         /\ ToIterationEnd("run", t) = 5 * (t.n - t.ci) + 2 + 2
         /\ ToIterationEnd("spawn", t) = 5 * (t.n - t.ci) + 1 + 2
BY DEF ToIterationEnd, Stage

\* The measure of a run is a number.
LEMMA IterationLeft ==
  ASSUME NEW p \in PCs, NEW t \in Turns, t.ci <= t.n
  PROVE  ToIterationEnd(p, t) \in Nat
<1>1. MaxBatch \in Nat /\ t.n \in Nat /\ t.ci \in Nat
  BY TurnAssumption DEF Turns
<1>2. 5 * (t.n - t.ci) \in Nat /\ 5 * MaxBatch \in Nat
  BY <1>1
<1> QED
  BY <1>2, IterationRanks DEF PCs

\* Each move brings the run nearer to its end, in both measures.
LEMMA RunMoveSinks ==
  ASSUME IInv, SignalsOfRuns, NEW a \in Agents, RunMove(a)
  PROVE  MoveStep
<1>0. /\ pc \in [Agents -> PCs] /\ turn \in [Agents -> Turns] /\ aborted \in [Agents -> BOOLEAN]
      /\ turn[a] \in Turns /\ turn[a].ci <= turn[a].n
  BY DEF IInv, RunsInv, RunsTyped, TurnInRange
<1>1. MaxBatch \in Nat \ {0} /\ \A t \in Turns : t.n \in 0..MaxBatch /\ t.ci \in 0..MaxBatch
  BY TurnAssumption DEF Turns
<1>2. PICK p, t : Moves(a, p, t)
  BY DEF RunMove, Leaves, NextCall
<1>3. \A b \in Agents \ {a} : pc'[b] = pc[b] /\ turn'[b] = turn[b] /\ aborted'[b] = aborted[b]
  BY <1>0, <1>2 DEF Moves
<1>4. ASSUME NEW q, NEW u, Moves(a, q, u)
      PROVE  pc'[a] = q /\ turn'[a] = u /\ aborted'[a] = (IF q = "idle" THEN FALSE ELSE aborted[a])
  BY <1>0, <1>4 DEF Moves
<1>5. SignalsOfRuns'
  BY <1>2, <1>3, <1>4 DEF SignalsOfRuns
<1>6. ASSUME aborted[a]
      PROVE  (aborted'[a] \/ pc'[a] = "idle") /\ ToRest(pc'[a]) < ToRest(pc[a])
  <2>1. aborted'[a] \/ pc'[a] = "idle"
    BY <1>2, <1>4, <1>6
  <2>2. \/ pc[a] \in ({"call"} \cup Handling) \ {"batch"} /\ pc'[a] \in {"idle", "top"}
        \/ pc[a] \in {"top", "stuck", "batch"} /\ pc'[a] = "idle"
        \/ pc[a] = "prep" /\ pc'[a] = "call"
        \/ pc[a] \in ({"call"} \cup Handling) \ {"batch"} /\ pc'[a] = "batch"
        \/ pc[a] = "hook" /\ pc'[a] = "run"
    BY <1>4, <1>6 DEF RunMove, Leaves, NextCall
  <2>3. ToRest(pc'[a]) < ToRest(pc[a])
    <3>1. /\ ToRest("idle") < ToRest("top") /\ ToRest("idle") < ToRest("stuck")
          /\ ToRest("call") < ToRest("prep") /\ ToRest("run") < ToRest("hook")
          /\ \A q \in {"call", "ask", "hook", "run", "spawn"} : ToRest("batch") < ToRest(q)
          /\ \A q \in {"call", "ask", "hook", "run", "spawn"} :
               ToRest("idle") < ToRest(q) /\ ToRest("top") < ToRest(q)
          /\ ToRest("idle") < ToRest("batch")
      BY RestRanks
    <3> QED
      BY <3>1, <2>2 DEF Handling
  <2> QED
    BY <2>1, <2>3
<1>7. \/ ToIterationEnd(pc'[a], turn'[a]) < ToIterationEnd(pc[a], turn[a])
      \/ /\ pc[a] = "top" /\ pc'[a] = "prep"
         /\ used'.iterations = used.iterations + 1 /\ used'.iterations <= limits.iterations
  <2> DEFINE left == 5 * (turn[a].n - turn[a].ci)
             was == ToIterationEnd(pc[a], turn[a])
             is == ToIterationEnd(pc'[a], turn'[a])
  <2>0. /\ left \in Nat /\ 5 * MaxBatch \in Nat
        /\ pc[a] = "idle" => was = 0
        /\ pc[a] = "top" => was = 1
        /\ pc[a] = "stuck" => was = 2
        /\ pc[a] = "call" => was = 5 * MaxBatch + 3
        /\ pc[a] = "prep" => was = 5 * MaxBatch + 4
        /\ pc[a] = "batch" => was = left + 7
        /\ pc[a] = "ask" => was = left + 6
        /\ pc[a] = "hook" => was = left + 5
        /\ pc[a] = "run" => was = left + 4
        /\ pc[a] = "spawn" => was = left + 3
    BY <1>0, <1>1, IterationRanks
  <2>1. /\ pc'[a] = "idle" => is = 0
        /\ pc'[a] = "top" => is = 1
        /\ pc'[a] = "stuck" => is = 2
    BY IterationRanks
  <2>8. pc'[a] = "call" => is = 5 * MaxBatch + 3
    BY IterationRanks
  <2>2. turn'[a] = turn[a] =>
        /\ pc'[a] = "ask" => is = left + 6
        /\ pc'[a] = "hook" => is = left + 5
        /\ pc'[a] = "run" => is = left + 4
    BY <1>0, <1>1, IterationRanks
  <2>3. pc'[a] = "batch" => is = 5 * (turn'[a].n - turn'[a].ci) + 5 + 2
    BY IterationRanks
  <2>4. \/ pc[a] \in {"call"} \cup Handling /\ pc'[a] \in {"idle", "top", "stuck"}
        \/ pc[a] \in {"top", "stuck", "batch"} /\ pc'[a] = "idle"
        \/ pc[a] = "stuck" /\ pc'[a] = "top"
        \/ /\ pc[a] = "top" /\ pc'[a] = "prep"
           /\ used'.iterations = used.iterations + 1 /\ used'.iterations <= limits.iterations
        \/ pc[a] = "prep" /\ pc'[a] = "call"
        \/ pc[a] = "call" /\ pc'[a] = "batch" /\ turn'[a] \in Turns /\ turn'[a].ci = 1
        \/ /\ pc[a] \in Handling /\ pc'[a] = "batch"
           /\ turn'[a].n = turn[a].n /\ turn'[a].ci = turn[a].ci + 1
        \/ /\ turn'[a] = turn[a]
           /\ \/ pc[a] = "batch" /\ pc'[a] = "ask"
              \/ pc[a] \in {"batch", "ask"} /\ pc'[a] = "hook"
              \/ pc[a] \in {"batch", "ask", "hook"} /\ pc'[a] = "run"
    <3>1. ASSUME Leaves(a) PROVE pc'[a] \in {"idle", "top", "stuck"}
      BY <1>4, <3>1 DEF Leaves
    <3>2. ASSUME NextCall(a)
          PROVE  pc'[a] = "batch" /\ turn'[a].n = turn[a].n /\ turn'[a].ci = turn[a].ci + 1
      BY <1>4, <3>2 DEF NextCall
    <3>3. ASSUME NEW u \in Turns, u.ci = 1, Moves(a, "batch", u)
          PROVE  pc'[a] = "batch" /\ turn'[a] \in Turns /\ turn'[a].ci = 1
      BY <1>4, <3>3
    <3>4. \A q, u : Moves(a, q, u) => pc'[a] = q /\ turn'[a] = u
      BY <1>4
    <3>5. CASE pc[a] \in {"call"} \cup Handling /\ Leaves(a)
      BY <3>1, <3>5
    <3>6. CASE pc[a] \in {"top", "stuck", "batch"} /\ \E u : Moves(a, "idle", u)
      BY <3>4, <3>6
    <3>7. CASE pc[a] = "stuck" /\ \E u : Moves(a, "top", u)
      BY <3>4, <3>7
    <3>8. CASE /\ pc[a] = "top" /\ Moves(a, "prep", turn[a])
               /\ used'.iterations = used.iterations + 1 /\ used'.iterations <= limits.iterations
      BY <3>4, <3>8
    <3>9. CASE pc[a] = "prep" /\ Moves(a, "call", turn[a])
      BY <3>4, <3>9
    <3>10. CASE pc[a] \in Handling /\ NextCall(a)
      BY <3>2, <3>10
    <3>11. CASE \/ pc[a] = "batch" /\ Moves(a, "ask", turn[a])
                \/ pc[a] \in {"batch", "ask"} /\ Moves(a, "hook", turn[a])
                \/ pc[a] \in {"batch", "ask", "hook"} /\ Moves(a, "run", turn[a])
      BY <3>4, <3>11
    <3> QED
      BY <3>3, <3>5, <3>6, <3>7, <3>8, <3>9, <3>10, <3>11 DEF RunMove
  <2>5. pc[a] = "call" /\ pc'[a] = "batch" /\ turn'[a] \in Turns /\ turn'[a].ci = 1 => is < was
    <3> SUFFICES ASSUME pc[a] = "call", pc'[a] = "batch", turn'[a] \in Turns, turn'[a].ci = 1
                 PROVE  is < was
      OBVIOUS
    <3>1. is = 5 * (turn'[a].n - 1) + 5 + 2 /\ turn'[a].n \in 0..MaxBatch /\ was = 5 * MaxBatch + 3
      BY <2>0, <2>3, <1>1
    <3> HIDE DEF is, was
    <3> QED
      BY <3>1, <1>1
  <2>6. /\ pc[a] \in Handling /\ pc'[a] = "batch"
        /\ turn'[a].n = turn[a].n /\ turn'[a].ci = turn[a].ci + 1
        => is < was
    <3> SUFFICES ASSUME pc[a] \in Handling, pc'[a] = "batch",
                        turn'[a].n = turn[a].n, turn'[a].ci = turn[a].ci + 1
                 PROVE  is < was
      OBVIOUS
    <3>1. is = 5 * (turn[a].n - (turn[a].ci + 1)) + 5 + 2
      BY <2>3
    <3>2. is = left + 2
      BY <3>1, <1>0, <1>1
    <3> HIDE DEF is, was, left
    <3> QED
      BY <3>2, <2>0 DEF Handling
  <2> HIDE DEF is, was, left
  <2>7. \/ is < was
        \/ /\ pc[a] = "top" /\ pc'[a] = "prep"
           /\ used'.iterations = used.iterations + 1 /\ used'.iterations <= limits.iterations
    <3>1. CASE pc[a] \in {"call"} \cup Handling /\ pc'[a] \in {"idle", "top", "stuck"}
      <4>1. was >= 3 /\ was \in Int
        BY <3>1, <2>0 DEF Handling
      <4> QED
        BY <3>1, <4>1, <2>1
    <3>2. CASE \/ pc[a] \in {"top", "stuck", "batch"} /\ pc'[a] = "idle"
               \/ pc[a] = "stuck" /\ pc'[a] = "top"
               \/ pc[a] = "prep" /\ pc'[a] = "call"
      BY <3>2, <2>0, <2>1, <2>8
    <3>3. CASE /\ turn'[a] = turn[a]
               /\ \/ pc[a] = "batch" /\ pc'[a] = "ask"
                  \/ pc[a] \in {"batch", "ask"} /\ pc'[a] = "hook"
                  \/ pc[a] \in {"batch", "ask", "hook"} /\ pc'[a] = "run"
      BY <3>3, <2>0, <2>2
    <3> QED
      BY <3>1, <3>2, <3>3, <2>4, <2>5, <2>6
  <2> QED
    BY <2>7 DEF is, was
<1> QED
  BY <1>3, <1>5, <1>6, <1>7 DEF MoveStep, SinkStep, PaidStep

\* What ends a run or takes it to its next iteration.
LEMMA EndingLeaves ==
  ASSUME NEW a \in Agents
  PROVE  /\ \A kind, h : End(a, kind, h) \/ Halt(a, kind, h) \/ Throw(a, kind) =>
              \E t : Moves(a, "idle", t)
         /\ \A text, h : Deliver(a, text, h) => \E t : Moves(a, "idle", t)
         /\ \A h, kind, c : CheckStuck(a, h, kind, c) => Leaves(a)
<1>1. \A kind, h : End(a, kind, h) \/ Halt(a, kind, h) \/ Throw(a, kind) =>
        Moves(a, "idle", NoTurn)
  BY DEF End, Halt, Throw, Moves, Goto
<1>2. \A text, h : Deliver(a, text, h) => Moves(a, "idle", NoTurn)
  BY <1>1 DEF Deliver
<1>3. ASSUME NEW h, NEW kind, NEW c, CheckStuck(a, h, kind, c) PROVE Leaves(a)
  <2>1. CASE Proceed(a, "top", h, NoTurn, c)
    BY <2>1 DEF Proceed, Goto, Moves, Leaves
  <2>2. CASE ~aborted[a] /\ Proceed(a, "stuck", h, [NoTurn EXCEPT !.kind = kind], c)
    BY <2>2 DEF Proceed, Goto, Moves, Leaves
  <2>3. CASE Halt(a, "ended", Append(h, Text))
    BY <1>1, <2>3 DEF Leaves
  <2> QED
    BY <1>3, <2>1, <2>2, <2>3 DEF CheckStuck
<1> QED
  BY <1>1, <1>2, <1>3

\* What answers a call goes on to the next, or leaves the iteration.
LEMMA AnsweredMoves ==
  ASSUME IInv, NEW a \in Agents, NEW ok, Answered(a, ok)
  PROVE  Leaves(a) \/ NextCall(a)
<1>1. CASE \E h, c : AfterCalls(a, h, c)
  BY <1>1, EndingLeaves DEF AfterCalls
<1>2. ASSUME ~LastCall(a), NEW h, NEW c, Proceed(a, "batch", h, [turn[a] EXCEPT !.ci = @ + 1], c)
      PROVE  NextCall(a)
  <2> DEFINE t == [turn[a] EXCEPT !.ci = @ + 1]
  <2>1. turn[a] \in Turns /\ turn[a].ci <= turn[a].n
    BY DEF IInv, RunsInv, RunsTyped, TurnInRange
  <2>2. t \in Turns /\ t.n = turn[a].n /\ t.ci = turn[a].ci + 1
    BY <1>2, <2>1, TurnAssumption DEF LastCall, Turns
  <2>3. Moves(a, "batch", t)
    BY <1>2 DEF Proceed, Goto, Moves
  <2> HIDE DEF t
  <2> QED
    BY <2>2, <2>3 DEF NextCall
<1> QED
  BY <1>1, <1>2 DEF Answered

\* What is allowed and has its slot runs; without one left the run ends.
LEMMA PermittedMoves ==
  ASSUME IInv, NEW a \in Agents
  PROVE  /\ StartEffect(a) => Moves(a, "run", turn[a]) \/ \E t : Moves(a, "idle", t)
         /\ Permitted(a) => \/ Moves(a, "hook", turn[a]) \/ Moves(a, "run", turn[a])
                            \/ \E t : Moves(a, "idle", t)
<1>1. turn = [turn EXCEPT ![a] = turn[a]]
  BY DEF IInv, RunsInv, RunsTyped
<1>2. ASSUME NEW p \in {"hook", "run", "ask"}, Goto(a, p), UNCHANGED <<turn, aborted>>
      PROVE  Moves(a, p, turn[a])
  BY <1>1, <1>2 DEF Goto, Moves
<1>3. StartEffect(a) => Moves(a, "run", turn[a]) \/ \E t : Moves(a, "idle", t)
  BY <1>2, EndingLeaves DEF StartEffect
<1> QED
  BY <1>2, <1>3 DEF Permitted

\* Every step of a run is one of the moves.
LEMMA RunMoves ==
  ASSUME IInv, NEW a \in Agents, Automatic(a) \/ OwnerDecides(a)
  PROVE  RunMove(a)
<1>0. turn = [turn EXCEPT ![a] = turn[a]] /\ used \in Amounts /\ limits \in Amounts
  BY DEF IInv, RunsInv, RunsTyped, BudgetInv, BudgetTyped
<1>1. CASE TopAborted(a) \/ TopAtLimit(a)
  BY <1>1, EndingLeaves DEF TopAborted, TopAtLimit, At, RunMove
<1>2. CASE TopReserve(a)
  <2>1. Moves(a, "prep", turn[a])
    BY <1>0, <1>2 DEF TopReserve, Goto, Moves
  <2>2. used'.iterations = used.iterations + 1 /\ used'.iterations <= limits.iterations
    BY <1>0, <1>2 DEF TopReserve, TryConsumeIteration, Amounts
  <2> QED
    BY <1>2, <2>1, <2>2 DEF TopReserve, At, RunMove
<1>3. CASE SendPrompt(a)
  <2>1. Moves(a, "call", turn[a])
    BY <1>0, <1>3 DEF SendPrompt, Goto, Moves
  <2> QED
    BY <1>3, <2>1 DEF SendPrompt, At, RunMove
<1>4. CASE CallFails(a) \/ CallAborted(a) \/ Degenerates(a) \/ ReplyTruncated(a)
  <2>1. pc[a] = "call" /\ \E t : Moves(a, "idle", t)
    BY <1>4, EndingLeaves DEF CallFails, CallAborted, Degenerates, ReplyTruncated, At
  <2> QED
    BY <2>1 DEF RunMove, Leaves, Handling
<1>5. CASE Expedited(a)
  <2>1. pc[a] = "call" /\ Moves(a, "top", turn[a])
    BY <1>0, <1>5 DEF Expedited, At, Goto, Moves
  <2> QED
    BY <2>1 DEF RunMove, Leaves, Handling
<1>6. CASE ReplyWithCalls(a)
  <2>1. PICK t \in Turns : t.ci = 1 /\ turn' = [turn EXCEPT ![a] = t]
    <3>1. /\ \A n \in 1..MaxBatch : [kind |-> "native", n |-> n, ci |-> 1] \in Turns
          /\ [kind |-> "text", n |-> 1, ci |-> 1] \in Turns
      BY TurnAssumption DEF Turns
    <3> QED
      BY <1>6, <3>1 DEF ReplyWithCalls
  <2>2. pc[a] = "call" /\ Moves(a, "batch", t)
    BY <1>6, <2>1 DEF ReplyWithCalls, At, Goto, Moves
  <2> QED
    BY <2>1, <2>2 DEF RunMove
<1>7. CASE ReplyMalformed(a)
  <2>1. pc[a] = "call" /\ Leaves(a)
    BY <1>7, EndingLeaves DEF ReplyMalformed, At
  <2> QED
    BY <2>1 DEF RunMove, Handling
<1>8. CASE ReplyFinal(a)
  <2>1. PICK text, empty : ProbeFinal(a, text) \/ AcceptFinal(a, text, empty)
    BY <1>8 DEF ReplyFinal
  <2>2. ProbeFinal(a, text) => Moves(a, "top", NoTurn)
    BY DEF ProbeFinal, Proceed, Goto, Moves
  <2>3. AcceptFinal(a, text, empty) => Leaves(a)
    BY EndingLeaves DEF AcceptFinal, Leaves
  <2>4. pc[a] = "call" /\ Leaves(a)
    BY <1>8, <2>1, <2>2, <2>3 DEF ReplyFinal, At, Leaves
  <2> QED
    BY <2>4 DEF RunMove, Handling
<1>9. CASE BatchAborted(a)
  BY <1>9, EndingLeaves DEF BatchAborted, At, RunMove
<1>10. CASE SkipForMessage(a)
  <2>1. pc[a] = "batch" /\ ~aborted[a] /\ Leaves(a)
    BY <1>10, EndingLeaves DEF SkipForMessage, AfterCalls, At
  <2> QED
    BY <2>1 DEF RunMove, Handling
<1>11. ASSUME pc[a] \in {"batch", "ask"}, ~aborted[a], Permitted(a) PROVE RunMove(a)
  <2>1. CASE \E t : Moves(a, "idle", t)
    BY <1>11, <2>1 DEF RunMove, Leaves, Handling
  <2> QED
    BY <1>11, <2>1, PermittedMoves DEF RunMove
<1>12. ASSUME pc[a] \in Handling, pc[a] = "batch" => ~aborted[a], NEW ok, Answered(a, ok)
       PROVE  RunMove(a)
  BY <1>12, AnsweredMoves DEF RunMove
<1>13. CASE Decide(a)
  <2>1. CASE Goto(a, "ask") /\ UNCHANGED <<turn, aborted>>
    <3>1. Moves(a, "ask", turn[a])
      BY <1>0, <2>1 DEF Goto, Moves
    <3> QED
      BY <1>13, <3>1 DEF Decide, At, RunMove
  <2> QED
    BY <1>11, <1>12, <1>13, <2>1 DEF Decide, Blocked, At, Handling
<1>14. CASE AskApproved(a)
  BY <1>11, <1>14 DEF AskApproved, At
<1>15. CASE AskDenied(a) \/ AskCancelled(a) \/ HookVetoes(a) \/ ToolEnds(a)
  BY <1>12, <1>15 DEF AskDenied, AskCancelled, HookVetoes, ToolEnds, Blocked, At, Handling
<1>16. CASE HookPasses(a)
  <2>1. pc[a] = "hook" /\ (Moves(a, "run", turn[a]) \/ Leaves(a))
    BY <1>16, PermittedMoves DEF HookPasses, At, Leaves
  <2> QED
    BY <2>1 DEF RunMove, Handling
<1>17. CASE ToolThrows(a)
  <2>1. pc[a] = "run" /\ Leaves(a)
    BY <1>17, EndingLeaves DEF ToolThrows, At, Leaves
  <2> QED
    BY <2>1 DEF RunMove, Handling
<1>18. CASE StuckResolved(a)
  <2>1. CASE ~aborted[a] /\ \E h, c : Proceed(a, "top", h, NoTurn, c)
    BY <1>18, <2>1 DEF StuckResolved, At, Proceed, Goto, Moves, RunMove
  <2>2. CASE (\E text, h : Deliver(a, text, h)) \/ \E h : Halt(a, "ended", h)
    BY <1>18, <2>2, EndingLeaves DEF StuckResolved, At, RunMove
  <2> QED
    BY <1>18, <2>1, <2>2 DEF StuckResolved
<1> QED
  BY <1>1, <1>2, <1>3, <1>4, <1>5, <1>6, <1>7, <1>8, <1>9, <1>10, <1>13, <1>14, <1>15, <1>16,
     <1>17, <1>18 DEF Automatic, OwnerDecides

\* Runs start at their first iteration, the signal of nobody else changes, and a run is stopped
\* only while it goes on.
LEMMA OtherMoves ==
  ASSUME IInv, SignalsOfRuns, Session \/ Tree \/ UNCHANGED vars
  PROVE  MoveStep
<1>0. /\ pc \in [Agents -> PCs] /\ aborted \in [Agents -> BOOLEAN] /\ turn \in [Agents -> Turns]
      /\ Root \in Agents /\ Children \subseteq Agents
  BY DEF IInv, RunsInv, RunsTyped, Agents
<1>1. ASSUME UNCHANGED <<pc, turn>>,
             \A a \in Agents : aborted[a] => aborted'[a],
             \A a \in Agents : aborted'[a] => pc[a] # "idle"
      PROVE  MoveStep
  BY <1>1 DEF MoveStep, SinkStep, PaidStep, SignalsOfRuns
<1>2. ASSUME NEW S \in SUBSET Agents, AbortRuns(S) PROVE MoveStep
  <2>1. \A a \in Agents : aborted'[a] = (aborted[a] \/ (a \in S /\ pc[a] # "idle"))
    BY <1>2 DEF AbortRuns
  <2> QED
    BY <1>1, <1>2, <2>1 DEF AbortRuns, SignalsOfRuns
<1>3. ASSUME Goto(Root, "top"), At(Root, "idle"), UNCHANGED <<turn, aborted>> PROVE MoveStep
  <2>1. \A a \in Agents : pc'[a] = IF a = Root THEN "top" ELSE pc[a]
    BY <1>0, <1>3 DEF Goto
  <2> QED
    BY <1>0, <1>3, <2>1 DEF At, MoveStep, SinkStep, PaidStep, SignalsOfRuns
<1>4. CASE NewGoal \/ ContinueAfterBudget
  BY <1>3, <1>4 DEF NewGoal, ContinueAfterBudget, StartRuns
<1>5. CASE (\E a \in Agents : Send(a)) \/ Detach \/ UNCHANGED vars
  BY <1>1, <1>5 DEF Send, Detach, vars, SignalsOfRuns
<1>6. CASE Esc \/ StopAll
  <2>1. {Root} \in SUBSET Agents /\ {Root} \cup Known \in SUBSET Agents
    BY <1>0 DEF IInv, RunsInv, RunsTyped, Known
  <2> QED
    BY <1>2, <1>6, <2>1 DEF Esc, StopAll
<1>7. CASE \E c \in Children : StopChild(c) \/ IdleTimeout(c)
  BY <1>0, <1>2, <1>7 DEF StopChild, IdleTimeout
<1>8. CASE \E S \in SUBSET Children, wait \in BOOLEAN : Spawn(S, wait)
  <2>1. PICK S \in SUBSET Children, wait \in BOOLEAN : Spawn(S, wait)
    BY <1>8
  <2>2. /\ pc[Root] = "run" /\ \A c \in S : pc[c] = "idle"
        /\ UNCHANGED <<turn, aborted>> /\ Root \notin S
        /\ \A a \in Agents : pc'[a] = IF a \in S THEN "top" ELSE IF a = Root THEN "spawn" ELSE pc[a]
    BY <2>1, AgentsAssumption DEF Spawn, StartRuns, At
  <2>3. \A a \in Agents : aborted[a] => pc[a] # "idle"
    BY DEF SignalsOfRuns
  <2>4. /\ ToRest("spawn") < ToRest("run")
        /\ ToIterationEnd("spawn", turn[Root]) < ToIterationEnd("run", turn[Root])
    <3>1. turn[Root].n \in Nat /\ turn[Root].ci \in Nat
      BY <1>0, TurnAssumption DEF Turns
    <3> QED
      BY <3>1, RestRanks, IterationRanks
  <2>5. SinkStep
    BY <1>0, <2>2, <2>3, <2>4 DEF SinkStep
  <2>6. PaidStep
    BY <1>0, <2>2, <2>4 DEF PaidStep
  <2>7. SignalsOfRuns'
    BY <2>2, <2>3 DEF SignalsOfRuns
  <2> QED
    BY <2>5, <2>6, <2>7 DEF MoveStep
<1>9. CASE SpawnReturns
  <2>1. RunMove(Root)
    BY <1>0, <1>9, AnsweredMoves DEF SpawnReturns, At, RunMove, Handling
  <2> QED
    BY <1>0, <2>1, RunMoveSinks
<1> QED
  BY <1>4, <1>5, <1>6, <1>7, <1>8, <1>9 DEF Session, Tree

LEMMA NextMoves ==
  ASSUME IInv, SignalsOfRuns, [Next]_vars
  PROVE  MoveStep
BY RunMoves, RunMoveSinks, OtherMoves DEF Next

\* Cancellation wins in a bounded number of steps: an aborted run's signal stays until it rests,
\* and each of its own steps, whatever tool, hook, question or children it waits for, brings it
\* nearer to that; four are enough (loop.ts, the looks at signal.aborted).
THEOREM AbortedRunsSink ==
  Spec => [][\A a \in Agents : aborted[a] =>
               \/ aborted'[a] /\ pc'[a] = pc[a]
               \/ (aborted'[a] \/ pc'[a] = "idle") /\ ToRest(pc'[a]) < ToRest(pc[a])]_vars
<1>1. Init => SignalsOfRuns
  BY DEF Init, SignalsOfRuns
<1>2. IInv /\ SignalsOfRuns /\ [Next]_vars => SignalsOfRuns'
  BY NextMoves DEF MoveStep
<1>3. IInv /\ SignalsOfRuns /\ [Next]_vars
        => [\A a \in Agents : aborted[a] =>
              \/ aborted'[a] /\ pc'[a] = pc[a]
              \/ (aborted'[a] \/ pc'[a] = "idle") /\ ToRest(pc'[a]) < ToRest(pc[a])]_vars
  BY NextMoves DEF MoveStep, SinkStep
<1> QED
  BY <1>1, <1>2, <1>3, Invariance, PTL DEF Spec

\* A run that goes on has paid for it: between its start and its end each step either uses up
\* some of the current iteration, at most five steps a tool call and four more, or takes a
\* new one from the budget of the whole tree while one is left (loop.ts, the while of runLoop).
THEOREM IterationsArePaid ==
  Spec => [][\A a \in Agents :
               \/ pc'[a] = pc[a] /\ turn'[a] = turn[a]
               \/ ToIterationEnd(pc'[a], turn'[a]) \in 0..(ToIterationEnd(pc[a], turn[a]) - 1)
               \/ pc[a] = "idle" /\ pc'[a] = "top"
               \/ /\ pc[a] = "top" /\ pc'[a] = "prep"
                  /\ used'.iterations = used.iterations + 1
                  /\ used'.iterations <= limits.iterations]_vars
<1>1. Init => SignalsOfRuns
  BY DEF Init, SignalsOfRuns
<1>2. IInv /\ SignalsOfRuns /\ [Next]_vars => SignalsOfRuns'
  BY NextMoves DEF MoveStep
<1>3. IInv /\ SignalsOfRuns /\ [Next]_vars
        => [\A a \in Agents :
              \/ pc'[a] = pc[a] /\ turn'[a] = turn[a]
              \/ ToIterationEnd(pc'[a], turn'[a]) \in 0..(ToIterationEnd(pc[a], turn[a]) - 1)
              \/ pc[a] = "idle" /\ pc'[a] = "top"
              \/ /\ pc[a] = "top" /\ pc'[a] = "prep"
                 /\ used'.iterations = used.iterations + 1
                 /\ used'.iterations <= limits.iterations]_vars
  <2>1. IInv => \A a \in Agents : ToIterationEnd(pc[a], turn[a]) \in Nat
    BY IterationLeft DEF IInv, RunsInv, RunsTyped, TurnInRange
  <2>2. IInv' => \A a \in Agents : ToIterationEnd(pc'[a], turn'[a]) \in Nat
    BY IterationLeft DEF IInv, RunsInv, RunsTyped, TurnInRange
  <2>3. IInv /\ [Next]_vars => IInv'
    BY NextKeeps DEF GoodStep, RunsStep, IInv
  <2>4. \A m, n \in Nat : m < n => m \in 0..(n - 1)
    OBVIOUS
  <2> QED
    BY <2>1, <2>2, <2>3, <2>4, NextMoves DEF MoveStep, PaidStep
<1> QED
  BY <1>1, <1>2, <1>3, Invariance, PTL DEF Spec
=============================================================================
