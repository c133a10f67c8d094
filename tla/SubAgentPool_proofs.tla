------------------------ MODULE SubAgentPool_proofs ------------------------
(***************************************************************************)
(* Proofs about SubAgentPool: what F8 has stopped stays down, a child's    *)
(* channel is its own, and the workers of a call are at work to its end.   *)
(***************************************************************************)
EXTENDS SubAgentPool, FiniteSetTheorems, TLAPS

\* The nodes behind the stop: in a stopped tree every node is aborted, also the
\* ones made later; a child listens to a node that exists, and an abort of that
\* node has reached it; the session registers no node that does not exist.
StopInv ==
  /\ \A n \in nodes : n[1] \in stopped => n \in killed
  /\ \A c \in Working :
       /\ <<hears[c], Label(c)>> \in nodes
       /\ <<hears[c], Label(c)>> \in killed => c \in aborted
  /\ \A l \in Labels : nodeOf[l] # 0 => <<nodeOf[l], l>> \in nodes

PoolInv == TypeOK /\ StopInv

LEMMA ChildFacts ==
  ASSUME NEW c \in Children
  PROVE  c[1] \in Fanouts /\ Label(c) \in Labels
BY DEF Children, Label, Labels

LEMMA BatchFacts ==
  ASSUME NEW f \in Fanouts
  PROVE  /\ WorkerCount(f) \in Nat
         /\ Batchmates(f) \subseteq Children
         /\ \A c \in Batchmates(f) : Label(c) \in Labels
<1>1. WorkerCount(f) \in Nat
  BY PoolAssumption, BatchAssumption DEF WorkerCount
<1>2. Batchmates(f) \subseteq Children
  BY DEF Batchmates, Children
<1> QED
  BY <1>1, <1>2, ChildFacts

-----------------------------------------------------------------------------
\* What planting keeps: new nodes of the current tree, aborted if it is stopped.
LEMMA PlantFacts ==
  ASSUME PoolInv, NEW L \in SUBSET Labels, Plant(L)
  PROVE  /\ nodes \subseteq nodes' /\ nodes' \subseteq (1..turn) \X Labels
         /\ killed \subseteq killed' /\ killed' \subseteq nodes'
         /\ \A n \in nodes : n \in killed' => n \in killed
         /\ \A n \in nodes' : n[1] \in stopped => n \in killed'
         /\ \A l \in L : <<turn, l>> \in nodes'
<1> DEFINE new == ({turn} \X L) \ nodes
<1>1. nodes' = nodes \cup new /\ killed' = killed \cup (IF turn \in stopped THEN new ELSE {})
  BY DEF Plant
<1>2. new \subseteq (1..turn) \X Labels /\ \A n \in new : n[1] = turn /\ n \notin nodes
  BY DEF PoolInv, TypeOK
<1>3. nodes \subseteq (1..turn) \X Labels /\ killed \subseteq nodes
      /\ \A n \in nodes : n[1] \in stopped => n \in killed
  BY DEF PoolInv, TypeOK, StopInv
<1>4. \A l \in L : <<turn, l>> \in nodes \cup new
  OBVIOUS
<1> HIDE DEF new
<1> QED
  BY <1>1, <1>2, <1>3, <1>4

\* When no child begins to work, the nodes that existed keep their fate, and the
\* trees stopped are the same, the stops are still where they should be.
LEMMA StopKept ==
  ASSUME PoolInv,
         nodes \subseteq nodes',
         \A n \in nodes : n \in killed' => n \in killed,
         \A n \in nodes' : n[1] \in stopped' => n \in killed',
         \A l \in Labels : nodeOf'[l] # 0 => <<nodeOf'[l], l>> \in nodes',
         hears' = hears, aborted' = aborted,
         Working' \subseteq Working
  PROVE  StopInv'
<1>1. \A c \in Working' :
        /\ <<hears[c], Label(c)>> \in nodes
        /\ <<hears[c], Label(c)>> \in killed => c \in aborted
  BY DEF PoolInv, StopInv
<1>2. \A c \in Working' :
        /\ <<hears'[c], Label(c)>> \in nodes'
        /\ <<hears'[c], Label(c)>> \in killed' => c \in aborted'
  BY <1>1
<1> QED
  BY <1>2 DEF StopInv, Label

LEMMA InitPool == Init => PoolInv
BY PoolAssumption DEF Init, PoolInv, TypeOK, StopInv, Working

LEMMA NewTurnKeeps == PoolInv /\ NewTurn => PoolInv'
<1> SUFFICES ASSUME PoolInv, NewTurn PROVE PoolInv'
  OBVIOUS
<1>1. TypeOK'
  BY DEF PoolInv, TypeOK, NewTurn, forest
<1>2. StopInv'
  BY DEF PoolInv, StopInv, NewTurn, forest, Working, Label
<1> QED
  BY <1>1, <1>2 DEF PoolInv

LEMMA SpawnKeeps ==
  ASSUME PoolInv, NEW f \in Fanouts, NEW wait \in BOOLEAN, Spawn(f, wait)
  PROVE  PoolInv'
<1> DEFINE first == {c \in Batchmates(f) : c[2] <= WorkerCount(f)}
           named == {Label(c) : c \in first}
<1>1. /\ st' = [c \in Children |-> IF c \in first THEN "preparing" ELSE st[c]]
      /\ next' = [next EXCEPT ![f] = WorkerCount(f) + 1]
      /\ Plant(named)
      /\ nodeOf' = [l \in Labels |-> IF l \in named THEN turn ELSE nodeOf[l]]
      /\ fan' = [fan EXCEPT ![f] = IF wait THEN "coupled" ELSE "loose"]
      /\ home' = [home EXCEPT ![f] = turn]
      /\ kept' = IF wait THEN kept ELSE kept \cup {turn}
      /\ UNCHANGED <<turn, stopped, finished, channel, hears, aborted, stops>>
  BY DEF Spawn
<1>2. named \in SUBSET Labels /\ first \subseteq Children
  BY BatchFacts
<1> HIDE DEF first, named
<1>3. /\ nodes \subseteq nodes' /\ nodes' \subseteq (1..turn) \X Labels
      /\ killed \subseteq killed' /\ killed' \subseteq nodes'
      /\ \A n \in nodes : n \in killed' => n \in killed
      /\ \A n \in nodes' : n[1] \in stopped => n \in killed'
      /\ \A l \in named : <<turn, l>> \in nodes'
  BY <1>1, <1>2, PlantFacts
<1>4. TypeOK'
  <2>1. WorkerCount(f) + 1 \in Nat \ {0}
    BY BatchFacts
  <2>2. next' \in [Fanouts -> Nat \ {0}] /\ fan' \in [Fanouts -> {"none", "coupled", "loose", "back"}]
        /\ home' \in [Fanouts -> 0..turn]
    BY <1>1, <2>1 DEF PoolInv, TypeOK
  <2>3. nodeOf' \in [Labels -> 0..turn]
        /\ st' \in [Children -> {"queued", "preparing", "working", "asking", "leaving", "ended"}]
    BY <1>1 DEF PoolInv, TypeOK
  <2>4. stopped' \subseteq 1..turn /\ kept' \subseteq 1..turn /\ finished' \subseteq nodes'
    BY <1>1, <1>3 DEF PoolInv, TypeOK
  <2> QED
    BY <1>1, <1>3, <2>2, <2>3, <2>4 DEF PoolInv, TypeOK
<1>5. \A l \in Labels : nodeOf'[l] # 0 => <<nodeOf'[l], l>> \in nodes'
  BY <1>1, <1>3 DEF PoolInv, StopInv
<1>6. Working' \subseteq Working
  BY <1>1 DEF Working
<1>7. StopInv'
  BY <1>1, <1>3, <1>5, <1>6, StopKept
<1> QED
  BY <1>4, <1>7 DEF PoolInv

LEMMA DetachKeeps ==
  ASSUME PoolInv, NEW f \in Fanouts, Detach(f)
  PROVE  PoolInv'
<1>1. TypeOK'
  BY DEF PoolInv, TypeOK, Detach, forest
<1>2. StopInv'
  BY DEF PoolInv, StopInv, Detach, forest, Working, Label
<1> QED
  BY <1>1, <1>2 DEF PoolInv

\* An abort of nodes reaches the children that listen to them.
LEMMA KillKeeps ==
  ASSUME PoolInv, NEW N \in SUBSET nodes, Kill(N),
         UNCHANGED <<turn, nodes, nodeOf, channel, home, next, st, hears>>,
         stops' \in Nat, kept' \subseteq 1..turn, stopped' \subseteq 1..turn,
         fan' \in [Fanouts -> {"none", "coupled", "loose", "back"}],
         \A n \in nodes : n[1] \in stopped' => n[1] \in stopped \/ n \in N
  PROVE  PoolInv'
<1>1. /\ killed' = killed \cup N
      /\ finished' = finished \cup N
      /\ aborted' = aborted \cup {c \in Working : <<hears[c], Label(c)>> \in N}
  BY DEF Kill
<1>2. TypeOK'
  BY <1>1 DEF PoolInv, TypeOK, Working
<1>3. \A n \in nodes' : n[1] \in stopped' => n \in killed'
  BY <1>1 DEF PoolInv, StopInv
<1>4. ASSUME NEW c \in Working'
      PROVE  /\ <<hears'[c], Label(c)>> \in nodes'
             /\ <<hears'[c], Label(c)>> \in killed' => c \in aborted'
  <2>1. c \in Working /\ hears'[c] = hears[c] /\ nodes' = nodes
    BY DEF Working
  <2>2. /\ <<hears[c], Label(c)>> \in nodes
        /\ <<hears[c], Label(c)>> \in killed => c \in aborted
    BY <2>1 DEF PoolInv, StopInv
  <2> QED
    BY <1>1, <2>1, <2>2
<1>5. \A l \in Labels : nodeOf'[l] # 0 => <<nodeOf'[l], l>> \in nodes'
  BY DEF PoolInv, StopInv
<1>6. StopInv'
  BY <1>3, <1>4, <1>5 DEF StopInv, Label
<1> QED
  BY <1>2, <1>6 DEF PoolInv

LEMMA StopAllKeeps == PoolInv /\ StopAll => PoolInv'
<1> SUFFICES ASSUME PoolInv, StopAll PROVE PoolInv'
  OBVIOUS
<1> DEFINE T == kept \cup {turn}
           N == {n \in nodes : n[1] \in T}
           held == {f \in Fanouts : fan[f] = "coupled"}
<1>1. /\ stopped' = stopped \cup T
      /\ Kill(N)
      /\ fan' = [f \in Fanouts |-> IF f \in held THEN "loose" ELSE fan[f]]
      /\ kept' = kept \cup (IF held = {} THEN {} ELSE {turn})
      /\ UNCHANGED <<turn, nodes, nodeOf, channel, home, next, st, hears, stops>>
  BY DEF StopAll
<1>2. N \in SUBSET nodes /\ \A n \in nodes : n[1] \in stopped' => n[1] \in stopped \/ n \in N
  BY <1>1
<1>3. stops' \in Nat /\ kept' \subseteq 1..turn /\ stopped' \subseteq 1..turn
      /\ fan' \in [Fanouts -> {"none", "coupled", "loose", "back"}]
  BY <1>1 DEF PoolInv, TypeOK
<1> HIDE DEF N
<1> QED
  BY <1>1, <1>2, <1>3, KillKeeps

LEMMA StopOneKeeps ==
  ASSUME PoolInv, NEW n \in nodes, StopOne(n)
  PROVE  PoolInv'
<1>1. /\ Kill({n})
      /\ UNCHANGED <<turn, stopped, kept, nodes, nodeOf, channel, fan, home, next, st, hears>>
      /\ stops' = stops + 1
  BY DEF StopOne
<1>2. {n} \in SUBSET nodes
      /\ \A m \in nodes : m[1] \in stopped' => m[1] \in stopped \/ m \in {n}
  BY <1>1
<1>3. stops' \in Nat /\ kept' \subseteq 1..turn /\ stopped' \subseteq 1..turn
      /\ fan' \in [Fanouts -> {"none", "coupled", "loose", "back"}]
  BY <1>1 DEF PoolInv, TypeOK
<1> QED
  BY <1>1, <1>2, <1>3, KillKeeps

-----------------------------------------------------------------------------
LEMMA EnterKeeps ==
  ASSUME PoolInv, NEW c \in Children, Enter(c)
  PROVE  PoolInv'
<1> DEFINE l == Label(c)
           t == IF nodeOf[l] # 0 THEN nodeOf[l] ELSE turn
<1>1. /\ st[c] = "preparing"
      /\ st' = [st EXCEPT ![c] = "working"]
      /\ channel' = [channel EXCEPT ![l] = c]
      /\ hears' = [hears EXCEPT ![c] = t]
      /\ IF nodeOf[l] # 0 THEN UNCHANGED <<nodes, killed>> ELSE Plant({l})
      /\ aborted' = aborted \cup (IF <<t, l>> \in killed' THEN {c} ELSE {})
      /\ UNCHANGED <<turn, stopped, kept, finished, nodeOf, fan, home, next, stops>>
  BY DEF Enter
<1>2. l \in Labels
  BY ChildFacts
<1>3. t \in 0..turn
  BY <1>2 DEF PoolInv, TypeOK
<1>4. /\ nodes \subseteq nodes' /\ nodes' \subseteq (1..turn) \X Labels
      /\ killed \subseteq killed' /\ killed' \subseteq nodes'
      /\ \A n \in nodes : n \in killed' => n \in killed
      /\ \A n \in nodes' : n[1] \in stopped => n \in killed'
      /\ <<t, l>> \in nodes'
  <2>1. CASE nodeOf[l] # 0
    BY <1>1, <1>2, <2>1 DEF PoolInv, TypeOK, StopInv
  <2>2. CASE nodeOf[l] = 0
    <3>1. Plant({l}) /\ {l} \in SUBSET Labels
      BY <1>1, <1>2, <2>2
    <3> QED
      BY <3>1, <2>2, PlantFacts
  <2> QED
    BY <2>1, <2>2
<1> HIDE DEF l, t
<1>5. TypeOK'
  <2>1. st' \in [Children -> {"queued", "preparing", "working", "asking", "leaving", "ended"}]
        /\ channel' \in [Labels -> Children \cup {None}] /\ hears' \in [Children -> 0..turn]
    BY <1>1, <1>2, <1>3 DEF PoolInv, TypeOK
  <2>2. finished' \subseteq nodes' /\ aborted' \subseteq Children
    BY <1>1, <1>4 DEF PoolInv, TypeOK
  <2> QED
    BY <1>1, <1>4, <2>1, <2>2 DEF PoolInv, TypeOK
<1>6. ASSUME NEW d \in Working'
      PROVE  /\ <<hears'[d], Label(d)>> \in nodes'
             /\ <<hears'[d], Label(d)>> \in killed' => d \in aborted'
  <2>1. CASE d = c
    <3>1. hears'[d] = t /\ Label(d) = l
      BY <1>1, <2>1 DEF PoolInv, TypeOK, l
    <3> QED
      BY <1>1, <1>4, <2>1, <3>1
  <2>2. CASE d # c
    <3>1. d \in Working /\ hears'[d] = hears[d]
      BY <1>1, <2>2 DEF Working, PoolInv, TypeOK
    <3>2. /\ <<hears[d], Label(d)>> \in nodes
          /\ <<hears[d], Label(d)>> \in killed => d \in aborted
      BY <3>1 DEF PoolInv, StopInv
    <3> QED
      BY <1>1, <1>4, <3>1, <3>2
  <2> QED
    BY <2>1, <2>2
<1>7. \A k \in Labels : nodeOf'[k] # 0 => <<nodeOf'[k], k>> \in nodes'
  BY <1>1, <1>4 DEF PoolInv, StopInv
<1>8. StopInv'
  BY <1>1, <1>4, <1>6, <1>7 DEF StopInv, Label
<1> QED
  BY <1>5, <1>8 DEF PoolInv

\* A step of a child that touches neither the trees nor its signal.
LEMMA PlaceKeeps ==
  ASSUME PoolInv, NEW c \in Children,
         NEW p \in {"queued", "preparing", "working", "asking", "leaving", "ended"},
         st' = [st EXCEPT ![c] = p],
         p \in {"working", "asking"} => c \in Working,
         channel' \in [Labels -> Children \cup {None}],
         UNCHANGED <<turn, stopped, kept, forest, fan, home, next, hears, aborted, stops>>
  PROVE  PoolInv'
<1>1. TypeOK'
  BY DEF PoolInv, TypeOK, forest
<1>2. Working' \subseteq Working
  BY DEF Working, PoolInv, TypeOK
<1>3. StopInv'
  BY <1>2, StopKept DEF PoolInv, StopInv, forest
<1> QED
  BY <1>1, <1>3 DEF PoolInv

LEMMA ChildStaysKeeps ==
  ASSUME PoolInv, NEW c \in Children,
         PrepFails(c) \/ Ask(c) \/ Answered(c) \/ LoopEnds(c)
  PROVE  PoolInv'
<1>1. channel \in [Labels -> Children \cup {None}]
  BY DEF PoolInv, TypeOK
<1>2. CASE PrepFails(c)
  BY <1>1, <1>2, PlaceKeeps DEF PrepFails
<1>3. CASE Ask(c)
  BY <1>1, <1>3, PlaceKeeps DEF Ask, Working
<1>4. CASE Answered(c)
  BY <1>1, <1>4, PlaceKeeps DEF Answered, Working
<1>5. CASE LoopEnds(c)
  <2>1. channel' \in [Labels -> Children \cup {None}]
    BY <1>1, <1>5 DEF LoopEnds
  <2> QED
    BY <2>1, <1>5, PlaceKeeps DEF LoopEnds
<1> QED
  BY <1>2, <1>3, <1>4, <1>5

LEMMA ChildEndsKeeps ==
  ASSUME PoolInv, NEW c \in Children, ChildEnds(c)
  PROVE  PoolInv'
<1> DEFINE f == c[1]
           l == Label(c)
           taken == Taken(f)
           named == {Label(d) : d \in taken}
           last == taken = {} /\ \A d \in Batchmates(f) \ {c} : st[d] = "ended"
<1>1. /\ st' = [d \in Children |-> IF d = c THEN "ended"
                                   ELSE IF d \in taken THEN "preparing" ELSE st[d]]
      /\ finished' = finished \cup NodeOfEnd(l)
      /\ Plant(named)
      /\ nodeOf' = [k \in Labels |-> IF k \in named THEN turn
                                     ELSE IF k = l THEN 0 ELSE nodeOf[k]]
      /\ next' = [next EXCEPT ![f] = @ + 1]
      /\ fan' = IF last THEN [fan EXCEPT ![f] = "back"] ELSE fan
      /\ kept' = IF last /\ fan[f] = "loose" THEN kept \ {home[f]} ELSE kept
      /\ UNCHANGED <<turn, stopped, channel, home, hears, aborted, stops>>
  BY DEF ChildEnds
<1>2. l \in Labels /\ f \in Fanouts
  BY ChildFacts
<1>3. taken \subseteq Children /\ named \in SUBSET Labels
  BY <1>2, BatchFacts DEF Taken
<1>4. NodeOfEnd(l) \subseteq nodes
  BY <1>2 DEF NodeOfEnd, PoolInv, StopInv
<1> HIDE DEF f, l, taken, named, last
<1>5. /\ nodes \subseteq nodes' /\ nodes' \subseteq (1..turn) \X Labels
      /\ killed \subseteq killed' /\ killed' \subseteq nodes'
      /\ \A n \in nodes : n \in killed' => n \in killed
      /\ \A n \in nodes' : n[1] \in stopped => n \in killed'
      /\ \A k \in named : <<turn, k>> \in nodes'
  BY <1>1, <1>3, PlantFacts
<1>6. TypeOK'
  <2>1. next' \in [Fanouts -> Nat \ {0}] /\ fan' \in [Fanouts -> {"none", "coupled", "loose", "back"}]
    BY <1>1, <1>2 DEF PoolInv, TypeOK
  <2>2. nodeOf' \in [Labels -> 0..turn]
        /\ st' \in [Children -> {"queued", "preparing", "working", "asking", "leaving", "ended"}]
    BY <1>1 DEF PoolInv, TypeOK
  <2>3. finished' \subseteq nodes' /\ kept' \subseteq 1..turn
    BY <1>1, <1>4, <1>5 DEF PoolInv, TypeOK
  <2> QED
    BY <1>1, <1>5, <2>1, <2>2, <2>3 DEF PoolInv, TypeOK
<1>7. \A k \in Labels : nodeOf'[k] # 0 => <<nodeOf'[k], k>> \in nodes'
  BY <1>1, <1>5 DEF PoolInv, StopInv
<1>8. Working' \subseteq Working
  BY <1>1 DEF Working
<1>9. StopInv'
  BY <1>1, <1>5, <1>7, <1>8, StopKept
<1> QED
  BY <1>6, <1>9 DEF PoolInv

-----------------------------------------------------------------------------
LEMMA NextKeeps == PoolInv /\ [Next]_vars => PoolInv'
<1> SUFFICES ASSUME PoolInv, [Next]_vars PROVE PoolInv'
  OBVIOUS
<1>1. CASE NewTurn
  BY <1>1, NewTurnKeeps
<1>2. CASE StopAll
  BY <1>2, StopAllKeeps
<1>3. ASSUME NEW f \in Fanouts, Detach(f) PROVE PoolInv'
  BY <1>3, DetachKeeps
<1>4. ASSUME NEW f \in Fanouts, NEW wait \in BOOLEAN, Spawn(f, wait) PROVE PoolInv'
  BY <1>4, SpawnKeeps
<1>5. ASSUME NEW n \in nodes, StopOne(n) PROVE PoolInv'
  BY <1>5, StopOneKeeps
<1>6. ASSUME NEW c \in Children, Enter(c) PROVE PoolInv'
  BY <1>6, EnterKeeps
<1>7. ASSUME NEW c \in Children, PrepFails(c) \/ Ask(c) \/ Answered(c) \/ LoopEnds(c)
      PROVE  PoolInv'
  BY <1>7, ChildStaysKeeps
<1>8. ASSUME NEW c \in Children, ChildEnds(c) PROVE PoolInv'
  BY <1>8, ChildEndsKeeps
<1>9. CASE UNCHANGED vars
  BY <1>9 DEF PoolInv, TypeOK, StopInv, Working, Label, vars, forest
<1> QED
  BY <1>1, <1>2, <1>3, <1>4, <1>5, <1>6, <1>7, <1>8, <1>9 DEF Next

LEMMA PoolInvHolds == Spec => []PoolInv
<1> QED
  BY InitPool, NextKeeps, PTL DEF Spec

\* Every value stays in its type, for any number of calls, profiles and workers.
THEOREM PoolTypeCorrect == Spec => []TypeOK
<1>1. PoolInv => TypeOK
  BY DEF PoolInv
<1> QED
  BY <1>1, PoolInvHolds, PTL

\* F8 reaches everyone who listens to a node of a tree it stopped, at whatever
\* point of its life the child was: the nodes of a stopped tree are all aborted
\* (also those made later), a child looks at its node's signal when it starts to
\* listen, and from then on every abort of that node reaches it.
THEOREM StoppedStaysDown == Spec => []StoppedTreeStaysDown
<1>1. ASSUME PoolInv, NEW c \in Working, hears[c] \in stopped
      PROVE  c \in aborted
  <2>1. <<hears[c], Label(c)>> \in nodes /\ <<hears[c], Label(c)>>[1] = hears[c]
    BY <1>1 DEF PoolInv, StopInv
  <2>2. <<hears[c], Label(c)>> \in killed
    BY <1>1, <2>1 DEF PoolInv, StopInv
  <2> QED
    BY <1>1, <2>2 DEF PoolInv, StopInv
<1>2. PoolInv => StoppedTreeStaysDown
  BY <1>1 DEF StoppedTreeStaysDown
<1> QED
  BY <1>2, PoolInvHolds, PTL

-----------------------------------------------------------------------------
\* The queue of a call is what its workers have not taken, and the one node of a
\* label that one profile alone carries follows that profile's child: there is
\* none before it is announced, the registered one while it lives, and only
\* terminal ones after.
QueueInv ==
  \A c \in Children :
    st[c] = "queued" <=> (fan[c[1]] = "none" \/ c[2] >= next[c[1]])
SoleInv ==
  \A c \in Children : Sole(c) =>
    \A n \in nodes : n[2] = Label(c) =>
      /\ st[c] # "queued"
      /\ Alive(c) => nodeOf[Label(c)] = n[1]
      /\ st[c] = "ended" => n \in finished
NodeInv ==
  \A c \in Children : Sole(c) /\ Alive(c) => nodeOf[Label(c)] # 0
GhostInv == PoolInv /\ QueueInv /\ SoleInv /\ NodeInv

LEMMA InitGhost == Init => QueueInv /\ SoleInv /\ NodeInv
BY DEF Init, QueueInv, SoleInv, NodeInv, Alive, Live, Children

\* Steps that announce no child, close no node and forget none.
LEMMA QuietKeeps ==
  ASSUME GhostInv,
         nodes' = nodes, nodeOf' = nodeOf, next' = next, finished \subseteq finished',
         \A f \in Fanouts : fan'[f] = "none" <=> fan[f] = "none",
         \A c \in Children : st'[c] = st[c] \/ (st[c] \in Live /\ st'[c] \in Live)
  PROVE  (QueueInv /\ SoleInv /\ NodeInv)'
<1>1. QueueInv'
  <2> SUFFICES ASSUME NEW c \in Children
               PROVE  st'[c] = "queued" <=> (fan'[c[1]] = "none" \/ c[2] >= next'[c[1]])
    BY DEF QueueInv
  <2>1. st[c] = "queued" <=> (fan[c[1]] = "none" \/ c[2] >= next[c[1]])
    BY DEF GhostInv, QueueInv
  <2>2. st'[c] = "queued" <=> st[c] = "queued"
    BY DEF Live
  <2> QED
    BY <2>1, <2>2, ChildFacts
<1>2. SoleInv'
  <2> SUFFICES ASSUME NEW c \in Children, Sole(c), NEW n \in nodes, n[2] = Label(c)
               PROVE  /\ st'[c] # "queued"
                      /\ st'[c] \in Live => nodeOf'[Label(c)] = n[1]
                      /\ st'[c] = "ended" => n \in finished'
    BY DEF SoleInv, Sole, Label, Alive
  <2>1. /\ st[c] # "queued"
        /\ Alive(c) => nodeOf[Label(c)] = n[1]
        /\ st[c] = "ended" => n \in finished
    BY DEF GhostInv, SoleInv
  <2> QED
    BY <2>1 DEF Alive, Live
<1>3. NodeInv'
  <2> SUFFICES ASSUME NEW c \in Children, Sole(c), st'[c] \in Live
               PROVE  nodeOf'[Label(c)] # 0
    BY DEF NodeInv, Sole, Label, Alive
  <2>1. Alive(c)
    BY DEF Alive
  <2> QED
    BY <2>1 DEF GhostInv, NodeInv
<1> QED
  BY <1>1, <1>2, <1>3

LEMMA QuietSteps ==
  ASSUME GhostInv,
         \/ NewTurn \/ StopAll
         \/ \E f \in Fanouts : Detach(f)
         \/ \E n \in nodes : StopOne(n)
         \/ \E c \in Children : PrepFails(c) \/ Ask(c) \/ Answered(c) \/ LoopEnds(c)
  PROVE  (QueueInv /\ SoleInv /\ NodeInv)'
<1>1. CASE NewTurn
  BY <1>1, QuietKeeps DEF NewTurn, forest, Alive
<1>2. CASE StopAll
  <2>1. \A f \in Fanouts : fan'[f] = "none" <=> fan[f] = "none"
    BY <1>2 DEF StopAll, GhostInv, PoolInv, TypeOK
  <2>2. nodes' = nodes /\ nodeOf' = nodeOf /\ next' = next /\ st' = st
        /\ finished \subseteq finished'
    BY <1>2 DEF StopAll, Kill
  <2> QED
    BY <2>1, <2>2, QuietKeeps DEF Alive
<1>3. ASSUME NEW f \in Fanouts, Detach(f) PROVE (QueueInv /\ SoleInv /\ NodeInv)'
  <2>1. \A g \in Fanouts : fan'[g] = "none" <=> fan[g] = "none"
    BY <1>3 DEF Detach, GhostInv, PoolInv, TypeOK
  <2> QED
    BY <2>1, <1>3, QuietKeeps DEF Detach, forest, Alive
<1>4. ASSUME NEW n \in nodes, StopOne(n) PROVE (QueueInv /\ SoleInv /\ NodeInv)'
  <2>1. nodes' = nodes /\ nodeOf' = nodeOf /\ next' = next /\ st' = st /\ fan' = fan
        /\ finished \subseteq finished'
    BY <1>4 DEF StopOne, Kill
  <2> QED
    BY <2>1, QuietKeeps DEF Alive
<1>5. ASSUME NEW c \in Children, PrepFails(c) \/ Ask(c) \/ Answered(c) \/ LoopEnds(c)
      PROVE  (QueueInv /\ SoleInv /\ NodeInv)'
  <2>1. /\ nodes' = nodes /\ nodeOf' = nodeOf /\ next' = next /\ fan' = fan
        /\ finished' = finished
        /\ st[c] \in Live /\ \E p \in Live : st' = [st EXCEPT ![c] = p]
    BY <1>5 DEF PrepFails, Ask, Answered, LoopEnds, forest, Live
  <2>2. \A d \in Children : st'[d] = st[d] \/ (st[d] \in Live /\ st'[d] \in Live)
    BY <2>1 DEF GhostInv, PoolInv, TypeOK
  <2> QED
    BY <2>1, <2>2, QuietKeeps
<1> QED
  BY <1>1, <1>2, <1>3, <1>4, <1>5

\* A child whose label is its own has its node when it begins to work.
LEMMA EnterGhosts ==
  ASSUME GhostInv, NEW c \in Children, Enter(c)
  PROVE  (QueueInv /\ SoleInv /\ NodeInv)'
<1>1. /\ st[c] = "preparing" /\ st' = [st EXCEPT ![c] = "working"]
      /\ IF nodeOf[Label(c)] # 0 THEN UNCHANGED <<nodes, killed>> ELSE Plant({Label(c)})
      /\ UNCHANGED <<finished, nodeOf, fan, next>>
  BY DEF Enter
<1>2. \A d \in Children : st'[d] = st[d] \/ (st[d] \in Live /\ st'[d] \in Live)
  BY <1>1 DEF Live, GhostInv, PoolInv, TypeOK
<1>3. CASE nodeOf[Label(c)] # 0
  BY <1>1, <1>2, <1>3, QuietKeeps
<1>4. CASE nodeOf[Label(c)] = 0
  <2>1. ~Sole(c)
    BY <1>1, <1>4 DEF GhostInv, NodeInv, Alive, Live
  <2>2. \A d \in Children : Sole(d) => Label(d) # Label(c)
    BY <2>1 DEF Sole
  <2>3. \A n \in nodes' : n \in nodes \/ n[2] = Label(c)
    BY <1>1, <1>4 DEF Plant
  <2>4. QueueInv'
    BY <1>1, <1>2 DEF GhostInv, QueueInv
  <2>5. SoleInv'
    <3> SUFFICES ASSUME NEW d \in Children, Sole(d), NEW n \in nodes', n[2] = Label(d)
                 PROVE  /\ st'[d] # "queued"
                        /\ st'[d] \in Live => nodeOf'[Label(d)] = n[1]
                        /\ st'[d] = "ended" => n \in finished'
      BY DEF SoleInv, Sole, Label, Alive
    <3>1. n \in nodes
      BY <2>2, <2>3
    <3>2. /\ st[d] # "queued"
          /\ Alive(d) => nodeOf[Label(d)] = n[1]
          /\ st[d] = "ended" => n \in finished
      BY <3>1 DEF GhostInv, SoleInv
    <3> QED
      BY <1>1, <1>2, <3>2 DEF Alive, Live
  <2>6. NodeInv'
    <3> SUFFICES ASSUME NEW d \in Children, Sole(d), st'[d] \in Live PROVE nodeOf'[Label(d)] # 0
      BY DEF NodeInv, Sole, Label, Alive
    <3> QED
      BY <1>1, <1>2 DEF GhostInv, NodeInv, Alive, Live
  <2> QED
    BY <2>4, <2>5, <2>6
<1> QED
  BY <1>3, <1>4

\* Children that were queued are announced: each label of theirs gets its node in
\* the current tree, and no node of another label is touched.
LEMMA AnnounceKeeps ==
  ASSUME GhostInv, NEW S \in SUBSET Children,
         \A d \in S : st[d] = "queued" /\ st'[d] = "preparing",
         Plant({Label(d) : d \in S}), finished \subseteq finished',
         NEW c \in Children, Sole(c),
         c \in S \/ (st'[c] = st[c] /\ nodeOf'[Label(c)] = nodeOf[Label(c)]),
         c \in S => nodeOf'[Label(c)] = turn
  PROVE  /\ \A n \in nodes' : n[2] = Label(c) =>
              /\ st'[c] # "queued"
              /\ st'[c] \in Live => nodeOf'[Label(c)] = n[1]
              /\ st'[c] = "ended" => n \in finished'
         /\ st'[c] \in Live => nodeOf'[Label(c)] # 0
<1>1. /\ \A n \in nodes : n[2] = Label(c) =>
           /\ st[c] # "queued"
           /\ st[c] \in Live => nodeOf[Label(c)] = n[1]
           /\ st[c] = "ended" => n \in finished
      /\ st[c] \in Live => nodeOf[Label(c)] # 0
      /\ turn # 0
  BY DEF GhostInv, SoleInv, NodeInv, Alive, PoolInv, TypeOK
<1>2. \A d \in S : Label(d) = Label(c) => d = c
  BY DEF Sole
<1>3. \A n \in nodes' : n \in nodes \/ (n[1] = turn /\ \E d \in S : n[2] = Label(d))
  BY DEF Plant
<1>4. CASE c \in S
  <2>1. \A n \in nodes' : n[2] = Label(c) => n[1] = turn
    BY <1>1, <1>3, <1>4
  <2> QED
    BY <1>1, <1>4, <2>1
<1>5. CASE c \notin S
  <2>1. \A n \in nodes' : n[2] = Label(c) => n \in nodes
    BY <1>2, <1>3, <1>5
  <2> QED
    BY <1>1, <1>5, <2>1
<1> QED
  BY <1>4, <1>5

LEMMA SpawnGhosts ==
  ASSUME GhostInv, NEW f \in Fanouts, NEW wait \in BOOLEAN, Spawn(f, wait)
  PROVE  (QueueInv /\ SoleInv /\ NodeInv)'
<1> DEFINE first == {c \in Batchmates(f) : c[2] <= WorkerCount(f)}
           named == {Label(c) : c \in first}
<1>1. /\ fan[f] = "none"
      /\ st' = [c \in Children |-> IF c \in first THEN "preparing" ELSE st[c]]
      /\ next' = [next EXCEPT ![f] = WorkerCount(f) + 1]
      /\ Plant(named)
      /\ nodeOf' = [l \in Labels |-> IF l \in named THEN turn ELSE nodeOf[l]]
      /\ \E p \in {"coupled", "loose"} : fan' = [fan EXCEPT ![f] = p]
      /\ finished' = finished
  BY DEF Spawn
<1>2. /\ first \in SUBSET Children
      /\ \A c \in Children : c \in first <=> c[1] = f /\ c[2] <= WorkerCount(f)
  BY BatchFacts DEF Batchmates, Children
<1>3. WorkerCount(f) \in Nat /\ \A c \in Children : c[2] \in Nat /\ c[1] \in Fanouts
  BY BatchFacts, BatchAssumption DEF Children
<1>4. \A d \in first : st[d] = "queued" /\ st'[d] = "preparing"
  BY <1>1, <1>2 DEF GhostInv, QueueInv
<1>5. QueueInv'
  <2> SUFFICES ASSUME NEW c \in Children
               PROVE  st'[c] = "queued" <=> (fan'[c[1]] = "none" \/ c[2] >= next'[c[1]])
    BY DEF QueueInv
  <2>1. st[c] = "queued" <=> (fan[c[1]] = "none" \/ c[2] >= next[c[1]])
    BY DEF GhostInv, QueueInv
  <2>2. CASE c[1] = f
    <3>1. fan'[f] # "none" /\ next'[f] = WorkerCount(f) + 1
      BY <1>1 DEF GhostInv, PoolInv, TypeOK
    <3>2. st[c] = "queued"
      BY <1>1, <2>1, <2>2
    <3>3. st'[c] = "queued" <=> ~(c[2] <= WorkerCount(f))
      BY <1>1, <1>2, <2>2, <3>2
    <3> QED
      BY <1>3, <2>2, <3>1, <3>3
  <2>3. CASE c[1] # f
    BY <1>1, <1>2, <2>1, <2>3 DEF GhostInv, PoolInv, TypeOK
  <2> QED
    BY <2>2, <2>3
<1>6. ASSUME NEW c \in Children, Sole(c)
      PROVE  /\ \A n \in nodes' : n[2] = Label(c) =>
                  /\ st'[c] # "queued"
                  /\ st'[c] \in Live => nodeOf'[Label(c)] = n[1]
                  /\ st'[c] = "ended" => n \in finished'
             /\ st'[c] \in Live => nodeOf'[Label(c)] # 0
  <2>1. Label(c) \in Labels
    BY ChildFacts
  <2>2. c \notin first => Label(c) \notin named
    BY <1>2, <1>6 DEF Sole
  <2>3. c \in first \/ (st'[c] = st[c] /\ nodeOf'[Label(c)] = nodeOf[Label(c)])
    BY <1>1, <2>1, <2>2
  <2>4. c \in first => nodeOf'[Label(c)] = turn
    BY <1>1, <2>1
  <2> HIDE DEF first
  <2> QED
    BY <1>1, <1>2, <1>4, <1>6, <2>3, <2>4, AnnounceKeeps
<1>7. SoleInv' /\ NodeInv'
  BY <1>6 DEF SoleInv, NodeInv, Sole, Label, Alive
<1> QED
  BY <1>5, <1>7

LEMMA ChildEndsGhosts ==
  ASSUME GhostInv, NEW e \in Children, ChildEnds(e)
  PROVE  (QueueInv /\ SoleInv /\ NodeInv)'
<1> DEFINE f == e[1]
           l == Label(e)
           taken == Taken(f)
           named == {Label(d) : d \in taken}
<1>1. /\ st[e] = "leaving"
      /\ st' = [d \in Children |-> IF d = e THEN "ended"
                                   ELSE IF d \in taken THEN "preparing" ELSE st[d]]
      /\ finished' = finished \cup NodeOfEnd(l)
      /\ Plant(named)
      /\ nodeOf' = [k \in Labels |-> IF k \in named THEN turn
                                     ELSE IF k = l THEN 0 ELSE nodeOf[k]]
      /\ next' = [next EXCEPT ![f] = @ + 1]
      /\ fan' = fan \/ fan' = [fan EXCEPT ![f] = "back"]
  BY DEF ChildEnds
<1>2. /\ taken \in SUBSET Children
      /\ \A c \in Children : c \in taken <=> c[1] = f /\ c[2] = next[f]
  BY ChildFacts, BatchFacts DEF Taken, Batchmates, Children
<1>3. /\ f \in Fanouts /\ next[f] \in Nat /\ fan[f] # "none"
      /\ \A c \in Children : c[2] \in Nat /\ c[1] \in Fanouts
  <2>1. f \in Fanouts /\ next[f] \in Nat
    BY ChildFacts DEF GhostInv, PoolInv, TypeOK
  <2>2. fan[f] # "none"
    BY <1>1 DEF GhostInv, QueueInv
  <2>3. \A c \in Children : c[2] \in Nat /\ c[1] \in Fanouts
    BY BatchAssumption DEF Children
  <2> QED
    BY <2>1, <2>2, <2>3
<1>4. \A d \in taken : st[d] = "queued" /\ st'[d] = "preparing"
  BY <1>1, <1>2, <1>3 DEF GhostInv, QueueInv
<1> HIDE DEF taken, f
<1>5. QueueInv'
  <2> SUFFICES ASSUME NEW c \in Children
               PROVE  st'[c] = "queued" <=> (fan'[c[1]] = "none" \/ c[2] >= next'[c[1]])
    BY DEF QueueInv
  <2>1. st[c] = "queued" <=> (fan[c[1]] = "none" \/ c[2] >= next[c[1]])
    BY DEF GhostInv, QueueInv
  <2>2. fan'[c[1]] = "none" <=> fan[c[1]] = "none"
    BY <1>1, <1>3 DEF GhostInv, PoolInv, TypeOK
  <2>3. next'[c[1]] = IF c[1] = f THEN next[f] + 1 ELSE next[c[1]]
    BY <1>1, <1>3 DEF GhostInv, PoolInv, TypeOK
  <2>4. st'[c] = "queued" <=> st[c] = "queued" /\ c \notin taken
    BY <1>1
  <2>5. CASE c[1] = f
    BY <1>2, <1>3, <2>1, <2>2, <2>3, <2>4, <2>5
  <2>6. CASE c[1] # f
    BY <1>2, <2>1, <2>2, <2>3, <2>4, <2>6
  <2> QED
    BY <2>5, <2>6
<1>6. ASSUME NEW c \in Children, Sole(c)
      PROVE  /\ \A n \in nodes' : n[2] = Label(c) =>
                  /\ st'[c] # "queued"
                  /\ st'[c] \in Live => nodeOf'[Label(c)] = n[1]
                  /\ st'[c] = "ended" => n \in finished'
             /\ st'[c] \in Live => nodeOf'[Label(c)] # 0
  <2>1. Label(c) \in Labels
    BY ChildFacts
  <2>2. c \notin taken => Label(c) \notin named
    BY <1>2, <1>6 DEF Sole
  <2>3. CASE c = e
    <3>1. Label(c) \notin named
      BY <1>1, <1>4, <2>2, <2>3
    <3>2. nodeOf[Label(c)] # 0 /\ \A n \in nodes : n[2] = Label(c) => nodeOf[Label(c)] = n[1]
      BY <1>1, <1>6, <2>3 DEF GhostInv, SoleInv, NodeInv, Alive, Live
    <3>3. \A n \in nodes' : n[2] = Label(c) => n \in nodes
      BY <1>1, <3>1 DEF Plant
    <3>4. \A n \in nodes : n[2] = Label(c) => n \in NodeOfEnd(l)
      <4> SUFFICES ASSUME NEW n \in nodes, n[2] = Label(c) PROVE n \in NodeOfEnd(l)
        OBVIOUS
      <4>1. n = <<n[1], n[2]>>
        BY DEF GhostInv, PoolInv, TypeOK
      <4> QED
        BY <2>3, <3>2, <4>1 DEF NodeOfEnd
    <3> QED
      BY <1>1, <2>3, <3>3, <3>4 DEF Live
  <2>4. CASE c # e
    <3>1. Label(c) # l
      BY <1>6, <2>4 DEF Sole
    <3>2. c \in taken \/ (st'[c] = st[c] /\ nodeOf'[Label(c)] = nodeOf[Label(c)])
      BY <1>1, <2>1, <2>2, <2>4, <3>1
    <3>3. c \in taken => nodeOf'[Label(c)] = turn
      BY <1>1, <2>1
    <3>4. Plant(named) /\ finished \subseteq finished'
      BY <1>1
    <3> QED
      BY <1>2, <1>4, <1>6, <3>2, <3>3, <3>4, AnnounceKeeps
  <2> QED
    BY <2>3, <2>4
<1>7. SoleInv' /\ NodeInv'
  BY <1>6 DEF SoleInv, NodeInv, Sole, Label, Alive
<1> QED
  BY <1>5, <1>7

LEMMA GhostInvHolds == Spec => []GhostInv
<1>1. Init => GhostInv
  BY InitPool, InitGhost DEF GhostInv
<1>2. GhostInv /\ [Next]_vars => GhostInv'
  <2> SUFFICES ASSUME GhostInv, [Next]_vars PROVE GhostInv'
    OBVIOUS
  <2>1. PoolInv'
    BY NextKeeps DEF GhostInv
  <2>2. ASSUME NEW c \in Children, Enter(c) PROVE (QueueInv /\ SoleInv /\ NodeInv)'
    BY <2>2, EnterGhosts
  <2>3. ASSUME NEW f \in Fanouts, NEW wait \in BOOLEAN, Spawn(f, wait)
        PROVE  (QueueInv /\ SoleInv /\ NodeInv)'
    BY <2>3, SpawnGhosts
  <2>4. ASSUME NEW c \in Children, ChildEnds(c) PROVE (QueueInv /\ SoleInv /\ NodeInv)'
    BY <2>4, ChildEndsGhosts
  <2>5. ASSUME \/ NewTurn \/ StopAll
               \/ \E f \in Fanouts : Detach(f)
               \/ \E n \in nodes : StopOne(n)
               \/ \E c \in Children : PrepFails(c) \/ Ask(c) \/ Answered(c) \/ LoopEnds(c)
        PROVE  (QueueInv /\ SoleInv /\ NodeInv)'
    BY <2>5, QuietSteps
  <2>6. ASSUME UNCHANGED vars PROVE (QueueInv /\ SoleInv /\ NodeInv)'
    BY <2>6, QuietKeeps DEF vars, forest
  <2>7. (QueueInv /\ SoleInv /\ NodeInv)'
    BY <2>2, <2>3, <2>4, <2>5, <2>6 DEF Next
  <2> QED
    BY <2>1, <2>7 DEF GhostInv
<1> QED
  BY <1>1, <1>2, PTL DEF Spec

\* An agent the session counts as at work is at work, whatever the order in which
\* turns begin and children end, for labels that one profile alone carries.
THEOREM NoGhostsHolds == Spec => []NoGhosts
<1>1. GhostInv => NoGhosts
  <2> SUFFICES ASSUME GhostInv, NEW n \in nodes \ finished, NEW c \in Children,
                      Label(c) = n[2], Sole(c)
               PROVE  Alive(c)
    BY DEF NoGhosts
  <2>1. st[c] # "queued" /\ st[c] # "ended"
    BY DEF GhostInv, SoleInv
  <2> QED
    BY <2>1 DEF GhostInv, PoolInv, TypeOK, Alive, Live
<1> QED
  BY <1>1, GhostInvHolds, PTL

-----------------------------------------------------------------------------
\* A child's channel is lost to a younger child of its label or to its own end,
\* to nothing else: only Enter gives a channel away, and only its holder closes it.
THEOREM ChannelsAreKept == Spec => ChannelKept
<1> DEFINE Kept == \A c \in Working : channel[Label(c)] = c /\ c \in Working' =>
                     \/ channel'[Label(c)] = c
                     \/ \E d \in Children : channel'[Label(c)] = d /\ st[d] = "preparing"
<1>1. PoolInv /\ [Next]_vars => [Kept]_vars
  <2> SUFFICES ASSUME PoolInv, [Next]_vars, NEW c \in Working,
                      channel[Label(c)] = c, c \in Working'
               PROVE  \/ channel'[Label(c)] = c
                      \/ \E d \in Children : channel'[Label(c)] = d /\ st[d] = "preparing"
    OBVIOUS
  <2>1. c \in Children /\ Label(c) \in Labels /\ channel \in [Labels -> Children \cup {None}]
    BY ChildFacts DEF Working, PoolInv, TypeOK
  <2>2. ASSUME NEW d \in Children, Enter(d)
        PROVE  channel'[Label(c)] = c \/ (channel'[Label(c)] = d /\ st[d] = "preparing")
    BY <2>1, <2>2 DEF Enter
  <2>3. ASSUME NEW d \in Children, LoopEnds(d) PROVE channel'[Label(c)] = c
    <3>1. d # c
      BY <2>3 DEF LoopEnds, Working, PoolInv, TypeOK
    <3> QED
      BY <2>1, <2>3, <3>1 DEF LoopEnds
  <2>4. CASE \/ NewTurn \/ StopAll \/ UNCHANGED vars
             \/ \E f \in Fanouts : Detach(f) \/ \E wait \in BOOLEAN : Spawn(f, wait)
             \/ \E n \in nodes : StopOne(n)
             \/ \E d \in Children : PrepFails(d) \/ Ask(d) \/ Answered(d) \/ ChildEnds(d)
    BY <2>4 DEF NewTurn, StopAll, vars, Detach, Spawn, StopOne, PrepFails, Ask, Answered, ChildEnds
  <2> QED
    BY <2>2, <2>3, <2>4 DEF Next
<1> QED
  BY <1>1, PoolInvHolds, PTL DEF Spec, ChannelKept

-----------------------------------------------------------------------------
(* The workers of a call *)

\* The profiles of a call that a worker has in hand.
InHand(f) == {i \in DOMAIN Batch[f] : Alive(<<f, i>>)}
UnderWay(f) == fan[f] \in {"coupled", "loose"}

\* As long as profiles are left every worker has one in hand; from then on each end of a child
\* is the end of a worker, and the call is back with the last of them.
WorkersOf(f) ==
  /\ UnderWay(f) =>
       /\ Cardinality(InHand(f)) >= 1
       /\ Cardinality(InHand(f)) =
            IF next[f] <= Len(Batch[f]) + 1 THEN WorkerCount(f)
            ELSE Len(Batch[f]) + WorkerCount(f) + 1 - next[f]
  /\ fan[f] = "back" => InHand(f) = {} /\ next[f] = Len(Batch[f]) + WorkerCount(f) + 1

WorkInv == \A f \in Fanouts : WorkersOf(f)

\* How far a child has come.
PlaceOf(s) ==
  IF s = "queued" THEN 0 ELSE IF s = "preparing" THEN 1
  ELSE IF s \in {"working", "asking"} THEN 2 ELSE IF s = "leaving" THEN 3 ELSE 4

LEMMA PlaceRanks ==
  /\ PlaceOf("queued") = 0 /\ PlaceOf("preparing") = 1 /\ PlaceOf("working") = 2
  /\ PlaceOf("asking") = 2 /\ PlaceOf("leaving") = 3 /\ PlaceOf("ended") = 4
BY DEF PlaceOf

LEMMA BatchSize ==
  ASSUME NEW f \in Fanouts
  PROVE  /\ Len(Batch[f]) \in Nat \ {0} /\ DOMAIN Batch[f] = 1..Len(Batch[f])
         /\ WorkerCount(f) \in 1..Len(Batch[f]) /\ WorkerCount(f) <= MaxConcurrency
         /\ \A i \in DOMAIN Batch[f] : <<f, i>> \in Children /\ <<f, i>> \in Batchmates(f)
BY PoolAssumption, BatchAssumption DEF WorkerCount, Children, Batchmates

LEMMA InHandFinite ==
  ASSUME NEW f \in Fanouts
  PROVE  /\ IsFiniteSet(InHand(f)) /\ Cardinality(InHand(f)) \in Nat
         /\ InHand(f) # {} <=> Cardinality(InHand(f)) >= 1
<1>1. IsFiniteSet(DOMAIN Batch[f])
  BY BatchSize, FS_Interval
<1>2. IsFiniteSet(InHand(f))
  BY <1>1, FS_Subset DEF InHand
<1>3. Cardinality(InHand(f)) \in Nat /\ (Cardinality(InHand(f)) = 0 <=> InHand(f) = {})
  BY <1>2, FS_CardinalityType, FS_EmptySet
<1> QED
  BY <1>2, <1>3

\* A step after which the same profiles are in hand.
LEMMA SameHands ==
  ASSUME NEW f \in Fanouts, WorkersOf(f), next'[f] = next[f],
         fan'[f] = fan[f] \/ (fan[f] = "coupled" /\ fan'[f] = "loose"),
         \A i \in DOMAIN Batch[f] : st'[<<f, i>>] \in Live <=> st[<<f, i>>] \in Live
  PROVE  WorkersOf(f)'
<1>1. InHand(f)' = InHand(f)
  BY DEF InHand, Alive
<1> QED
  BY <1>1 DEF WorkersOf, UnderWay, WorkerCount

\* The call begins: each worker has taken a profile.
LEMMA SpawnHands ==
  ASSUME GhostInv, WorkInv, NEW f \in Fanouts, NEW wait \in BOOLEAN, Spawn(f, wait)
  PROVE  WorkInv'
<1> DEFINE first == {c \in Batchmates(f) : c[2] <= WorkerCount(f)}
<1>1. /\ fan[f] = "none"
      /\ st' = [c \in Children |-> IF c \in first THEN "preparing" ELSE st[c]]
      /\ next' = [next EXCEPT ![f] = WorkerCount(f) + 1]
      /\ \E p \in {"coupled", "loose"} : fan' = [fan EXCEPT ![f] = p]
  BY DEF Spawn
<1>2. \A c : c \in first => c[1] = f
  BY DEF Batchmates
<1>3. \A i \in DOMAIN Batch[f] : <<f, i>> \in first <=> i <= WorkerCount(f)
  BY BatchSize
<1> HIDE DEF first
<1>4. ASSUME NEW g \in Fanouts, g # f
      PROVE  WorkersOf(g)'
  <2>1. \A i \in DOMAIN Batch[g] : st'[<<g, i>>] = st[<<g, i>>]
    <3> SUFFICES ASSUME NEW i \in DOMAIN Batch[g] PROVE st'[<<g, i>>] = st[<<g, i>>]
      OBVIOUS
    <3>1. <<g, i>> \in Children /\ <<g, i>> \notin first
      BY <1>2, <1>4, BatchSize
    <3> QED
      BY <1>1, <3>1
  <2>2. next'[g] = next[g] /\ fan'[g] = fan[g]
    BY <1>1, <1>4 DEF GhostInv, PoolInv, TypeOK
  <2> QED
    BY <2>1, <2>2, SameHands DEF WorkInv
<1>5. InHand(f)' = 1..WorkerCount(f)
  <2>1. \A i \in DOMAIN Batch[f] : st[<<f, i>>] = "queued"
    BY <1>1, BatchSize DEF GhostInv, QueueInv
  <2>2. \A i \in DOMAIN Batch[f] : st'[<<f, i>>] \in Live <=> i <= WorkerCount(f)
    BY <1>1, <1>3, <2>1, BatchSize DEF Live
  <2> QED
    BY <2>2, BatchSize DEF InHand, Alive
<1>6. Cardinality(InHand(f)') = WorkerCount(f)
  BY <1>5, BatchSize, FS_Interval
<1>7. next'[f] = WorkerCount(f) + 1 /\ fan'[f] # "back"
  BY <1>1 DEF GhostInv, PoolInv, TypeOK
<1>8. WorkersOf(f)'
  BY <1>6, <1>7, BatchSize DEF WorkersOf, WorkerCount
<1> QED
  BY <1>4, <1>8 DEF WorkInv

\* A child ends: its worker has the next profile, or is done.
LEMMA ChildEndsHands ==
  ASSUME GhostInv, WorkInv, NEW e \in Children, ChildEnds(e)
  PROVE  WorkInv'
<1> DEFINE f == e[1]
           i == e[2]
           n == next[f]
           taken == Taken(f)
           last == taken = {} /\ \A d \in Batchmates(f) \ {e} : st[d] = "ended"
           L == Len(Batch[f])
           W == WorkerCount(f)
           H == InHand(f)
           H2 == InHand(f)'
<1>1. /\ st[e] = "leaving"
      /\ st' = [d \in Children |-> IF d = e THEN "ended"
                                   ELSE IF d \in taken THEN "preparing" ELSE st[d]]
      /\ next' = [next EXCEPT ![f] = @ + 1]
      /\ fan' = IF last THEN [fan EXCEPT ![f] = "back"] ELSE fan
  BY DEF ChildEnds
<1>2. f \in Fanouts /\ i \in DOMAIN Batch[f] /\ e = <<f, i>>
  BY DEF Children
<1>3. \A d \in Children : d \in taken <=> d[1] = f /\ d[2] = n
  BY BatchFacts, <1>2 DEF Taken, Batchmates, Children
<1>4. /\ n \in Nat \ {0} /\ next'[f] = n + 1
      /\ \A g \in Fanouts \ {f} : next'[g] = next[g] /\ fan'[g] = fan[g]
      /\ fan'[f] = IF last THEN "back" ELSE fan[f]
  BY <1>1, <1>2 DEF GhostInv, PoolInv, TypeOK
<1>5. i \in H /\ fan[f] # "none"
  BY <1>1, <1>2 DEF InHand, Alive, Live, GhostInv, QueueInv
<1>6. UnderWay(f)
  BY <1>2, <1>5 DEF WorkInv, WorkersOf, UnderWay, GhostInv, PoolInv, TypeOK
<1>7. /\ DOMAIN Batch[f] = 1..L /\ L \in Nat \ {0} /\ W \in 1..L
      /\ \A j \in 1..L : <<f, j>> \in Children /\ <<f, j>> \in Batchmates(f)
      /\ \A d \in Batchmates(f) : \E j \in 1..L : d = <<f, j>>
  BY <1>2, BatchSize DEF Batchmates
<1>8. \A j \in 1..L : st[<<f, j>>] = "queued" <=> j >= n
  BY <1>5, <1>7 DEF GhostInv, QueueInv
<1>9. IsFiniteSet(H) /\ Cardinality(H) \in Nat /\ Cardinality(H) >= 1
      /\ Cardinality(H) = IF n <= L + 1 THEN W ELSE L + W + 1 - n
  BY <1>2, <1>6, InHandFinite DEF WorkInv, WorkersOf
<1>10. \A j \in 1..L : <<f, j>> \in taken <=> j = n
  BY <1>3, <1>7
<1>11. \A j \in 1..L : j \in H <=> st[<<f, j>>] \in Live
  BY <1>7 DEF InHand, Alive
<1>12. \A j \in 1..L : j \in H2 <=> st'[<<f, j>>] \in Live
  BY <1>7 DEF InHand, Alive
<1>13. H \subseteq 1..L /\ H2 \subseteq 1..L
  BY <1>7 DEF InHand
<1>14. \A g \in Fanouts \ {f} : WorkersOf(g)'
  <2> SUFFICES ASSUME NEW g \in Fanouts, g # f PROVE WorkersOf(g)'
    OBVIOUS
  <2>1. \A j \in DOMAIN Batch[g] : st'[<<g, j>>] = st[<<g, j>>]
    <3> SUFFICES ASSUME NEW j \in DOMAIN Batch[g] PROVE st'[<<g, j>>] = st[<<g, j>>]
      OBVIOUS
    <3>1. <<g, j>> \in Children /\ <<g, j>>[1] = g
      BY BatchSize
    <3> HIDE DEF taken
    <3>2. <<g, j>> # e /\ <<g, j>> \notin taken
      BY <3>1, <1>3, <1>2
    <3> QED
      BY <1>1, <3>1, <3>2
  <2> QED
    BY <2>1, <1>4, SameHands DEF WorkInv
<1>15. taken = {} <=> n > L
  <2>1. taken \subseteq Batchmates(f)
    BY DEF Taken
  <2> HIDE DEF taken, f, n, i
  <2>2. n <= L => <<f, n>> \in taken
    BY <1>4, <1>7, <1>10
  <2>3. taken # {} => n <= L
    <3> SUFFICES ASSUME NEW d \in taken PROVE n <= L
      OBVIOUS
    <3>1. PICK j \in 1..L : d = <<f, j>>
      BY <1>7, <2>1
    <3>2. j = n
      BY <1>10, <3>1
    <3> QED
      BY <3>1, <3>2, <1>7
  <2> QED
    BY <2>2, <2>3, <1>4, <1>7
<1>16. \A j \in 1..L : st'[<<f, j>>] = IF j = i THEN "ended"
                                       ELSE IF j = n THEN "preparing" ELSE st[<<f, j>>]
  <2> HIDE DEF taken, last, f, i, n
  <2> QED
    BY <1>1, <1>2, <1>7, <1>10
<1> HIDE DEF f, i, n, taken, last, L, W, H, H2
<1>17. i \in 1..L /\ n \notin H /\ i # n
  <2>1. i \in 1..L
    BY <1>5, <1>13
  <2>2. n \in H => n \in 1..L /\ st[<<f, n>>] \in Live /\ st[<<f, n>>] = "queued"
    BY <1>4, <1>8, <1>11, <1>13
  <2> QED
    BY <2>1, <2>2, <1>5 DEF Live
<1>18. CASE n <= L
  <2>1. H2 = (H \ {i}) \cup {n}
    <3>1. n \in 1..L
      BY <1>4, <1>7, <1>18
    <3>2. \A j \in 1..L : j \in H2 <=> j # i /\ (j = n \/ j \in H)
      BY <1>11, <1>12, <1>16, <1>17 DEF Live
    <3> QED
      BY <3>1, <3>2, <1>13, <1>17
  <2>2. IsFiniteSet(H \ {i}) /\ Cardinality(H \ {i}) = Cardinality(H) - 1
    BY <1>5, <1>9, FS_RemoveElement
  <2>3. Cardinality(H2) = Cardinality(H)
    <3>1. Cardinality((H \ {i}) \cup {n}) = Cardinality(H \ {i}) + 1
      BY <2>2, <1>17, FS_AddElement
    <3> QED
      BY <3>1, <2>1, <2>2, <1>9
  <2>4. fan'[f] # "back"
    BY <1>4, <1>6, <1>15, <1>7, <1>18 DEF UnderWay, last
  <2>5. Cardinality(H2) = W /\ Cardinality(H2) >= 1
    BY <2>3, <1>9, <1>18, <1>7, <1>4
  <2>6. WorkersOf(f)'
    BY <2>4, <2>5, <1>4, <1>7, <1>18 DEF WorkersOf, WorkerCount, H2, W, L
  <2> QED
    BY <2>6, <1>14 DEF WorkInv
<1>19. CASE n > L
  <2>1. H2 = H \ {i}
    <3>1. \A j \in 1..L : j # n
      BY <1>4, <1>7, <1>19
    <3>2. \A j \in 1..L : j \in H2 <=> j # i /\ j \in H
      BY <3>1, <1>11, <1>12, <1>16, <1>17 DEF Live
    <3> QED
      BY <3>2, <1>13, <1>17
  <2>2. IsFiniteSet(H2) /\ Cardinality(H2) = Cardinality(H) - 1
    BY <2>1, <1>5, <1>9, FS_RemoveElement
  <2>3. \A j \in 1..L : j \in H \/ st[<<f, j>>] = "ended"
    <3> SUFFICES ASSUME NEW j \in 1..L PROVE j \in H \/ st[<<f, j>>] = "ended"
      OBVIOUS
    <3>1. st[<<f, j>>] # "queued" /\ <<f, j>> \in Children
      BY <1>4, <1>7, <1>8, <1>19
    <3>2. st[<<f, j>>] \in {"queued", "preparing", "working", "asking", "leaving", "ended"}
      BY <3>1 DEF GhostInv, PoolInv, TypeOK
    <3> QED
      BY <3>1, <3>2, <1>11 DEF Live
  <2>4. last <=> H2 = {}
    <3>1. ASSUME last PROVE H2 = {}
      <4>1. \A j \in 1..L : j # i => st[<<f, j>>] = "ended"
        BY <3>1, <1>2, <1>7 DEF last
      <4> QED
        BY <4>1, <2>1, <1>11, <1>13 DEF Live
    <3>2. ASSUME H2 = {} PROVE last
      <4>1. \A j \in 1..L : j # i => st[<<f, j>>] = "ended"
        BY <3>2, <2>1, <2>3
      <4> QED
        BY <4>1, <1>2, <1>7, <1>15, <1>19 DEF last
    <3> QED
      BY <3>1, <3>2
  <2>5. H2 = {} <=> Cardinality(H2) = 0
    BY <2>2, FS_EmptySet
  <2>6. Cardinality(H2) = L + W + 1 - (n + 1)
    BY <2>2, <1>9, <1>4, <1>7, <1>19
  <2>7. CASE last
    <3>1. n + 1 = L + W + 1 /\ H2 = {} /\ fan'[f] = "back"
      BY <2>4, <2>5, <2>6, <2>7, <1>4, <1>7
    <3> QED
      BY <3>1, <1>4, <1>14, <1>2 DEF WorkInv, WorkersOf, UnderWay, WorkerCount, H2, W, L
  <2>8. CASE ~last
    <3>1. fan'[f] # "back" /\ Cardinality(H2) >= 1
      BY <2>2, <2>4, <2>5, <2>8, <1>4, <1>6, <1>9 DEF UnderWay
    <3>2. ~(n + 1 <= L + 1) /\ next'[f] = n + 1
      BY <1>4, <1>7, <1>19
    <3>3. WorkersOf(f)'
      BY <3>1, <3>2, <2>6 DEF WorkersOf, WorkerCount, H2, W, L
    <3> QED
      BY <3>3, <1>14 DEF WorkInv
  <2> QED
    BY <2>7, <2>8
<1> QED
  BY <1>18, <1>19, <1>4, <1>7

LEMMA WorkersStep == GhostInv /\ WorkInv /\ [Next]_vars => WorkInv'
<1> SUFFICES ASSUME GhostInv, WorkInv, [Next]_vars PROVE WorkInv'
  OBVIOUS
<1>1. ASSUME next' = next,
             \A f \in Fanouts : fan'[f] = fan[f] \/ (fan[f] = "coupled" /\ fan'[f] = "loose"),
             \A c \in Children : st'[c] \in Live <=> st[c] \in Live
      PROVE  WorkInv'
  BY <1>1, SameHands, BatchSize DEF WorkInv
<1>2. CASE NewTurn \/ UNCHANGED vars
  BY <1>1, <1>2 DEF NewTurn, vars
<1>3. CASE StopAll \/ \E f \in Fanouts : Detach(f)
  <2>1. \A f \in Fanouts : fan'[f] = fan[f] \/ (fan[f] = "coupled" /\ fan'[f] = "loose")
    BY <1>3 DEF StopAll, Detach, GhostInv, PoolInv, TypeOK
  <2>2. next' = next /\ st' = st
    BY <1>3 DEF StopAll, Detach
  <2> QED
    BY <1>1, <2>1, <2>2
<1>4. CASE \E n \in nodes : StopOne(n)
  BY <1>1, <1>4 DEF StopOne
<1>5. CASE \E c \in Children : Enter(c) \/ PrepFails(c) \/ Ask(c) \/ Answered(c) \/ LoopEnds(c)
  <2>1. \E c \in Children : \E p \in Live : st[c] \in Live /\ st' = [st EXCEPT ![c] = p]
    BY <1>5 DEF Enter, PrepFails, Ask, Answered, LoopEnds, Live
  <2>2. next' = next /\ fan' = fan
    BY <1>5 DEF Enter, PrepFails, Ask, Answered, LoopEnds
  <2>3. \A c \in Children : st'[c] \in Live <=> st[c] \in Live
    BY <2>1 DEF GhostInv, PoolInv, TypeOK
  <2> QED
    BY <1>1, <2>2, <2>3
<1> QED
  BY <1>2, <1>3, <1>4, <1>5, SpawnHands, ChildEndsHands DEF Next

LEMMA WorkersHold == Spec => []WorkInv
<1>1. Init => WorkInv
  BY DEF Init, WorkInv, WorkersOf, UnderWay
<1> QED
  BY <1>1, WorkersStep, GhostInvHolds, PTL DEF Spec

\* Never more children at a time than the session allows, never a worker idle while a profile
\* waits, and no call that has lost its last worker before its last child: the call is back when
\* all its children are over and not before (subagent.ts, the pool of workers of spawn).
THEOREM WorkersAtWork ==
  Spec => [] \A f \in Fanouts :
    /\ fan[f] \in {"coupled", "loose"} =>
         /\ Cardinality(InHand(f)) \in 1..MaxConcurrency
         /\ (\E c \in Batchmates(f) : st[c] = "queued") => Cardinality(InHand(f)) = MaxConcurrency
    /\ fan[f] = "back" <=> \A c \in Batchmates(f) : st[c] = "ended"
<1> DEFINE Crew(f) ==
             /\ UnderWay(f) =>
                  /\ Cardinality(InHand(f)) \in 1..MaxConcurrency
                  /\ (\E c \in Batchmates(f) : st[c] = "queued")
                       => Cardinality(InHand(f)) = MaxConcurrency
             /\ fan[f] = "back" <=> \A c \in Batchmates(f) : st[c] = "ended"
<1>1. ASSUME GhostInv, WorkInv, NEW f \in Fanouts
      PROVE  Crew(f)
  <2> DEFINE L == Len(Batch[f])
             W == WorkerCount(f)
             k == Cardinality(InHand(f))
  <2>1. /\ L \in Nat \ {0} /\ DOMAIN Batch[f] = 1..L
        /\ W \in 1..L /\ W = (IF MaxConcurrency < L THEN MaxConcurrency ELSE L)
        /\ MaxConcurrency \in Nat \ {0} /\ next[f] \in Nat \ {0}
        /\ fan[f] \in {"none", "coupled", "loose", "back"}
    BY <1>1, BatchSize, PoolAssumption DEF WorkerCount, GhostInv, PoolInv, TypeOK
  <2>2. \A i \in 1..L : /\ <<f, i>> \in Children /\ <<f, i>> \in Batchmates(f)
                        /\ st[<<f, i>>] = "queued" <=> (fan[f] = "none" \/ i >= next[f])
                        /\ st[<<f, i>>] \in {"queued", "ended"} \cup Live
                        /\ i \in InHand(f) <=> st[<<f, i>>] \in Live
    BY <1>1, BatchSize, <2>1 DEF GhostInv, QueueInv, PoolInv, TypeOK, InHand, Alive, Live
  <2>3. \A c \in Batchmates(f) : \E i \in 1..L : c = <<f, i>>
    BY <2>1 DEF Batchmates
  <2>4. /\ UnderWay(f) => k >= 1 /\ k = IF next[f] <= L + 1 THEN W ELSE L + W + 1 - next[f]
        /\ fan[f] = "back" => InHand(f) = {} /\ next[f] = L + W + 1
    BY <1>1 DEF WorkInv, WorkersOf
  <2>5. InHand(f) \subseteq 1..L /\ k \in Nat /\ (InHand(f) # {} <=> k >= 1)
    BY <2>1, InHandFinite DEF InHand
  <2> HIDE DEF L, W, k
  <2>6. ASSUME UnderWay(f) PROVE k \in 1..MaxConcurrency
    BY <2>1, <2>4, <2>5, <2>6
  <2>7. ASSUME UnderWay(f), NEW c \in Batchmates(f), st[c] = "queued" PROVE k = MaxConcurrency
    <3>1. PICK i \in 1..L : c = <<f, i>>
      BY <2>3
    <3>2. i >= next[f]
      BY <2>2, <2>7, <3>1 DEF UnderWay
    <3>3. k = W /\ k \in Nat
      BY <2>1, <2>4, <2>5, <2>7, <3>2
    <3>4. W # L
      <4> SUFFICES ASSUME W = L PROVE FALSE
        OBVIOUS
      <4>1. InHand(f) \subseteq (1..L) \ {i}
        BY <2>2, <2>5, <2>7, <3>1 DEF Live
      <4>2. IsFiniteSet(1..L) /\ Cardinality(1..L) = L
        <5>1. L \in Int /\ 1 \in Int /\ ~(1 > L) /\ L - 1 + 1 = L
          BY <2>1
        <5> QED
          BY <5>1, FS_Interval
      <4>3. IsFiniteSet((1..L) \ {i}) /\ Cardinality((1..L) \ {i}) = L - 1
        BY <4>2, <3>1, FS_RemoveElement
      <4>4. k <= L - 1
        BY <4>1, <4>3, FS_Subset DEF k
      <4> QED
        BY <4>4, <3>3, <2>1
    <3> QED
      BY <2>1, <3>3, <3>4
  <2>8. fan[f] = "back" => \A c \in Batchmates(f) : st[c] = "ended"
    <3> SUFFICES ASSUME fan[f] = "back", NEW c \in Batchmates(f) PROVE st[c] = "ended"
      OBVIOUS
    <3>1. PICK i \in 1..L : c = <<f, i>>
      BY <2>3
    <3>2. st[c] \notin Live /\ ~(i >= next[f])
      BY <2>1, <2>2, <2>4, <3>1
    <3> QED
      BY <2>2, <3>1, <3>2
  <2>9. (\A c \in Batchmates(f) : st[c] = "ended") => fan[f] = "back"
    <3> SUFFICES ASSUME \A c \in Batchmates(f) : st[c] = "ended", fan[f] # "back" PROVE FALSE
      OBVIOUS
    <3>1. fan[f] # "none"
      BY <2>1, <2>2
    <3>2. InHand(f) # {}
      BY <2>1, <2>4, <2>5, <3>1 DEF UnderWay
    <3> QED
      BY <2>2, <2>5, <3>2 DEF Live
  <2> QED
    BY <2>6, <2>7, <2>8, <2>9 DEF k
<1>2. GhostInv /\ WorkInv => \A f \in Fanouts : Crew(f)
  BY <1>1
<1> QED
  BY <1>2, GhostInvHolds, WorkersHold, PTL DEF UnderWay

\* A child never goes back, whatever happens to its turn, its tree or its label, and each step the
\* scheduling owes it takes it further: with WorkersAtWork, a call under way has a child that goes
\* on or asks the owner, and comes back after at most four such steps of each of its children
\* (runChild of subagent.ts).
THEOREM ChildrenGoForward ==
  Spec => [][\A c \in Children :
               /\ PlaceOf(st'[c]) >= PlaceOf(st[c])
               /\ Enter(c) \/ PrepFails(c) \/ LoopEnds(c) \/ ChildEnds(c)
                    => PlaceOf(st'[c]) > PlaceOf(st[c])]_vars
<1> DEFINE Onward == \A c \in Children :
             /\ PlaceOf(st'[c]) >= PlaceOf(st[c])
             /\ Enter(c) \/ PrepFails(c) \/ LoopEnds(c) \/ ChildEnds(c)
                  => PlaceOf(st'[c]) > PlaceOf(st[c])
<1>1. ASSUME GhostInv, Next, NEW c \in Children
      PROVE  /\ PlaceOf(st'[c]) >= PlaceOf(st[c])
             /\ Enter(c) \/ PrepFails(c) \/ LoopEnds(c) \/ ChildEnds(c)
                  => PlaceOf(st'[c]) > PlaceOf(st[c])
  <2>1. /\ st \in [Children -> {"queued", "preparing", "working", "asking", "leaving", "ended"}]
        /\ PlaceOf(st[c]) \in 0..4
    BY <1>1, PlaceRanks DEF GhostInv, PoolInv, TypeOK
  <2>2. ASSUME Enter(c) \/ PrepFails(c) \/ LoopEnds(c) \/ ChildEnds(c)
        PROVE  PlaceOf(st'[c]) > PlaceOf(st[c])
    <3>1. CASE Enter(c)
      BY <2>1, <3>1, PlaceRanks DEF Enter
    <3>2. CASE PrepFails(c)
      BY <2>1, <3>2, PlaceRanks DEF PrepFails
    <3>3. CASE LoopEnds(c)
      BY <2>1, <3>3, PlaceRanks DEF LoopEnds
    <3>4. CASE ChildEnds(c)
      BY <2>1, <3>4, PlaceRanks DEF ChildEnds
    <3> QED
      BY <2>2, <3>1, <3>2, <3>3, <3>4
  <2>3. ASSUME Ask(c) \/ Answered(c)
        PROVE  PlaceOf(st'[c]) = PlaceOf(st[c])
    BY <2>1, <2>3, PlaceRanks DEF Ask, Answered
  <2>4. ASSUME NEW d \in Children, d # c,
               Enter(d) \/ PrepFails(d) \/ Ask(d) \/ Answered(d) \/ LoopEnds(d)
        PROVE  st'[c] = st[c]
    BY <2>1, <2>4 DEF Enter, PrepFails, Ask, Answered, LoopEnds
  <2>5. ASSUME NEW d \in Children, d # c, ChildEnds(d)
        PROVE  st'[c] = st[c] \/ (st[c] = "queued" /\ st'[c] = "preparing")
    <3>1. c \in Taken(d[1]) => st[c] = "queued"
      <4>1. next[d[1]] \in Nat
        BY <1>1, ChildFacts DEF GhostInv, PoolInv, TypeOK
      <4>2. c \in Taken(d[1]) => c[1] = d[1] /\ c[2] = next[d[1]]
        BY DEF Taken, Batchmates
      <4> QED
        BY <1>1, <4>1, <4>2 DEF GhostInv, QueueInv
    <3> QED
      BY <2>1, <2>5, <3>1 DEF ChildEnds
  <2>6. ASSUME NEW f \in Fanouts, NEW wait \in BOOLEAN, Spawn(f, wait)
        PROVE  st'[c] = st[c] \/ (st[c] = "queued" /\ st'[c] = "preparing")
    <3>1. c[1] = f => st[c] = "queued"
      BY <1>1, <2>6 DEF Spawn, GhostInv, QueueInv
    <3>2. c \in Batchmates(f) => c[1] = f
      BY DEF Batchmates
    <3> QED
      BY <2>1, <2>6, <3>1, <3>2 DEF Spawn
  <2>7. ASSUME \/ NewTurn \/ StopAll
               \/ \E f \in Fanouts : Detach(f)
               \/ \E n \in nodes : StopOne(n)
        PROVE  st'[c] = st[c]
    BY <2>7 DEF NewTurn, StopAll, Detach, StopOne
  <2>8. PlaceOf(st'[c]) >= PlaceOf(st[c])
    <3>1. st'[c] = st[c] => PlaceOf(st'[c]) >= PlaceOf(st[c])
      BY <2>1
    <3>2. st[c] = "queued" /\ st'[c] = "preparing" => PlaceOf(st'[c]) >= PlaceOf(st[c])
      BY PlaceRanks
    <3>3. CASE Enter(c) \/ PrepFails(c) \/ LoopEnds(c) \/ ChildEnds(c)
      <4>1. PlaceOf(st'[c]) \in 0..4
        BY <3>3, <2>1, PlaceRanks DEF Enter, PrepFails, LoopEnds, ChildEnds
      <4> QED
        BY <4>1, <2>1, <2>2, <3>3
    <3> QED
      BY <1>1, <2>3, <2>4, <2>5, <2>6, <2>7, <3>1, <3>2, <3>3, <2>1, PlaceRanks DEF Next
  <2> QED
    BY <2>2, <2>8
<1>2. GhostInv /\ [Next]_vars => [Onward]_vars
  BY <1>1
<1> QED
  BY <1>2, GhostInvHolds, PTL DEF Spec
=============================================================================
