---------------------------- MODULE SubAgentPool ----------------------------
(***************************************************************************)
(* The pool of sub-agents: SubAgentSpawner.spawn and runChild              *)
(* (cli-core/src/agent/subagent.ts), the flow tree every turn opens        *)
(* (flow-tree.ts), and what the session keeps about children across turns  *)
(* (cli/src/session/controller.ts: childNodes, detachedTrees).             *)
(*                                                                         *)
(* A fan-out is one call of spawn: a batch of labelled profiles and at     *)
(* most MaxConcurrency workers, each taking the next profile when its      *)
(* child is done. A fan-out may outlive the turn that called it, while     *)
(* everything the session knows about a child it knows by its label.       *)
(* What a child does inside its loop is in AgentLoop.                      *)
(*   queued     no worker has taken the profile                            *)
(*   preparing  announced to the session; its worktree is being made       *)
(*   working    its loop runs                                              *)
(*   asking     its loop waits for the owner, its idle timer held          *)
(*   leaving    its loop is over; its worktree is being removed            *)
(*   ended      its outcome is known                                       *)
(***************************************************************************)
EXTENDS Integers, Sequences, FiniteSets

CONSTANTS
  Fanouts,        \* the calls of spawn
  Batch,          \* the labels of each call's profiles
  MaxConcurrency, \* workers of one call
  None,           \* no child
  MaxTurns, MaxStops  \* bounds of the model: turns, stops of single children

Labels == UNION {{Batch[f][i] : i \in DOMAIN Batch[f]} : f \in Fanouts}
Children == UNION {{f} \X DOMAIN Batch[f] : f \in Fanouts}
Label(c) == Batch[c[1]][c[2]]
Batchmates(f) == {f} \X DOMAIN Batch[f]
WorkerCount(f) == IF MaxConcurrency < Len(Batch[f]) THEN MaxConcurrency ELSE Len(Batch[f])

ASSUME PoolAssumption == MaxConcurrency \in Nat \ {0} /\ None \notin Children
\* spawn_agent makes the labels of one call distinct; two calls may share one.
ASSUME BatchAssumption ==
  \A f \in Fanouts :
    /\ Len(Batch[f]) \in Nat \ {0} /\ DOMAIN Batch[f] = 1..Len(Batch[f])
    /\ \A i, j \in DOMAIN Batch[f] : Batch[f][i] = Batch[f][j] => i = j
ASSUME BoundsAssumption == MaxTurns \in Nat \ {0} /\ MaxStops \in Nat

VARIABLES
  turn,      \* the current flow tree, numbered by its turn
  stopped,   \* trees whose cascade has fired (F8)
  kept,      \* detachedTrees
  nodes, killed, finished,  \* <<tree, label>>: existing, aborted, terminal
  nodeOf,    \* childNodes: the tree of the node registered for a label, or 0
  channel,   \* liveChannels: the child a label's messages go to
  fan,       \* each call: none, coupled to its turn, loose, back
  home,      \* the turn each call was made in
  next,      \* the next profile a worker takes
  st,        \* each child's place
  hears,     \* the tree of the node whose signal a child listens to, or 0
  aborted,   \* children whose own signal has fired
  stops      \* stops of single children so far

forest == <<nodes, killed, finished, nodeOf>>
vars == <<turn, stopped, kept, forest, channel, fan, home, next, st, hears, aborted, stops>>

Live == {"preparing", "working", "asking", "leaving"}
Alive(c) == st[c] \in Live
Working == {c \in Children : st[c] \in {"working", "asking"}}

TypeOK ==
  /\ turn \in Nat \ {0}
  /\ stopped \subseteq 1..turn /\ kept \subseteq 1..turn
  /\ nodes \subseteq (1..turn) \X Labels
  /\ killed \subseteq nodes /\ finished \subseteq nodes
  /\ nodeOf \in [Labels -> 0..turn]
  /\ channel \in [Labels -> Children \cup {None}]
  /\ fan \in [Fanouts -> {"none", "coupled", "loose", "back"}]
  /\ home \in [Fanouts -> 0..turn]
  /\ next \in [Fanouts -> Nat \ {0}]
  /\ st \in [Children -> {"queued", "preparing", "working", "asking", "leaving", "ended"}]
  /\ hears \in [Children -> 0..turn]
  /\ aborted \subseteq Children
  /\ stops \in Nat

Init ==
  /\ turn = 1 /\ stopped = {} /\ kept = {}
  /\ nodes = {} /\ killed = {} /\ finished = {}
  /\ nodeOf = [l \in Labels |-> 0]
  /\ channel = [l \in Labels |-> None]
  /\ fan = [f \in Fanouts |-> "none"]
  /\ home = [f \in Fanouts |-> 0]
  /\ next = [f \in Fanouts |-> 1]
  /\ st = [c \in Children |-> "queued"]
  /\ hears = [c \in Children |-> 0]
  /\ aborted = {} /\ stops = 0

-----------------------------------------------------------------------------
(***************************************************************************)
(* The flow trees.                                                         *)
(***************************************************************************)

\* ensureChild in the current tree: a node it has is returned as it is, and a
\* new one in a stopped tree is born aborted.
Plant(L) ==
  LET new == ({turn} \X L) \ nodes
  IN  /\ nodes' = nodes \cup new
      /\ killed' = killed \cup IF turn \in stopped THEN new ELSE {}

\* cancel(): the nodes are aborted and terminal, and whoever listens is aborted.
Kill(N) ==
  /\ killed' = killed \cup N
  /\ finished' = finished \cup N
  /\ aborted' = aborted \cup {c \in Working : <<hears[c], Label(c)>> \in N}

\* Mutants: the current tree's node, whatever tree the child was announced in;
\* the same, made if it is not there.
CurrentNode(l) == {<<turn, l>>} \cap nodes
EnsuredNode(l) == {<<turn, l>>}

\* childNodeOf: the registered node, or else the current tree's.
NodeOfEnd(l) ==
  IF nodeOf[l] # 0 THEN {<<nodeOf[l], l>>} ELSE {<<turn, l>>} \cap nodes

-----------------------------------------------------------------------------
(***************************************************************************)
(* The turns and the calls of spawn.                                       *)
(***************************************************************************)

\* beginTurn: a turn that waits for its fan-out has not ended.
NewTurn ==
  /\ turn < MaxTurns
  /\ \A f \in Fanouts : fan[f] # "coupled"
  /\ turn' = turn + 1
  /\ UNCHANGED <<stopped, kept, forest, channel, fan, home, next, st, hears, aborted, stops>>

\* spawn: the workers announce their first child before spawn yields. With
\* wait: false the session detaches the call at once.
Spawn(f, wait) ==
  /\ fan[f] = "none" /\ turn \notin stopped
  /\ \A g \in Fanouts : fan[g] # "coupled"
  /\ LET first == {c \in Batchmates(f) : c[2] <= WorkerCount(f)}
         named == {Label(c) : c \in first}
     IN  /\ st' = [c \in Children |-> IF c \in first THEN "preparing" ELSE st[c]]
         /\ next' = [next EXCEPT ![f] = WorkerCount(f) + 1]
         /\ Plant(named)
         /\ nodeOf' = [l \in Labels |-> IF l \in named THEN turn ELSE nodeOf[l]]
  /\ fan' = [fan EXCEPT ![f] = IF wait THEN "coupled" ELSE "loose"]
  /\ home' = [home EXCEPT ![f] = turn]
  /\ kept' = IF wait THEN kept ELSE kept \cup {turn}
  /\ UNCHANGED <<turn, stopped, finished, channel, hears, aborted, stops>>

\* ESC, Ctrl+B or an injected message release the turn from the call.
Detach(f) ==
  /\ fan[f] = "coupled"
  /\ fan' = [fan EXCEPT ![f] = "loose"]
  /\ kept' = kept \cup {turn}
  /\ UNCHANGED <<turn, stopped, forest, channel, home, next, st, hears, aborted, stops>>

\* cancelAllFlows (F8): every node of the current and the kept trees. The abort
\* of the root also detaches a call the turn was waiting for.
StopAll ==
  LET T == kept \cup {turn}
      held == {f \in Fanouts : fan[f] = "coupled"}
  IN  /\ ~(T \subseteq stopped)
      /\ stopped' = stopped \cup T
      /\ Kill({n \in nodes : n[1] \in T})
      /\ fan' = [f \in Fanouts |-> IF f \in held THEN "loose" ELSE fan[f]]
      /\ kept' = kept \cup IF held = {} THEN {} ELSE {turn}
      /\ UNCHANGED <<turn, nodes, nodeOf, channel, home, next, st, hears, stops>>

\* cancelFlow (the panel): a node of the current tree.
\* pararFilhoPorRotulo (the agents_stop tool): a live node of the label in the
\* trees the session knows.
StopOne(n) ==
  /\ stops < MaxStops /\ stops' = stops + 1
  /\ n \in nodes
  /\ n[1] = turn \/ (n[1] \in kept /\ n \notin finished)
  /\ Kill({n})
  /\ UNCHANGED <<turn, stopped, kept, nodes, nodeOf, channel, fan, home, next, st, hears>>

-----------------------------------------------------------------------------
(***************************************************************************)
(* One child.                                                              *)
(***************************************************************************)

\* Mutant: the signal is listened to, but not looked at first.
EnterDeaf(c) ==
  LET l == Label(c)
      t == IF nodeOf[l] # 0 THEN nodeOf[l] ELSE turn
  IN  /\ st[c] = "preparing"
      /\ st' = [st EXCEPT ![c] = "working"]
      /\ channel' = [channel EXCEPT ![l] = c]
      /\ hears' = [hears EXCEPT ![c] = t]
      /\ IF nodeOf[l] # 0 THEN UNCHANGED <<nodes, killed>> ELSE Plant({l})
      /\ UNCHANGED <<turn, stopped, kept, finished, nodeOf, fan, home, next, aborted, stops>>

\* runChild after the worktree is there: the channel is opened, the signal of
\* the label's node is looked up, and the loop starts.
Enter(c) ==
  LET l == Label(c)
      t == IF nodeOf[l] # 0 THEN nodeOf[l] ELSE turn
  IN  /\ st[c] = "preparing"
      /\ st' = [st EXCEPT ![c] = "working"]
      /\ channel' = [channel EXCEPT ![l] = c]
      /\ hears' = [hears EXCEPT ![c] = t]
      /\ IF nodeOf[l] # 0 THEN UNCHANGED <<nodes, killed>> ELSE Plant({l})
      /\ aborted' = aborted \cup IF <<t, l>> \in killed' THEN {c} ELSE {}
      /\ UNCHANGED <<turn, stopped, kept, finished, nodeOf, fan, home, next, stops>>

\* No caller for its model, or no worktree.
PrepFails(c) ==
  /\ st[c] = "preparing"
  /\ st' = [st EXCEPT ![c] = "leaving"]
  /\ UNCHANGED <<turn, stopped, kept, forest, channel, fan, home, next, hears, aborted, stops>>

\* An approval or a quota pause holds the idle timer while it lasts.
Ask(c) ==
  /\ st[c] = "working" /\ c \notin aborted
  /\ st' = [st EXCEPT ![c] = "asking"]
  /\ UNCHANGED <<turn, stopped, kept, forest, channel, fan, home, next, hears, aborted, stops>>

Answered(c) ==
  /\ st[c] = "asking"
  /\ st' = [st EXCEPT ![c] = "working"]
  /\ UNCHANGED <<turn, stopped, kept, forest, channel, fan, home, next, hears, aborted, stops>>

\* Mutant: the channel of the label is closed, whoever has it.
LoopEndsOpenly(c) ==
  /\ st[c] = "working" \/ (st[c] = "asking" /\ c \in aborted)
  /\ st' = [st EXCEPT ![c] = "leaving"]
  /\ channel' = [channel EXCEPT ![Label(c)] = None]
  /\ UNCHANGED <<turn, stopped, kept, forest, fan, home, next, hears, aborted, stops>>

\* The loop ends by itself, by its limits, by the idle timer or by its signal;
\* the finally of runChild closes the channel if it is still this child's.
LoopEnds(c) ==
  /\ st[c] = "working" \/ (st[c] = "asking" /\ c \in aborted)
  /\ st' = [st EXCEPT ![c] = "leaving"]
  /\ channel' = [channel EXCEPT ![Label(c)] = IF @ = c THEN None ELSE @]
  /\ UNCHANGED <<turn, stopped, kept, forest, fan, home, next, hears, aborted, stops>>

\* Mutant: a worker runs one profile.
TakesNone(f) == {}

\* What a worker takes when its child is done.
Taken(f) == {c \in Batchmates(f) : c[2] = next[f]}

\* onChildEnd closes the child's node and forgets it; the worker goes on to the
\* next profile, announced in the tree of the turn of that moment. When no child
\* of the call is left the call returns, and a detached one forgets its tree.
ChildEnds(c) ==
  LET f == c[1]
      l == Label(c)
      taken == Taken(f)
      named == {Label(d) : d \in taken}
      last == taken = {} /\ \A d \in Batchmates(f) \ {c} : st[d] = "ended"
  IN  /\ st[c] = "leaving"
      /\ st' = [d \in Children |-> IF d = c THEN "ended"
                                   ELSE IF d \in taken THEN "preparing" ELSE st[d]]
      /\ finished' = finished \cup NodeOfEnd(l)
      /\ Plant(named)
      /\ nodeOf' = [k \in Labels |-> IF k \in named THEN turn
                                     ELSE IF k = l THEN 0 ELSE nodeOf[k]]
      /\ next' = [next EXCEPT ![f] = @ + 1]
      /\ fan' = IF last THEN [fan EXCEPT ![f] = "back"] ELSE fan
      /\ kept' = IF last /\ fan[f] = "loose" THEN kept \ {home[f]} ELSE kept
      /\ UNCHANGED <<turn, stopped, channel, home, hears, aborted, stops>>

Next ==
  \/ NewTurn \/ StopAll
  \/ \E f \in Fanouts : Detach(f) \/ \E wait \in BOOLEAN : Spawn(f, wait)
  \/ \E n \in nodes : StopOne(n)
  \/ \E c \in Children :
       Enter(c) \/ PrepFails(c) \/ Ask(c) \/ Answered(c) \/ LoopEnds(c) \/ ChildEnds(c)

Spec == Init /\ [][Next]_vars

\* A worktree is made or refused, a loop ends (its limits and its idle timer see
\* to that: AgentLoop's RunsEnd), a worktree is removed. The owner owes nothing.
LiveSpec ==
  /\ Spec
  /\ \A c \in Children :
       /\ WF_vars(Enter(c) \/ PrepFails(c))
       /\ WF_vars(LoopEnds(c))
       /\ WF_vars(ChildEnds(c))

-----------------------------------------------------------------------------
(***************************************************************************)
(* Properties.                                                             *)
(***************************************************************************)

\* A child that listens to a node of a stopped tree has been told to stop,
\* whether it was running when F8 was pressed, was still waiting for its
\* worktree, or was announced after: a listener added to a signal that has
\* already fired is never called, so runChild looks first (subagent.ts:1430).
StoppedTreeStaysDown ==
  \A c \in Working : hears[c] \in stopped => c \in aborted

\* A node that is not terminal belongs to a child that is still alive, in every
\* tree: the count of agents at work and what F8 asks about do not stand on agents
\* that have long ended (controller.ts:9110). This is for labels one profile alone
\* carries; when two calls share a label the session closes the wrong node.
Sole(c) == \A d \in Children : Label(d) = Label(c) => d = c
NoGhosts ==
  \A n \in nodes \ finished : \A c \in Children : Label(c) = n[2] /\ Sole(c) => Alive(c)

\* A child at work that its label's messages reach goes on being reached, unless
\* a younger child of the same label takes the channel: the end of another child
\* does not take it away (subagent.ts:1523).
ChannelKept ==
  [][\A c \in Working : channel[Label(c)] = c /\ c \in Working' =>
       \/ channel'[Label(c)] = c
       \/ \E d \in Children : channel'[Label(c)] = d /\ st[d] = "preparing"]_vars

\* Every call of spawn returns, or one of its children waits for the owner: a
\* child that fails, is stopped or times out gives its worker back to the queue.
EveryFanoutReturns ==
  \A f \in Fanouts :
    fan[f] \in {"coupled", "loose"} ~>
      (fan[f] = "back" \/ \E c \in Batchmates(f) : st[c] = "asking")

\* What the owner stopped with F8 does no more work: a child of a call that was
\* made in a stopped tree and still runs has been told to stop
\* (controller.ts:4590-4593, 2096-2098).
NothingAfterStopAll ==
  \A c \in Working : home[c[1]] \in stopped => c \in aborted
=============================================================================
