----------------------------- MODULE AgentLoop -----------------------------
(***************************************************************************)
(* The agent loop (cli-core/src/agent/loop.ts) of the main agent and of    *)
(* the sub-agents it spawns, all drawing on one SharedBudget               *)
(* (shared-budget.ts), with what the session does around a run             *)
(* (controller.ts: new goal, continue after the budget gate, ESC) and what *)
(* the spawner does around a child (subagent.ts).                          *)
(*                                                                         *)
(* Each agent is at one of the loop's await points; between two of them    *)
(* the code runs without interruption, so one action is one stretch of it. *)
(*   idle   no run in progress                                             *)
(*   top    about to start an iteration                                    *)
(*   prep   iteration reserved; maestro, compaction, prompt                *)
(*   call   model call in flight                                           *)
(*   batch  about to start the next tool call of the turn                  *)
(*   ask    waiting for the owner's approval                               *)
(*   hook   waiting for the pre-tool hook gate                             *)
(*   run    the tool is running                                            *)
(*   spawn  spawn_agent is running: waiting for its children               *)
(*   stuck  paused by the watchdog, waiting for the owner's direction      *)
(***************************************************************************)
EXTENDS Integers, Sequences, FiniteSets, History

CONSTANTS
  Root, Children,                       \* the main agent and the sub-agents
  MaxIterations, MaxToolCalls, MaxTokens,  \* the session's limits (limits.ts)
  TokensCeiling,                        \* extend() never raises the token limit above it
  ExtraIterations, ExtraTokens,         \* what one `continue' adds to the limits
  TurnTokens,                           \* tokens a model turn may report
  MaxBatch,                             \* tool calls in one native turn
  MaxVerifications,                     \* self-check probes per run
  KeepRecent,                           \* items compaction keeps
  HookGate, Watchdog, AutoCompact,      \* optional ports of the loop
  MaxGoals, MaxContinues, MaxSends      \* bounds of the model

Agents == {Root} \cup Children
Kinds == {"iterations", "toolCalls", "tokens"}
Amounts == [iterations : Nat, toolCalls : Nat, tokens : Nat]
Original == [iterations |-> MaxIterations, toolCalls |-> MaxToolCalls, tokens |-> MaxTokens]
Zero == [iterations |-> 0, toolCalls |-> 0, tokens |-> 0]

ASSUME LimitsAssumption ==
  /\ MaxIterations \in Nat \ {0} /\ MaxToolCalls \in Nat \ {0} /\ MaxTokens \in Nat \ {0}
  /\ TokensCeiling \in Nat /\ MaxTokens <= TokensCeiling
  /\ ExtraIterations \in Nat /\ ExtraTokens \in Nat
ASSUME TurnAssumption ==
  /\ TurnTokens \subseteq Nat /\ MaxBatch \in Nat \ {0}
  /\ MaxVerifications \in Nat /\ KeepRecent \in Nat
\* What a model turn may cost is bounded.
ASSUME TurnTokensAssumption == \E t \in TurnTokens : \A u \in TurnTokens : u <= t
ASSUME PortsAssumption ==
  /\ HookGate \in BOOLEAN /\ Watchdog \in BOOLEAN /\ AutoCompact \in BOOLEAN
ASSUME AgentsAssumption == Root \notin Children /\ IsFiniteSet(Children)
ASSUME BoundsAssumption == MaxGoals \in Nat /\ MaxContinues \in Nat /\ MaxSends \in Nat

VARIABLES
  used, limits,   \* the SharedBudget: consumption and limits of the whole tree
  pc, turn,       \* where each agent is; the tool calls of its current turn
  own,            \* what each run consumed itself (OwnUsage)
  aborted,        \* each run's AbortSignal
  inbox,          \* messages of the owner not yet drained (pollInjected)
  history,        \* each run's history
  check,          \* self-check: successful tools, candidate answer, probes
  stop, answer,   \* how the last run ended and what it delivered
  waiting,        \* children the root's spawn_agent waits for
  detached,       \* detached fan-outs: the goal they began under, the children not back yet
  trees,          \* goals with a detached fan-out whose tree the session keeps (detachedTrees)
  lastHistory,    \* the conversation the next goal continues (lastRunHistory)
  goals, continues, sent

budgetVars == <<used, limits>>
treeVars == <<waiting, detached, trees, lastHistory>>
endVars == <<stop, answer>>
boundVars == <<goals, continues, sent>>
vars == <<used, limits, pc, turn, own, aborted, inbox, history, check, stop, answer,
          waiting, detached, trees, lastHistory, goals, continues, sent>>

PCs == {"idle", "top", "prep", "call", "batch", "ask", "hook", "run", "spawn", "stuck"}
StopKinds == {"none", "final", "ended", "limit", "degenerate", "aborted", "error"}

\* A model text: how much of the run's successful work it had seen, and whether it asks
\* the owner to decide (awaitsUserDecision).
Utterance(w, q) == [work |-> w, asks |-> q]
Silence == [work |-> -1, asks |-> FALSE]
Utterances == [work : Int, asks : BOOLEAN]

NoTurn == [kind |-> "none", n |-> 0, ci |-> 0]
Turns == [kind : {"none", "native", "text", "final"}, n : 0..MaxBatch, ci : 0..MaxBatch]
FreshCheck == [work |-> 0, atProbe |-> 0, verified |-> Silence, probes |-> 0]
Checks == [work : Nat, atProbe : Nat, verified : Utterances, probes : Nat]

-----------------------------------------------------------------------------
(* SharedBudget *)

\* Mutant: the token limit is not part of the gate before an iteration.
PeekWithoutTokens ==
  used.toolCalls >= limits.toolCalls \/ used.iterations >= limits.iterations

PeekExceeded ==
  used.tokens >= limits.tokens \/ used.toolCalls >= limits.toolCalls
                               \/ used.iterations >= limits.iterations

TryConsumeIteration(a) ==
  /\ used.iterations < limits.iterations
  /\ used' = [used EXCEPT !.iterations = @ + 1]
  /\ own' = [own EXCEPT ![a].iterations = @ + 1]

\* Mutant: the slot is taken without looking whether one is left.
TakeToolCall(a) ==
  /\ used' = [used EXCEPT !.toolCalls = @ + 1]
  /\ own' = [own EXCEPT ![a].toolCalls = @ + 1]

TryConsumeToolCall(a) ==
  /\ used.toolCalls < limits.toolCalls
  /\ used' = [used EXCEPT !.toolCalls = @ + 1]
  /\ own' = [own EXCEPT ![a].toolCalls = @ + 1]

AddTokens(a, t) ==
  /\ used' = [used EXCEPT !.tokens = @ + t]
  /\ own' = [own EXCEPT ![a].tokens = @ + t]

LesserOf(x, y) == IF x <= y THEN x ELSE y

Extended ==
  [iterations |-> limits.iterations + ExtraIterations,
   toolCalls  |-> limits.toolCalls + ExtraIterations,
   tokens     |-> IF ExtraTokens > 0 THEN LesserOf(TokensCeiling, limits.tokens + ExtraTokens)
                                     ELSE limits.tokens]

-----------------------------------------------------------------------------
(* Moving an agent, ending a run *)

At(a, p) == pc[a] = p
Goto(a, p) == pc' = [pc EXCEPT ![a] = p]
SetHistory(a, h) == history' = [history EXCEPT ![a] = h]
Drained(a) == [i \in DOMAIN inbox[a] |-> Inject(inbox[a][i])]

\* The conversation after a run: a finished run is kept whole (afterRun), an interrupted one
\* is closed first (keepInterruptedTurn), a failed one is dropped (onError).
Kept(kind, h) ==
  CASE kind = "aborted" -> CloseInterruptedHistory(h) \o <<Text>>
    [] kind = "error"   -> lastHistory
    [] OTHER            -> h

\* Mutant: the child's outcome reaches nobody.
ReportLost(a) == UNCHANGED <<waiting, detached, trees>>

\* A child's outcome goes to whoever waits for it; with the last one of a detached fan-out
\* its tree is forgotten, whatever else was detached under the same goal.
Report(a) ==
  /\ waiting' = waiting \ {a}
  /\ detached' = {f \in {[g EXCEPT !.kids = @ \ {a}] : g \in detached} : f.kids # {}}
  /\ trees' = trees \ {f.turn : f \in {g \in detached : g.kids = {a}}}

\* detachSpawn: the fan-out goes on under the tree of the current goal.
SetLoose(S) ==
  detached' = detached \cup {[turn |-> goals, kids |-> S]} /\ trees' = trees \cup {goals}

Loose == UNION {f.kids : f \in detached}

\* The children the session can still reach: the panel, F8 and the budget's guard look at
\* the current tree and at the trees kept.
Known == waiting \cup UNION {f.kids : f \in {g \in detached : g.turn \in trees \cup {goals}}}

\* Ends a's run, with the locals of runLoop gone.
End(a, kind, h) ==
  /\ Goto(a, "idle")
  /\ turn' = [turn EXCEPT ![a] = NoTurn]
  /\ check' = [check EXCEPT ![a] = FreshCheck]
  /\ aborted' = [aborted EXCEPT ![a] = FALSE]
  /\ stop' = [stop EXCEPT ![a] = kind]
  /\ SetHistory(a, <<>>)
  /\ lastHistory' = IF a = Root THEN Kept(kind, h) ELSE lastHistory
  /\ Report(a)

\* The run stops with nothing to deliver.
Halt(a, kind, h) == End(a, kind, h) /\ answer' = [answer EXCEPT ![a] = Silence]

Throw(a, kind) == Halt(a, kind, history[a]) /\ UNCHANGED <<budgetVars, own, inbox, boundVars>>

\* The run goes on at p with history h, tool turn t and self-check c.
Proceed(a, p, h, t, c) ==
  /\ Goto(a, p) /\ SetHistory(a, h)
  /\ turn' = [turn EXCEPT ![a] = t]
  /\ check' = [check EXCEPT ![a] = c]
  /\ UNCHANGED <<aborted, endVars, treeVars>>

-----------------------------------------------------------------------------
(* The session: goals, the budget gate, messages, cancellation *)

\* A run starts with a seed history and nothing consumed.
StartRuns(S, seed) ==
  /\ own' = [a \in Agents |-> IF a \in S THEN Zero ELSE own[a]]
  /\ stop' = [a \in Agents |-> IF a \in S THEN "none" ELSE stop[a]]
  /\ answer' = [a \in Agents |-> IF a \in S THEN Silence ELSE answer[a]]
  /\ history' = [a \in Agents |-> IF a \in S THEN seed ELSE history[a]]
  /\ UNCHANGED <<turn, check, aborted>>

\* Mutant: every goal re-arms the budget.
AlwaysReset == used' = Zero /\ limits' = Original

\* The budget is re-armed unless a tree of detached children, which share it, is kept.
RearmBudget ==
  IF trees = {} THEN used' = Zero /\ limits' = Original ELSE UNCHANGED budgetVars

\* A new goal continues the conversation.
NewGoal ==
  /\ At(Root, "idle") /\ goals < MaxGoals
  /\ goals' = goals + 1
  /\ RearmBudget
  /\ StartRuns({Root}, lastHistory \o Drained(Root) \o <<Text>>) /\ Goto(Root, "top")
  /\ inbox' = [inbox EXCEPT ![Root] = <<>>]
  /\ UNCHANGED <<treeVars, continues, sent>>

\* [c] at the budget gate: higher limits, same counters, the paused history.
ContinueAfterBudget ==
  /\ At(Root, "idle") /\ stop[Root] = "limit" /\ continues < MaxContinues
  /\ continues' = continues + 1
  /\ limits' = Extended
  /\ StartRuns({Root}, lastHistory) /\ Goto(Root, "top")
  /\ UNCHANGED <<used, inbox, treeVars, goals, sent>>

\* The owner writes to an agent: to the root at any time, to a child until its outcome is known.
Send(a) ==
  /\ sent < MaxSends /\ a \in {Root} \cup waiting \cup Loose
  /\ sent' = sent + 1
  /\ inbox' = [inbox EXCEPT ![a] = Append(@, sent + 1)]
  /\ UNCHANGED <<budgetVars, pc, turn, own, aborted, history, check, endVars, treeVars,
                 goals, continues>>

AbortRuns(S) ==
  /\ \E a \in S : pc[a] # "idle" /\ ~aborted[a]
  /\ aborted' = [a \in Agents |-> aborted[a] \/ (a \in S /\ pc[a] # "idle")]
  /\ UNCHANGED <<budgetVars, pc, turn, own, inbox, history, check, endVars, boundVars>>

\* ESC stops the root only; F8 stops the trees it knows; `p' stops one child of them.
Esc == AbortRuns({Root}) /\ UNCHANGED treeVars
StopAll == Children # {} /\ AbortRuns({Root} \cup Known) /\ UNCHANGED treeVars
StopChild(c) == c \in Known /\ AbortRuns({c}) /\ UNCHANGED treeVars

\* A child without a sign of life is reported as timed out and aborted, but its loop only
\* notices at its next check.  Waiting for the owner's approval holds the clock.
IdleTimeout(c) ==
  /\ c \in waiting \cup Loose /\ pc[c] \in {"call", "hook", "run"}
  /\ AbortRuns({c})
  /\ Report(c)
  /\ UNCHANGED lastHistory

-----------------------------------------------------------------------------
(* Top of an iteration *)

TopAborted(a) ==
  /\ At(a, "top") /\ aborted[a]
  /\ Throw(a, "aborted")

TopAtLimit(a) ==
  /\ At(a, "top") /\ ~aborted[a] /\ PeekExceeded
  /\ Halt(a, "limit", history[a])
  /\ UNCHANGED <<budgetVars, own, inbox, boundVars>>

TopReserve(a) ==
  /\ At(a, "top") /\ ~aborted[a] /\ ~PeekExceeded
  /\ TryConsumeIteration(a)
  /\ Goto(a, "prep")
  /\ SetHistory(a, history[a] \o Drained(a))
  /\ inbox' = [inbox EXCEPT ![a] = <<>>]
  /\ UNCHANGED <<limits, turn, aborted, check, endVars, treeVars, boundVars>>

\* maybeAutoCompact, then the prompt is built and the call leaves.
SendPrompt(a) ==
  /\ At(a, "prep") /\ Goto(a, "call")
  /\ \/ UNCHANGED history
     \/ AutoCompact /\ Compactable(history[a], KeepRecent)
        /\ SetHistory(a, Compacted(history[a], KeepRecent))
  /\ UNCHANGED <<budgetVars, turn, own, aborted, inbox, check, endVars, treeVars, boundVars>>

-----------------------------------------------------------------------------
(* The model answers, or does not *)

CallFails(a) ==
  /\ At(a, "call") /\ Throw(a, "error")

CallAborted(a) ==
  /\ At(a, "call") /\ aborted[a]
  /\ Throw(a, "aborted")

\* ESC with a message waiting cuts the call, not the turn: the partial answer is dropped
\* and the iteration stays spent.
Expedited(a) ==
  /\ At(a, "call") /\ a = Root /\ ~aborted[a] /\ inbox[a] # <<>>
  /\ Goto(a, "top")
  /\ UNCHANGED <<budgetVars, turn, own, aborted, inbox, history, check, endVars, treeVars,
                 boundVars>>

Degenerates(a) ==
  /\ At(a, "call") /\ Halt(a, "degenerate", Append(history[a], Text))
  /\ UNCHANGED <<budgetVars, own, inbox, boundVars>>

\* The output limit left neither text nor a call.
ReplyTruncated(a) ==
  /\ At(a, "call")
  /\ \E t \in TurnTokens : AddTokens(a, t)
  /\ Halt(a, "ended", Append(history[a], Text))
  /\ UNCHANGED <<limits, inbox, boundVars>>

\* A turn with tool calls: a native batch echoes them as one item, the text protocol
\* carries one call in the text.
ReplyWithCalls(a) ==
  /\ At(a, "call") /\ Goto(a, "batch")
  /\ \E t \in TurnTokens : AddTokens(a, t)
  /\ \/ \E n \in 1..MaxBatch :
          /\ turn' = [turn EXCEPT ![a] = [kind |-> "native", n |-> n, ci |-> 1]]
          /\ SetHistory(a, Append(history[a], ToolCalls(n)))
     \/ /\ turn' = [turn EXCEPT ![a] = [kind |-> "text", n |-> 1, ci |-> 1]]
        /\ SetHistory(a, Append(history[a], Text))
  /\ UNCHANGED <<limits, aborted, inbox, check, endVars, treeVars, boundVars>>

\* Only the main agent's loop has a stuckResolver.
Watched(a) == Watchdog /\ a = Root

\* checkStuck: without an alert the loop goes on; with one it waits for the owner, or ends
\* at once when the run is already aborted.
CheckStuck(a, h, kind, c) ==
  \/ Proceed(a, "top", h, NoTurn, c)
  \/ Watched(a) /\ ~aborted[a] /\ Proceed(a, "stuck", h, [NoTurn EXCEPT !.kind = kind], c)
  \/ Watched(a) /\ aborted[a] /\ kind # "final" /\ Halt(a, "ended", Append(h, Text))

ReplyMalformed(a) ==
  /\ At(a, "call")
  /\ \E t \in TurnTokens : AddTokens(a, t)
  /\ CheckStuck(a, history[a] \o <<Text, Text>>, "text", check[a])
  /\ UNCHANGED <<limits, inbox, boundVars>>

\* Mutant: the candidate is delivered even when tools ran after its probe.
DeliverCandidate(a, text) ==
  IF check[a].verified # Silence THEN check[a].verified ELSE text

\* What a final text delivers: the candidate held before the last probe if no tool
\* succeeded since, else the text itself.
Delivered(a, text) ==
  IF check[a].verified # Silence /\ check[a].work = check[a].atProbe
  THEN check[a].verified ELSE text

Deliver(a, text, h) ==
  End(a, "final", h) /\ answer' = [answer EXCEPT ![a] = Delivered(a, text)]

Probes(a, text) ==
  /\ MaxVerifications > 0 /\ check[a].work > 0 /\ ~text.asks
  /\ check[a].probes < MaxVerifications

\* A final text after real work is probed: the loop asks the model to check the evidence.
ProbeFinal(a, text) ==
  /\ Probes(a, text)
  /\ LET c == check[a]
         candidate == IF c.verified = Silence \/ c.work > c.atProbe THEN text ELSE c.verified
     IN  Proceed(a, "top", history[a] \o <<Text, Text>>, NoTurn,
                 [work |-> c.work, atProbe |-> c.work, verified |-> candidate,
                  probes |-> c.probes + 1])

\* ... otherwise it is accepted; an empty one goes to the watchdog first, which by default
\* lets the loop run on.
AcceptFinal(a, text, empty) ==
  /\ ~Probes(a, text)
  /\ LET h == Append(history[a], Text)
     IN  \/ ~empty /\ Deliver(a, text, h)
         \/ empty /\ CheckStuck(a, h, "final", check[a])
         \/ empty /\ Watched(a) /\ aborted[a] /\ Deliver(a, text, h)

ReplyFinal(a) ==
  /\ At(a, "call")
  /\ \E t \in TurnTokens : AddTokens(a, t)
  /\ \E form \in {"answer", "question", "empty"} :
       LET text == Utterance(check[a].work, form = "question")
       IN  ProbeFinal(a, text) \/ AcceptFinal(a, text, form = "empty")
  /\ UNCHANGED <<limits, inbox, boundVars>>

-----------------------------------------------------------------------------
(* The tool calls of a turn *)

Native(a) == turn[a].kind = "native"
ResultItem(a) == IF Native(a) THEN ToolResult(turn[a].ci) ELSE Text

\* After the last call: messages that arrived meanwhile, then the watchdog.
AfterCalls(a, h, c) ==
  /\ CheckStuck(a, h \o Drained(a), turn[a].kind, c)
  /\ inbox' = [inbox EXCEPT ![a] = <<>>]

\* Mutant: the loop over the batch stops one too late.
PastLastCall(a) == turn[a].ci > turn[a].n

LastCall(a) == turn[a].ci = turn[a].n

\* The current call got its observation; ok = 1 when a tool ran and succeeded.
Answered(a, ok) ==
  LET h == Append(history[a], ResultItem(a))
      c == [check[a] EXCEPT !.work = @ + ok]
  IN  /\ \/ LastCall(a) /\ AfterCalls(a, h, c)
         \/ /\ ~LastCall(a)
            /\ Proceed(a, "batch", h, [turn[a] EXCEPT !.ci = @ + 1], c)
            /\ UNCHANGED inbox
      /\ UNCHANGED <<budgetVars, own, boundVars>>

\* Unknown tool, policy deny, owner's deny, hook veto: no effect, an observation.
Blocked(a) == Answered(a, 0)

\* Everything allowed the call: reserve the slot and run, or stop at the limit with the
\* calls left unanswered closed.
StartEffect(a) ==
  \/ /\ TryConsumeToolCall(a) /\ Goto(a, "run")
     /\ UNCHANGED <<limits, turn, aborted, inbox, history, check, endVars, treeVars, boundVars>>
  \/ /\ used.toolCalls >= limits.toolCalls
     /\ Halt(a, "limit", IF Native(a) THEN history[a] \o Unexecuted(turn[a].ci, turn[a].n)
                                      ELSE history[a])
     /\ UNCHANGED <<budgetVars, own, inbox, boundVars>>

\* Allowed by the policy: the hook gate, when there is one, has the last word.
Permitted(a) ==
  IF HookGate
  THEN /\ Goto(a, "hook")
       /\ UNCHANGED <<budgetVars, turn, own, aborted, inbox, history, check, endVars,
                      treeVars, boundVars>>
  ELSE StartEffect(a)

BatchAborted(a) ==
  /\ At(a, "batch") /\ aborted[a]
  /\ Throw(a, "aborted")

\* A message of the owner arrived: the calls not yet started are skipped and it follows
\* their results.
SkipForMessage(a) ==
  /\ At(a, "batch") /\ ~aborted[a] /\ Native(a) /\ inbox[a] # <<>>
  /\ AfterCalls(a, history[a] \o Unexecuted(turn[a].ci, turn[a].n), check[a])
  /\ UNCHANGED <<budgetVars, own, boundVars>>

\* decide(): deny, ask or allow.
Decide(a) ==
  /\ At(a, "batch") /\ ~aborted[a] /\ ~(Native(a) /\ inbox[a] # <<>>)
  /\ \/ Blocked(a)
     \/ Goto(a, "ask") /\ UNCHANGED <<budgetVars, turn, own, aborted, inbox, history, check,
                                      endVars, treeVars, boundVars>>
     \/ Permitted(a)

\* Mutants: an approval that does not see the abort; a question the abort does not answer.
ApprovedRegardless(a) == At(a, "ask") /\ Permitted(a)
NeverCancelled(a) == FALSE /\ At(a, "ask") /\ aborted[a] /\ Blocked(a)

AskApproved(a) == At(a, "ask") /\ ~aborted[a] /\ Permitted(a)
AskDenied(a) == At(a, "ask") /\ ~aborted[a] /\ Blocked(a)
AskCancelled(a) == At(a, "ask") /\ aborted[a] /\ Blocked(a)

\* The hook runs to its end even when the run is aborted meanwhile, and a hook that passes
\* lets the call through without another look at the signal.
HookVetoes(a) == At(a, "hook") /\ Blocked(a)
HookPasses(a) == At(a, "hook") /\ StartEffect(a)

ToolEnds(a) ==
  /\ At(a, "run") /\ \E ok \in {0, 1} : Answered(a, ok)

ToolThrows(a) ==
  /\ At(a, "run") /\ Throw(a, "error")

-----------------------------------------------------------------------------
(* spawn_agent: only the root has it *)

\* The children start with their goal; with wait = FALSE they are detached from birth.
Spawn(S, wait) ==
  /\ At(Root, "run") /\ S # {} /\ \A c \in S : At(c, "idle")
  /\ StartRuns(S, <<Text>>)
  /\ pc' = [a \in Agents |-> CASE a \in S -> "top" [] a = Root -> "spawn" [] OTHER -> pc[a]]
  /\ inbox' = [a \in Agents |-> IF a \in S THEN <<>> ELSE inbox[a]]
  /\ IF wait THEN waiting' = S /\ UNCHANGED <<detached, trees>>
             ELSE SetLoose(S) /\ UNCHANGED waiting
  /\ UNCHANGED <<budgetVars, lastHistory, boundVars>>

\* ESC, a message of the owner or Ctrl+B release the root; the children go on.
Detach ==
  /\ At(Root, "spawn") /\ waiting # {}
  /\ SetLoose(waiting) /\ waiting' = {}
  /\ UNCHANGED <<budgetVars, pc, turn, own, aborted, inbox, history, check, endVars,
                 lastHistory, boundVars>>

SpawnReturns ==
  /\ At(Root, "spawn") /\ waiting = {} /\ \E ok \in {0, 1} : Answered(Root, ok)

-----------------------------------------------------------------------------
(* The watchdog's question: end, continue, or a new direction *)

StuckResolved(a) ==
  /\ At(a, "stuck")
  /\ \/ /\ ~aborted[a]
        /\ \E direction \in {<<>>, <<Text>>} :
             Proceed(a, "top", history[a] \o direction, NoTurn, check[a])
     \/ /\ turn[a].kind = "final"
        /\ Deliver(a, Utterance(check[a].work, FALSE), history[a])
     \/ /\ turn[a].kind # "final"
        /\ Halt(a, "ended", Append(history[a], Text))
  /\ UNCHANGED <<budgetVars, own, inbox, boundVars>>

-----------------------------------------------------------------------------
Init ==
  /\ used = Zero /\ limits = Original
  /\ pc = [a \in Agents |-> "idle"]
  /\ turn = [a \in Agents |-> NoTurn]
  /\ own = [a \in Agents |-> Zero]
  /\ aborted = [a \in Agents |-> FALSE]
  /\ inbox = [a \in Agents |-> <<>>]
  /\ history = [a \in Agents |-> <<>>]
  /\ check = [a \in Agents |-> FreshCheck]
  /\ stop = [a \in Agents |-> "none"]
  /\ answer = [a \in Agents |-> Silence]
  /\ waiting = {} /\ detached = {} /\ trees = {} /\ lastHistory = <<>>
  /\ goals = 0 /\ continues = 0 /\ sent = 0

\* What the program does by itself once it can: the owner's answers are not among it.
Automatic(a) ==
  \/ TopAborted(a) \/ TopAtLimit(a) \/ TopReserve(a) \/ SendPrompt(a)
  \/ CallFails(a) \/ CallAborted(a) \/ Degenerates(a)
  \/ ReplyTruncated(a) \/ ReplyWithCalls(a) \/ ReplyMalformed(a) \/ ReplyFinal(a)
  \/ BatchAborted(a) \/ SkipForMessage(a) \/ Decide(a)
  \/ AskCancelled(a) \/ HookVetoes(a) \/ HookPasses(a) \/ ToolEnds(a) \/ ToolThrows(a)

OwnerDecides(a) == AskApproved(a) \/ AskDenied(a) \/ Expedited(a) \/ StuckResolved(a)

Tree ==
  \/ \E S \in SUBSET Children, wait \in BOOLEAN : Spawn(S, wait)
  \/ Detach \/ SpawnReturns
  \/ \E c \in Children : StopChild(c) \/ IdleTimeout(c)

Session == NewGoal \/ ContinueAfterBudget \/ Esc \/ StopAll \/ \E a \in Agents : Send(a)

Next == Session \/ Tree \/ \E a \in Agents : Automatic(a) \/ OwnerDecides(a)

Spec == Init /\ [][Next]_vars

\* Model calls, hooks and tools end (each has its own timeout); an aborted run's spawn is
\* released and its pending questions are answered by the abort.
Fairness ==
  /\ \A a \in Agents : WF_vars(Automatic(a))
  /\ \A a \in Agents : WF_vars(aborted[a] /\ StuckResolved(a))
  /\ WF_vars(SpawnReturns)
  /\ WF_vars(aborted[Root] /\ Detach)

FairSpec == Spec /\ Fairness

-----------------------------------------------------------------------------
(* Properties *)

BudgetTyped == used \in Amounts /\ limits \in Amounts /\ own \in [Agents -> Amounts]
RunsTyped ==
  /\ pc \in [Agents -> PCs] /\ turn \in [Agents -> Turns]
  /\ aborted \in [Agents -> BOOLEAN] /\ check \in [Agents -> Checks]
  /\ stop \in [Agents -> StopKinds] /\ answer \in [Agents -> Utterances]
  /\ waiting \subseteq Children /\ trees \subseteq Nat
  /\ detached \subseteq [turn : Nat, kids : SUBSET Children]
InputTyped ==
  /\ inbox \in [Agents -> Seq(Nat)]
  /\ goals \in 0..MaxGoals /\ continues \in 0..MaxContinues /\ sent \in 0..MaxSends

\* The shared budget, the locals of every run and the session's fields keep their types;
\* what a history may hold is PromptWellFormed's subject.
TypeOK == BudgetTyped /\ RunsTyped /\ InputTyped

\* The limits hold for the tree as a whole: however the runs of the root and its children
\* interleave, iterations and tool calls never pass the shared limits (E-A2, CLI-SEC-8).
BudgetRespected ==
  used.iterations <= limits.iterations /\ used.toolCalls <= limits.toolCalls

\* Tokens are only known after a call, so the tree may pass their limit, by less than one
\* model turn of each agent: the gate lets nobody start another call past the limit.
MostTokens == CHOOSE t \in TurnTokens : \A u \in TurnTokens : u <= t
InFlight == {a \in Agents : pc[a] \in {"prep", "call"}}
TokenOvershootBounded ==
  used.tokens + MostTokens * Cardinality(InFlight)
    < limits.tokens + MostTokens * Cardinality(Agents)

\* What a set of runs has consumed is in the shared budget, together.
Counted(S) == \A k \in Kinds : MapThenSumSet(LAMBDA a : own[a][k], S) <= used[k]

\* What the runs the session knows of have consumed is in the shared budget: a new goal's
\* reset never wipes the consumption of a child that F8 could still stop.
Tracked == {a \in Agents : pc[a] # "idle" /\ (a = Root \/ a \in Known)}
LiveConsumptionCounted == Counted(Tracked)

\* Every prompt that leaves is one a provider accepts, after any mix of skipped, refused,
\* limited and interrupted batches, compaction and resumed turns; so is the conversation
\* the next goal starts from, and a batch under way has answered exactly its first calls.
PromptWellFormed ==
  /\ \A a \in Agents : pc[a] \in {"top", "prep", "call", "stuck"} => Paired(history[a])
  /\ \A a \in Agents : pc[a] \in {"batch", "ask", "hook", "run", "spawn"} /\ Native(a) =>
       PairedUpTo(history[a], turn[a].n, turn[a].ci - 1)
  /\ Paired(lastHistory)

\* No tool starts for a run whose signal has fired: the loop looks at it before each call
\* and a pending approval is denied by it.
NoEffectAfterAbort ==
  [][\A a \in Agents : aborted[a] /\ pc'[a] = "run" => pc[a] = "run"]_vars

\* A final answer is never older than the work: if a tool succeeded after the candidate
\* the self-check held, the new text is what the owner gets.
AnswerReflectsWork ==
  [][\A a \in Agents : pc[a] # "idle" /\ pc'[a] = "idle" /\ stop'[a] = "final"
        => answer'[a].work = check[a].work]_vars

\* Cancellation always wins: an aborted run comes to rest, whatever it was waiting for.
AbortCeases == \A a \in Agents : aborted[a] ~> pc[a] = "idle"

\* No run goes on for ever: it rests, or the tree waits for the owner.
RunsEnd ==
  \A a \in Agents : pc[a] # "idle" ~>
    (pc[a] = "idle" \/ \E b \in Agents : pc[b] \in {"ask", "stuck"})
=============================================================================
