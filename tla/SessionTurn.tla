---------------------------- MODULE SessionTurn ----------------------------
(***************************************************************************)
(* The turns of a session (cli/src/session/controller.ts) and what flows   *)
(* into them: the owner's messages, typed in the terminal (App.tsx) or sent *)
(* through a connector (telegram-sink.ts), the results of fan-outs of       *)
(* sub-agents, and the events of monitors.                                  *)
(*                                                                         *)
(* A run is one call of runResolvedTurn or of continueAfterBudget that has  *)
(* not returned.  The loop it drives is AgentLoop's subject: here it drains *)
(* the queues, runs fan-outs and ends.  Only one run is meant to be active; *)
(* Slots has room for more, to see whether that is so.  It is not: a line   *)
(* with @mentions is sent when the files it names have been read, and a     *)
(* connector's message when the root is not live, without a look at the     *)
(* phase.                                                                   *)
(*                                                                         *)
(* JavaScript runs each handler to its end.  A wake-up that a handler asks  *)
(* for (a microtask, or a call at its end) comes before any other handler:  *)
(* while one is due, nothing else happens.                                  *)
(***************************************************************************)
EXTENDS Integers, Sequences, SequencesExt, FiniteSets, Filtering

CONSTANTS
  Composer, Connector,   \* messages typed by the owner, messages sent through a connector
  Mentions,              \* those typed that name files with @mentions
  Fanouts,               \* fan-outs of sub-agents; each stands for its result, too
  Monitors, Hint,        \* events of monitors; the event that goes with a connector's message
  None,
  Slots,                 \* runs there may be at once
  MaxAttempts,           \* attempts of a turn, the first included
  MaxContinues, MaxRetries, MaxDismissals, MaxStops  \* bounds: [c], r, Esc at an error, stops

Messages == Composer \cup Connector
Items == Messages \cup Fanouts \cup Monitors \cup {Hint}
\* The trees in use at once: each run's, the current one and one per detached fan-out.
Trees == 1 .. (Cardinality(Slots) + Cardinality(Fanouts) + 2)
NoTree == 0

ASSUME KindsAssumption ==
  /\ Composer \cap Connector = {} /\ Mentions \subseteq Composer /\ Fanouts \cap Messages = {}
  /\ (Monitors \cup {Hint}) \cap (Messages \cup Fanouts) = {}
  /\ None \notin Items \cup Slots
ASSUME FinitenessAssumption == IsFiniteSet(Slots) /\ IsFiniteSet(Fanouts)
ASSUME BoundsAssumption ==
  MaxAttempts \in Nat \ {0} /\ MaxContinues \in Nat
  /\ MaxRetries \in Nat /\ MaxDismissals \in Nat /\ MaxStops \in Nat

VARIABLES
  phase,      \* what the terminal shows; "busy" stands for thinking, streaming and asking
  tree, root, \* the current flow tree and what became of its root
  run,        \* the runs
  brake,      \* the run that holds this.abort
  conv,       \* lastRunHistory: what the conversation holds
  last,       \* lastSubmission, {} at first
  resumable,  \* budgetResumeHistory, {} when there is none
  live, pending, returnable, orphans,   \* the owner's messages in the controller
  tui,        \* ... and in the terminal's own queue
  resolving, acked,                     \* lines whose mentions are being resolved; unresolvedAckRef
  seed, queue, transit,                 \* pendingSeed, the event queue, results drained
  waking, flag, due,                    \* the wake-up
  fan, detached, hardStopped,           \* the fan-outs
  sent, taken, cleared,                 \* history: the messages' fates
  crossed,    \* history: how many messages were submitted while a turn was at work
  count                                 \* how often the bounded actions happened

control == <<phase, tree, root, run, brake, conv, last, resumable>>
attaching == <<resolving, acked, crossed>>
mail == <<live, pending, returnable, orphans, tui, sent, taken, cleared, attaching>>
data == <<seed, queue, transit>>
wakes == <<waking, flag, due>>
fans == <<fan, detached, hardStopped>>
vars == <<control, mail, data, wakes, fans, count>>

Rest == {"idle", "done"}
Working == {"busy", "retrying"}

NoRun == [at |-> "off", kind |-> "turn", given |-> {}, heard |-> {}, attempt |-> 1,
          stopped |-> FALSE, tree |-> NoTree, fan |-> None]
NoEvents == [result |-> None, completed |-> None, others |-> {}]

Active == {x \in Slots : run[x].at # "off"}
IdleSlot == CHOOSE x \in Slots : x \notin Active

Results(q) == {q.result, q.completed} \ {None}
Events(q) == Results(q) \cup q.others

Queued == ToSet(tui) \cup ToSet(live) \cup ToSet(pending)
Waiting == Queued \cup resolving

\* A fan-out that has its sub-agents at work.
Running(f) == fan[f].at \in {"attached", "detached"}

-----------------------------------------------------------------------------
(* Turns *)

UsedTrees == {tree} \cup detached \cup {run[x].tree : x \in Slots} \cup {fan[f].tree : f \in Fanouts}

\* One attempt of a turn: beginTurn opens a new tree and forgets an earlier stop; the loop
\* starts from the conversation and what the turn brings.
Begin(x, kind, items, attempt) ==
  \E t \in Trees \ UsedTrees :
    /\ \A u \in Trees \ UsedTrees : t <= u
    /\ run' = [run EXCEPT ![x] = [NoRun EXCEPT !.at = "loop", !.kind = kind, !.given = items,
                                               !.heard = conv \cup items, !.attempt = attempt, !.tree = t]]
    /\ phase' = "busy" /\ tree' = t /\ root' = "live" /\ hardStopped' = FALSE

\* submit: takes the seed and everything pending along with m.
Submit(m) ==
  /\ Active # Slots
  /\ Begin(IdleSlot, "turn", seed \cup ToSet(pending) \cup {m}, 1)
  /\ last' = seed \cup ToSet(pending) \cup {m}
  /\ seed' = {} /\ pending' = <<>>
  /\ returnable' = IF pending = <<>> THEN returnable ELSE {}
  /\ taken' = taken \cup ToSet(pending) \cup {m}
  /\ UNCHANGED <<brake, conv, resumable, live, orphans, cleared, queue, transit, wakes, fan, detached,
                 count>>

\* retryLastGoal
Retry ==
  /\ phase = "error" /\ last # {} /\ count.retries < MaxRetries
  /\ count' = [count EXCEPT !.retries = @ + 1]
  /\ Active # Slots
  /\ Begin(IdleSlot, "turn", last, 1)
  /\ UNCHANGED <<brake, conv, last, resumable, mail, data, wakes, fan, detached>>

\* dismissError rests without asking for a wake-up.
Dismiss ==
  /\ phase = "error" /\ count.dismissals < MaxDismissals
  /\ count' = [count EXCEPT !.dismissals = @ + 1]
  /\ phase' = "idle"
  /\ UNCHANGED <<tree, root, run, brake, conv, last, resumable, mail, data, wakes, fans>>

\* continueAfterBudget: no tree of its own; its signal is the brake.
Continue ==
  /\ phase = "budget" /\ resumable # {} /\ count.continues < MaxContinues
  /\ count' = [count EXCEPT !.continues = @ + 1]
  /\ Active # Slots
  /\ run' = [run EXCEPT ![IdleSlot] = [NoRun EXCEPT !.at = "loop", !.kind = "resume", !.heard = resumable]]
  /\ brake' = IdleSlot
  /\ phase' = "busy" /\ resumable' = {}
  /\ UNCHANGED <<tree, root, conv, last, mail, data, wakes, fans>>

-----------------------------------------------------------------------------
(* What a run does *)

\* The top of an iteration: the messages, then the events.
TopOfIteration(x) ==
  /\ run[x].at = "loop" /\ ~run[x].stopped /\ (live # <<>> \/ queue # NoEvents)
  /\ run' = [run EXCEPT ![x].heard = @ \cup ToSet(live) \cup Events(queue)]
  /\ live' = <<>> /\ queue' = NoEvents
  /\ returnable' = returnable \ ToSet(live)
  /\ taken' = taken \cup ToSet(live)
  /\ transit' = transit \cup Results(queue)
  /\ UNCHANGED <<phase, tree, root, brake, conv, last, resumable, pending, orphans, tui, sent, cleared,
                 attaching, seed, wakes, fans, count>>

\* Between the tools of a batch and after it: the messages only.
BetweenTools(x) ==
  /\ run[x].at = "loop" /\ ~run[x].stopped /\ live # <<>>
  /\ run' = [run EXCEPT ![x].heard = @ \cup ToSet(live)]
  /\ live' = <<>>
  /\ returnable' = returnable \ ToSet(live)
  /\ taken' = taken \cup ToSet(live)
  /\ UNCHANGED <<phase, tree, root, brake, conv, last, resumable, pending, orphans, tui, sent, cleared,
                 attaching, data, wakes, fans, count>>

\* Mutant: an orphan is never announced.
NeverPublished == FALSE

\* publishOrphanInjects: there is a composer's message nobody will drain.
Published == \E m \in returnable : m \in ToSet(pending \o live)

\* Mutant: what was pending already is dropped.
Overwritten == live

\* What waits for the next turn, once the messages of this one have joined it.
Deferred == pending \o live

\* endTurnInjects, and the finally of the turn.
Settle ==
  /\ live' = <<>> /\ pending' = Deferred
  /\ orphans' = (orphans \/ Published)
  /\ UNCHANGED <<returnable, tui, sent, taken, cleared, attaching>>

\* Mutant: what rests does not ask for a wake-up.
NoneDue(p) == "no"

\* setPhase: to rest is to ask for a wake-up.
DueAfter(p) == IF p \in Rest THEN "once" ELSE "no"

\* The end of a run, whatever the reason.  A wake-up turn may be followed by another.
Over(x, p) ==
  /\ run' = [run EXCEPT ![x] = NoRun]
  /\ phase' = p
  /\ root' = IF root = "live" THEN "ended" ELSE root
  /\ brake' = None
  /\ waking' = (waking /\ run[x].kind # "wake")
  /\ due' = DueAfter(p)
  /\ UNCHANGED <<tree, last, flag, fans, count>>

\* afterRun, a final answer.
Finishes(x) ==
  /\ run[x].at = "loop" /\ ~run[x].stopped
  /\ Over(x, "done") /\ Settle
  /\ conv' = run[x].heard
  /\ transit' = IF run[x].kind = "resume" THEN transit ELSE {}
  /\ UNCHANGED <<resumable, seed, queue>>

\* afterRun, the limit: the gate is up.
HitsLimit(x) ==
  /\ run[x].at = "loop" /\ ~run[x].stopped
  /\ Over(x, "budget")
  /\ IF run[x].kind = "resume" THEN UNCHANGED <<mail, transit>> ELSE Settle /\ transit' = {}
  /\ conv' = run[x].heard /\ resumable' = run[x].heard
  /\ UNCHANGED <<seed, queue>>

\* Mutant: the results that the failed turn had drained are forgotten.
NothingGivenBack == {}

\* devolveResultadosAoProximoTurno
GivenBack == transit

GiveBack(x) ==
  IF run[x].kind = "resume" THEN UNCHANGED <<seed, transit>>
  ELSE seed' = seed \cup GivenBack /\ transit' = {}

\* onError, the owner stopped it: what the loop has so far is kept.
Cut(x) ==
  /\ run[x].at = "loop" /\ run[x].stopped
  /\ Over(x, "idle") /\ Settle /\ GiveBack(x)
  /\ conv' = run[x].heard
  /\ UNCHANGED <<resumable, queue>>

\* onError, anything else, when there is no further attempt.
Fails(x) ==
  /\ run[x].at = "loop"
  /\ Over(x, "error") /\ Settle /\ GiveBack(x)
  /\ UNCHANGED <<conv, resumable, queue>>

\* Mutant: the attempts are not counted.
RetriesForever(x) == run[x].kind # "resume" /\ root # "stopped"

\* Mutant: the stop is not looked at before the backoff.
RetriesStopped(x) == run[x].kind # "resume" /\ run[x].attempt < MaxAttempts

\* shouldAutoRetry, of an error that may be transient.  The signal is the current root's.
MayRetry(x) == run[x].kind # "resume" /\ run[x].attempt < MaxAttempts /\ root # "stopped"

BacksOff(x) ==
  /\ run[x].at = "loop" /\ MayRetry(x)
  /\ run' = [run EXCEPT ![x].at = "backoff"]
  /\ phase' = "retrying"
  /\ UNCHANGED <<tree, root, brake, conv, last, resumable, mail, data, wakes, fans, count>>

\* The next attempt starts over: from the conversation as it was, with what the turn brought
\* and the results that were drained.  The owner's messages that were drained are not there.
TriesAgain(x) ==
  /\ run[x].at = "backoff" /\ ~run[x].stopped
  /\ Begin(x, run[x].kind, run[x].given \cup transit, run[x].attempt + 1)
  /\ transit' = {} /\ brake' = None
  /\ Settle
  /\ UNCHANGED <<conv, last, resumable, seed, queue, wakes, fan, detached, count>>

\* ESC during the backoff; there is no partial history to keep.
BackoffCut(x) ==
  /\ run[x].at = "backoff" /\ run[x].stopped
  /\ Over(x, "idle") /\ Settle /\ GiveBack(x)
  /\ UNCHANGED <<conv, resumable, queue>>

-----------------------------------------------------------------------------
(* Fan-outs *)

\* detachSpawn: the sub-agents go on without the turn.
Detach(f) ==
  /\ fan' = [fan EXCEPT ![f] = [at |-> "detached", tree |-> tree]]
  /\ detached' = detached \cup {tree}

\* spawnDetachable, wait:false.
Dispatch(x, f) ==
  /\ run[x].at = "loop" /\ ~run[x].stopped /\ fan[f].at = "new"
  /\ Detach(f)
  /\ UNCHANGED <<control, mail, data, wakes, hardStopped, count>>

\* spawnDetachable: the loop waits for the fan-out.
Spawn(x, f) ==
  /\ run[x].at = "loop" /\ ~run[x].stopped /\ fan[f].at = "new"
  /\ run' = [run EXCEPT ![x].at = "fanout", ![x].fan = f]
  /\ fan' = [fan EXCEPT ![f].at = "attached"]
  /\ UNCHANGED <<phase, tree, root, brake, conv, last, resumable, mail, data, wakes, detached, hardStopped,
                 count>>

\* pumpInjectsDuringFanout: what the owner says meanwhile moves to the next turn's queue.
Pump(x) ==
  /\ run[x].at = "fanout" /\ live # <<>>
  /\ live' = <<>> /\ pending' = Deferred
  /\ UNCHANGED <<control, returnable, orphans, tui, sent, taken, cleared, attaching, data, wakes, fans, count>>

\* The root's signal wins the race against the sub-agents.
LeaveFanout(x) ==
  /\ run[x].at = "fanout" /\ run[x].stopped
  /\ Detach(run[x].fan)
  /\ run' = [run EXCEPT ![x].at = "loop", ![x].fan = None]
  /\ UNCHANGED <<phase, tree, root, brake, conv, last, resumable, mail, data, wakes, hardStopped, count>>

\* onFanoutCompleted, for every fan-out: the event asks for a wake-up as it is queued, then the
\* flag is set and it asks again.
Completed(f) ==
  IF hardStopped THEN UNCHANGED <<queue, due>>
  ELSE queue' = [queue EXCEPT !.completed = f] /\ due' = "twice"

FanEnds(f) ==
  /\ \/ /\ fan[f].at = "detached"
        /\ fan' = [fan EXCEPT ![f].at = "reporting"]
        /\ UNCHANGED run
     \/ \E x \in Slots :
          /\ run[x].at = "fanout" /\ run[x].fan = f
          /\ run' = [run EXCEPT ![x].at = "loop", ![x].fan = None, ![x].heard = @ \cup {f}]
          /\ fan' = [fan EXCEPT ![f].at = "over"]
  /\ Completed(f)
  /\ UNCHANGED <<phase, tree, root, brake, conv, last, resumable, mail, seed, transit, waking, flag,
                 detached, hardStopped, count>>

\* onDetachedOutcomes: into the turn if there is one; else into the next turn's seed and, to
\* wake the session, into the queue.
Report(f) ==
  /\ fan[f].at = "reporting"
  /\ fan' = [fan EXCEPT ![f].at = "leaving"]
  /\ IF hardStopped THEN UNCHANGED <<seed, queue, due>>
     ELSE /\ queue' = [queue EXCEPT !.result = f]
          /\ seed' = IF root = "live" THEN seed ELSE seed \cup {f}
          /\ due' = IF root = "live" THEN "once" ELSE "twice"
  /\ UNCHANGED <<control, mail, transit, waking, flag, detached, hardStopped, count>>

\* The finally of detachSpawn.  A tree is known once, however many fan-outs left it.
Leave(f) ==
  /\ fan[f].at = "leaving"
  /\ fan' = [fan EXCEPT ![f] = [at |-> "over", tree |-> NoTree]]
  /\ detached' = detached \ {fan[f].tree}
  /\ UNCHANGED <<control, mail, data, wakes, hardStopped, count>>

-----------------------------------------------------------------------------
(* Events and the wake-up *)

\* EventQueue.enqueue: one event per monitor.
Fire(e) ==
  /\ e \notin count.fired
  /\ count' = [count EXCEPT !.fired = @ \cup {e}]
  /\ queue' = [queue EXCEPT !.others = @ \cup {e}]
  /\ due' = "once"
  /\ UNCHANGED <<control, mail, seed, transit, waking, flag, fans>>

\* Mutant: the phase is not looked at.
WakesAnyTime == ~waking /\ (detached = {} \/ flag)

Wakes == ~waking /\ phase \in Rest /\ (detached = {} \/ flag)

\* maybeWakeForMonitor.  The flag lets results through while sub-agents are still at work.
MaybeWake ==
  /\ due # "no"
  /\ due' = IF due = "twice" THEN "once" ELSE "no"
  /\ flag' = (due = "twice" \/ (flag /\ ~Wakes))
  /\ IF Wakes /\ queue # NoEvents
     THEN /\ Active # Slots
          /\ Begin(IdleSlot, "wake", Events(queue), 1)
          /\ waking' = TRUE
          /\ queue' = NoEvents
          /\ transit' = transit \cup Results(queue)
     ELSE UNCHANGED <<phase, tree, root, run, hardStopped, waking, queue, transit>>
  /\ UNCHANGED <<brake, conv, last, resumable, mail, seed, fan, detached, count>>

-----------------------------------------------------------------------------
(* The owner *)

\* injectInput on the root of a live turn; the composer also marks it as its own.
Inject(m, own) ==
  /\ root = "live"
  /\ live' = Append(live, m)
  /\ returnable' = returnable \cup own
  /\ UNCHANGED <<pending, orphans, taken, cleared, attaching>>

Enqueue(m) ==
  /\ tui' = Append(tui, m)
  /\ UNCHANGED <<live, pending, returnable, orphans, taken, cleared, attaching>>

NewMessage(m) == m \notin sent /\ sent' = sent \cup {m}

\* submit, for a line of the terminal: the files it mentions are read first, and that is awaited.
SubmitLine(m) ==
  IF m \in Mentions
  THEN /\ resolving' = resolving \cup {m}
       /\ UNCHANGED <<control, live, pending, returnable, orphans, taken, cleared, acked, crossed, data,
                      wakes, fans, count>>
  ELSE Submit(m) /\ UNCHANGED attaching

\* Enter at rest.
TypeAtRest(m) == phase \in Rest /\ NewMessage(m) /\ SubmitLine(m) /\ UNCHANGED tui

\* The turns at work are not looked at when a message is submitted late.
Crossing == crossed + (IF phase \in Working THEN 1 ELSE 0)

\* The files have been read, or the line had been refused before: it is submitted.
Resolved(m) ==
  /\ m \in resolving
  /\ resolving' = resolving \ {m} /\ acked' = None /\ crossed' = Crossing
  /\ Submit(m) /\ UNCHANGED <<tui, sent>>

\* A file was refused: the line is back in the composer, for its owner to send it again or not.
Refused(m) ==
  /\ m \in resolving /\ acked # m
  /\ resolving' = resolving \ {m} /\ acked' = m /\ sent' = sent \ {m}
  /\ UNCHANGED <<control, live, pending, returnable, orphans, tui, taken, cleared, crossed, data, wakes, fans,
                 count>>

\* enqueueOrInject: into the turn, unless older lines wait for it.
EntersTurn == root = "live" /\ tui = <<>>

TypeIntoTurn(m) ==
  /\ phase \in Working /\ EntersTurn /\ m \notin Mentions
  /\ NewMessage(m) /\ Inject(m, {m})
  /\ UNCHANGED <<control, tui, data, wakes, fans, count>>

TypeAhead(m) ==
  /\ phase \in Working
  /\ m \in Mentions \/ (~EntersTurn /\ (tui # <<>> \/ ~(\E f \in Fanouts : Running(f))))
  /\ NewMessage(m) /\ Enqueue(m)
  /\ UNCHANGED <<control, data, wakes, fans, count>>

\* enqueueOrInject with sub-agents at work: the line is given to the turn, and what
\* injectIfPlainText answers is not looked at.
TypeToNobody(m) ==
  /\ phase \in Working /\ root # "live" /\ tui = <<>> /\ m \notin Mentions
  /\ \E f \in Fanouts : Running(f)
  /\ NewMessage(m)
  /\ UNCHANGED <<control, live, pending, returnable, orphans, tui, taken, cleared, attaching, data, wakes, fans,
                 count>>

\* telegram-sink: into a live turn, with the hint that goes with it; otherwise a new turn.
Receive(m) ==
  /\ NewMessage(m)
  /\ \/ /\ Inject(m, {})
        /\ queue' = [queue EXCEPT !.others = @ \cup {Hint}]
        /\ due' = "once"
        /\ UNCHANGED <<control, tui, seed, transit, waking, flag, fans, count>>
     \/ root # "live" /\ Submit(m) /\ crossed' = Crossing /\ UNCHANGED <<tui, resolving, acked>>

\* The queue of the terminal, at rest.
SubmitHead ==
  /\ phase \in Rest /\ tui # <<>>
  /\ tui' = Tail(tui) /\ SubmitLine(Head(tui))
  /\ UNCHANGED sent

\* ... and while a turn is live: the plain lines at its front go into the turn.
FeedTurn ==
  /\ phase \in Working /\ root = "live"
  /\ \E n \in 1 .. Len(tui) :
       /\ \A i \in 1 .. n : tui[i] \notin Mentions
       /\ n < Len(tui) => tui[n + 1] \in Mentions
       /\ live' = live \o SubSeq(tui, 1, n) /\ tui' = SubSeq(tui, n + 1, Len(tui))
       /\ returnable' = returnable \cup ToSet(SubSeq(tui, 1, n))
  /\ UNCHANGED <<control, pending, orphans, sent, taken, cleared, attaching, data, wakes, fans, count>>

\* Mutant: they stay where they were, too.
StayPending(returned) == pending

StillPending(returned) == Filtered(pending, Messages \ returned)

\* takeOrphanInjects, and the effect that calls it.
TakeOrphans ==
  /\ orphans
  /\ tui' = Filtered(pending, returnable) \o tui
  /\ pending' = StillPending(returnable)
  /\ returnable' = returnable \ ToSet(pending)
  /\ orphans' = FALSE
  /\ UNCHANGED <<control, live, sent, taken, cleared, attaching, data, wakes, fans, count>>

\* demoteInjectsOnStop, and the terminal clears its own queue.
Demote ==
  /\ pending' = Deferred /\ live' = <<>> /\ returnable' = {}
  /\ tui' = <<>> /\ cleared' = cleared \cup ToSet(tui)
  /\ UNCHANGED <<orphans, sent, taken, attaching>>

\* The current tree's root is aborted, and the brake.
Brake ==
  /\ run' = [x \in Slots |-> [run[x] EXCEPT !.stopped = @ \/ (run[x].at # "off" /\ (run[x].tree = tree \/ x = brake))]]
  /\ root' = IF root = "none" THEN "none" ELSE "stopped"
  /\ count.stops < MaxStops /\ count' = [count EXCEPT !.stops = @ + 1]
  /\ UNCHANGED <<phase, tree, brake, conv, last, resumable, data, wakes, fan, detached>>

\* interrupt: ESC with nothing waiting, or Ctrl-C.
Interrupt == phase \in Working /\ Demote /\ Brake /\ UNCHANGED hardStopped

\* cancelAllFlows: F8.  The sub-agents are told to stop as well.
CancelAll ==
  /\ Demote /\ Brake
  /\ hardStopped' = (\/ hardStopped \/ root = "live" \/ detached # {}
                     \/ \E x \in Slots : run[x].at = "fanout" /\ run[x].tree \in {tree, NoTree})

-----------------------------------------------------------------------------
(* The specification *)

Init ==
  /\ phase = "idle" /\ tree = NoTree /\ root = "none"
  /\ run = [x \in Slots |-> NoRun]
  /\ brake = None /\ conv = {} /\ last = {} /\ resumable = {}
  /\ live = <<>> /\ pending = <<>> /\ returnable = {} /\ orphans = FALSE /\ tui = <<>>
  /\ seed = {} /\ queue = NoEvents /\ transit = {}
  /\ waking = FALSE /\ flag = FALSE /\ due = "no"
  /\ fan = [f \in Fanouts |-> [at |-> "new", tree |-> NoTree]]
  /\ detached = {} /\ hardStopped = FALSE
  /\ resolving = {} /\ acked = None /\ crossed = 0
  /\ sent = {} /\ taken = {} /\ cleared = {}
  /\ count = [retries |-> 0, dismissals |-> 0, continues |-> 0, stops |-> 0, fired |-> {}]

RunEnds(x) ==
  Finishes(x) \/ HitsLimit(x) \/ Cut(x) \/ Fails(x) \/ BacksOff(x) \/ TriesAgain(x) \/ BackoffCut(x)

RunStep(x) ==
  \/ TopOfIteration(x) \/ BetweenTools(x) \/ RunEnds(x) \/ Pump(x) \/ LeaveFanout(x)
  \/ \E f \in Fanouts : Dispatch(x, f) \/ Spawn(x, f)

OwnerStep ==
  \/ \E m \in Composer : TypeAtRest(m) \/ TypeIntoTurn(m) \/ TypeAhead(m) \/ TypeToNobody(m)
  \/ \E m \in Connector : Receive(m)
  \/ Interrupt \/ CancelAll \/ Retry \/ Dismiss \/ Continue

TerminalStep ==
  \/ SubmitHead \/ FeedTurn \/ TakeOrphans
  \/ \E m \in Mentions : Resolved(m) \/ Refused(m)

Handler ==
  \/ \E x \in Slots : RunStep(x)
  \/ \E f \in Fanouts : FanEnds(f)
  \/ \E e \in Monitors : Fire(e)
  \/ OwnerStep \/ TerminalStep

\* A fan-out that is over goes on to report and to leave before anything else happens.
Settling(f) == fan[f].at \in {"reporting", "leaving"}
Quiet == due = "no" /\ ~(\E f \in Fanouts : Settling(f))

Next ==
  \/ MaybeWake
  \/ due = "no" /\ \E f \in Fanouts : Report(f) \/ Leave(f)
  \/ Quiet /\ Handler

Spec == Init /\ [][Next]_vars

\* Promises that are resolved go on, model calls, sub-agents and reads end, and the terminal renders;
\* the owner may do nothing at all.
Fairness ==
  /\ WF_vars(MaybeWake)
  /\ \A f \in Fanouts : WF_vars(due = "no" /\ (Report(f) \/ Leave(f))) /\ WF_vars(Quiet /\ FanEnds(f))
  /\ \A x \in Slots : WF_vars(Quiet /\ RunEnds(x)) /\ WF_vars(Quiet /\ LeaveFanout(x))
  /\ WF_vars(Quiet /\ TakeOrphans)
  /\ WF_vars(Quiet /\ SubmitHead) /\ WF_vars(Quiet /\ FeedTurn)
  /\ \A m \in Mentions : WF_vars(Quiet /\ (Resolved(m) \/ Refused(m)))

FairSpec == Spec /\ Fairness

-----------------------------------------------------------------------------
(* Properties *)

RunType ==
  [at : {"off", "loop", "fanout", "backoff"}, kind : {"turn", "wake", "resume"}, given : SUBSET Items,
   heard : SUBSET Items, attempt : 1 .. MaxAttempts, stopped : BOOLEAN, tree : {NoTree} \cup Trees,
   fan : Fanouts \cup {None}]

\* The state has its types; no turn makes more than MaxAttempts attempts.
TypeOK ==
  /\ phase \in Rest \cup Working \cup {"budget", "error"}
  /\ tree \in {NoTree} \cup Trees /\ root \in {"none", "live", "ended", "stopped"}
  /\ run \in [Slots -> RunType] /\ brake \in Slots \cup {None}
  /\ conv \in SUBSET Items /\ last \in SUBSET Items /\ resumable \in SUBSET Items
  /\ live \in Seq(Messages) /\ pending \in Seq(Messages) /\ tui \in Seq(Messages)
  /\ returnable \in SUBSET Messages /\ orphans \in BOOLEAN
  /\ resolving \in SUBSET Mentions /\ acked \in Mentions \cup {None} /\ crossed \in Nat
  /\ seed \in SUBSET Items /\ transit \in SUBSET Fanouts
  /\ queue \in [result : Fanouts \cup {None}, completed : Fanouts \cup {None},
                others : SUBSET (Monitors \cup {Hint})]
  /\ waking \in BOOLEAN /\ flag \in BOOLEAN /\ due \in {"no", "once", "twice"}
  /\ fan \in [Fanouts -> [at : {"new", "attached", "detached", "reporting", "leaving", "over"},
                          tree : {NoTree} \cup Trees]]
  /\ detached \in SUBSET Trees /\ hardStopped \in BOOLEAN
  /\ sent \in SUBSET Messages /\ taken \in SUBSET Messages /\ cleared \in SUBSET Messages
  /\ count \in [retries : 0 .. MaxRetries, dismissals : 0 .. MaxDismissals, continues : 0 .. MaxContinues,
                stops : 0 .. MaxStops, fired : SUBSET Monitors]

\* There is one turn at a time, whatever the order in which a run ends, events wake the session, the
\* queued line is submitted and the owner answers, but for the messages that are submitted without a
\* look at the phase: each of them that comes while a turn is at work may add one run.
OneTurn == Cardinality(Active) <= crossed + 1

\* The phase is what the other ways to start a turn look at, and it changes apart from the run
\* (setPhase, onError, dismissError): a working phase has a run, and no run goes on behind a phase
\* that rests but those that a late message added.
PhaseAgrees ==
  IF phase \in Working THEN Active # {} ELSE Cardinality(Active) <= crossed

\* A message waits in one place only, once, and never again after a turn has taken it, though it
\* moves between the queues of the turn, of the next turn and of the terminal, and out of this one
\* while its mentions are resolved.
OneHome ==
  /\ Len(tui) + Len(live) + Len(pending) = Cardinality(Queued)
  /\ Queued \cap resolving = {}
  /\ Waiting \cap taken = {}

\* The session keeps what Mailbox promises of the owner's messages.
Box == INSTANCE Mailbox WITH waiting <- Waiting
MailboxSpec == Box!Spec

\* A result that a turn drained from the queue does not vanish with the turn: it is in the
\* conversation, in the next turn's seed, or in what the next attempt is given.  A run resumed with
\* [c] gives nothing back when it fails (continueAfterBudget), and two runs at once drain into one
\* place (drainedResults), hence the exceptions.
DrainedStaysSomewhere ==
  \A f \in transit \ transit' :
    \/ f \in conv' \cup seed'
    \/ \E x \in Slots : f \in run'[x].given
    \/ count.continues > 0 \/ crossed > 0
ResultsKept == [][DrainedStaysSomewhere]_vars

\* Once the owner has stopped a turn, the turn makes no further attempt and begins no backoff:
\* the failure and the stop may come in either order.  Not so when a message has started another
\* turn meanwhile: the signal that is looked at is then that turn's.
StopIsHeeded ==
  \A x \in Active : run[x].stopped /\ crossed = 0 =>
    \/ run'[x].at = "off"
    \/ /\ run'[x].stopped /\ run'[x].attempt = run[x].attempt
       /\ run'[x].at = "backoff" => run[x].at = "backoff"
NoAttemptAfterStop == [][StopIsHeeded]_vars

\* The session waits for the owner.
AwaitsOwner == phase \in {"error", "budget"}

\* A typed message is heard in the end, without the owner sending it again: what the turn did not
\* drain comes back to the terminal, which submits it.  Only a line that mentions what cannot be
\* read goes back to the composer.
ComposerHeard ==
  \A m \in Composer : m \in Waiting ~> m \notin Waiting \/ AwaitsOwner \/ count.stops > 0

\* An event is not left in the queue, even if it came while the session could not be woken: to
\* rest is to ask again.
EventsHeard == queue # NoEvents ~> queue = NoEvents \/ AwaitsOwner \/ count.stops > 0
=============================================================================
