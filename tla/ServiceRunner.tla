--------------------------- MODULE ServiceRunner ---------------------------
(***************************************************************************)
(* The process that is a service: runServiceRunner and runOneWorkflow      *)
(* (cli/src/service/runner.ts), the wait for the owner's answer            *)
(* (channel.ts), what the owner types through "service attach"             *)
(* (attach-say.ts) or sends to the service's Telegram chat                 *)
(* (connector/telegram-client.ts).                                         *)
(*   boot       before the first turn or sleep                             *)
(*   asleep     sleepUntil the next turn, or the end of the hours          *)
(*   alerting   sends the alert of a manifest that is no longer valid      *)
(*   opening    reads the credential, once per process                     *)
(*   activity   the child process of one activity of the workflow runs     *)
(*   asking     resolves the channel and sends the question to it          *)
(*   waiting    for the owner's answer                                     *)
(*   reporting  sends what became of the turn                              *)
(*   down       over                                                       *)
(* Between awaits the runner is one thread. Time is abstract: late says    *)
(* that a wait's 24 hours are over, open that `until' is yet to come today.*)
(***************************************************************************)
EXTENDS Naturals, Sequences

CONSTANTS
  Activities,  \* how many activities the workflow has
  Says,        \* lines the owner may type through attach, each once
  MaxUpdates,  \* bound on messages the Telegram server gets for the bot
  None         \* no message

Updates == 1..MaxUpdates

ASSUME ActivitiesAssumption == Activities \in Nat \ {0}
ASSUME UpdatesAssumption == MaxUpdates \in Nat
ASSUME NamesAssumption == None \notin Says \cup Updates /\ Says \cap Updates = {}

VARIABLES
  manifest,   \* what service.md declares: a channel that works, until, immediate
  pc, phase,  \* where the runner is, and currentPhase
  stop,       \* stopController was aborted (SIGTERM, SIGINT)
  open,       \* the working hours of today are not over
  daemons,    \* the service's own daemons are up
  alarm,      \* what the sleep ends at: the next turn or the end of the hours
  credential, \* credencialResolvida
  act,        \* the activity that runs or has asked
  late,       \* the wait has lasted its time
  pendingSay, \* lines for the next activity that opens
  queued,     \* queuedAnswers: lines for the next wait
  waiters,    \* pendingResolvers: waits a line would settle
  said,       \* history: the lines typed so far, and what became of them:
  taken,      \* given to an activity, as an answer or with its goal
  dropped,    \* gone with a step that the stop or the end of the hours kept from opening one
  lost,       \* answers to an activity that cannot be run again
  answer,     \* the message an activity was resumed with
  updates,    \* what the server got, in order: the owner's words or other things
  confirmed,  \* how many of them the server has forgotten
  offset      \* how many of them the present client has seen

hourVars == <<open, daemons, alarm>>
fates == <<taken, dropped, lost>>
sayVars == <<pendingSay, queued, said, fates>>
chatVars == <<updates, confirmed, offset>>
askVars == <<late, waiters, answer>>
vars == <<manifest, pc, phase, stop, hourVars, credential, act, sayVars, chatVars, askVars>>

Lines(s) == {s[i] : i \in DOMAIN s}
HasTime == ~manifest.until \/ open

-----------------------------------------------------------------------------
(* Turns of the outer loop *)

Shutdown ==
  /\ pc' = "down" /\ phase' = "sleeping" /\ daemons' = FALSE
  /\ UNCHANGED <<open, alarm>>

\* The top of the loop. The sleep ends at whichever comes first.
LoopTop ==
  IF stop THEN Shutdown
  ELSE /\ pc' = "asleep" /\ phase' = "sleeping"
       /\ alarm' \in IF manifest.until /\ open THEN {"turn", "close"} ELSE {"turn"}
       /\ UNCHANGED open

\* splice: whoever opens next takes all the lines.
SpliceLines == pendingSay' = <<>>

\* runWorkflow and runActivityTurn up to the spawn: stop, the lines typed meanwhile, the time
\* left. got: a line that answers the activity; msg: what the activity resumes with.
OpenActivity(i, got, msg) ==
  /\ UNCHANGED lost
  /\ IF stop
     THEN /\ pc' = "reporting" /\ answer' = None /\ dropped' = dropped \cup got
          /\ UNCHANGED <<act, pendingSay, taken>>
     ELSE /\ SpliceLines
          /\ LET lines == got \cup Lines(pendingSay) IN
             IF HasTime
             THEN /\ pc' = "activity" /\ act' = i /\ answer' = msg
                  /\ taken' = taken \cup lines /\ UNCHANGED dropped
             ELSE /\ pc' = "reporting" /\ answer' = None
                  /\ dropped' = dropped \cup lines /\ UNCHANGED <<act, taken>>

\* Mutant: the lines for the next activity are taken before the workflow is read.
SplicedEarly(got) == pendingSay' = <<>> /\ lost' = lost \cup got

\* The answer is held by this call only; the lines for the next activity stay.
AnswerLost(got) == lost' = lost \cup got /\ UNCHANGED pendingSay

\* runOneWorkflow reads the workflow anew: it may be gone, invalid or shorter by now.
RunWorkflow(i, got, msg) ==
  \/ OpenActivity(i, got, msg)
  \/ /\ pc' = "reporting" /\ answer' = None /\ AnswerLost(got)
     /\ UNCHANGED <<act, taken, dropped>>

\* A wake-up for a turn: the manifest is read again first.
BeginTurn ==
  \/ /\ pc' = "alerting"
     /\ UNCHANGED <<phase, hourVars, act, answer, pendingSay, fates>>
  \/ /\ phase' = "running-turn" /\ daemons' = TRUE /\ UNCHANGED <<open, alarm>>
     /\ IF credential THEN RunWorkflow(1, {}, None)
        ELSE pc' = "opening" /\ UNCHANGED <<act, answer, pendingSay, fates>>

Boot ==
  /\ pc = "boot"
  /\ IF ~stop /\ manifest.immediate /\ HasTime THEN BeginTurn
     ELSE LoopTop /\ (~stop => UNCHANGED daemons)
          /\ UNCHANGED <<act, answer, pendingSay, fates>>
  /\ UNCHANGED <<manifest, stop, credential, queued, said, chatVars, late, waiters>>

WakeForTurn ==
  /\ pc = "asleep" /\ ~stop /\ alarm = "turn"
  /\ BeginTurn
  /\ UNCHANGED <<manifest, stop, credential, queued, said, chatVars, late, waiters>>

WakeAtClose ==
  /\ pc = "asleep" /\ ~stop /\ alarm = "close" /\ ~open
  /\ daemons' = FALSE /\ LoopTop
  /\ UNCHANGED <<manifest, stop, credential, act, sayVars, chatVars, askVars>>

SleepStopped ==
  /\ pc = "asleep" /\ stop /\ Shutdown
  /\ UNCHANGED <<manifest, stop, credential, act, sayVars, chatVars, askVars>>

AlertSent ==
  /\ pc = "alerting" /\ LoopTop /\ (~stop => UNCHANGED daemons)
  /\ UNCHANGED <<manifest, stop, credential, act, sayVars, chatVars, askVars>>

CredentialRead ==
  /\ pc = "opening" /\ credential' = TRUE /\ RunWorkflow(1, {}, None)
  /\ UNCHANGED <<manifest, phase, stop, hourVars, queued, said, chatVars, late, waiters>>

\* Mutant: every turn's end is the end of the hours.
ReportSentAlwaysClosing ==
  /\ pc = "reporting" /\ daemons' = FALSE /\ LoopTop
  /\ UNCHANGED <<manifest, stop, credential, act, sayVars, chatVars, askVars>>

\* The turn is over; the daemons stay while the hours last.
ReportSent ==
  /\ pc = "reporting" /\ LoopTop
  /\ ~stop => daemons' = (daemons /\ manifest.until /\ open)
  /\ UNCHANGED <<manifest, stop, credential, act, sayVars, chatVars, askVars>>

-----------------------------------------------------------------------------
(* Activities *)

\* The child ended well: the next activity, or the end of the workflow.
ActivityDone ==
  /\ pc = "activity" /\ ~stop
  /\ IF act < Activities THEN OpenActivity(act + 1, {}, None)
     ELSE pc' = "reporting" /\ answer' = None /\ UNCHANGED <<act, pendingSay, fates>>
  /\ UNCHANGED <<manifest, phase, stop, hourVars, credential, queued, said, chatVars, late,
                 waiters>>

\* It failed, was unreadable, hit its limit, or was killed by the stop.
ActivityStops ==
  /\ pc = "activity" /\ pc' = "reporting" /\ answer' = None
  /\ UNCHANGED <<manifest, phase, stop, hourVars, credential, act, sayVars, chatVars, late,
                 waiters>>

\* It ended with a question to the owner. Every wait makes a client of its own.
ActivityAsks ==
  /\ pc = "activity" /\ ~stop
  /\ pc' = "asking" /\ phase' = "awaiting-owner"
  /\ answer' = None /\ offset' = 0
  /\ UNCHANGED <<manifest, stop, hourVars, credential, act, sayVars, updates, confirmed, late,
                 waiters>>

-----------------------------------------------------------------------------
(* The wait for the owner: waitForOwnerReply, waitForLocalAnswerOnly *)

\* 'stopped' leaves the inner loop, and the outer one ends.
WaitStopped ==
  /\ pc = "waiting" /\ stop /\ Shutdown
  /\ UNCHANGED <<manifest, stop, credential, act, sayVars, chatVars, askVars>>

\* The question was sent, or not; a queued line answers at once. The wait without a channel
\* takes it before it looks at stop.
AskSent ==
  /\ pc = "asking" /\ late' = FALSE
  /\ IF stop
     THEN /\ Shutdown
          /\ IF ~manifest.channel /\ queued # <<>>
             THEN queued' = Tail(queued) /\ dropped' = dropped \cup {Head(queued)}
             ELSE UNCHANGED <<queued, dropped>>
          /\ UNCHANGED <<act, answer, pendingSay, taken, lost, waiters>>
     ELSE /\ IF queued # <<>>
             THEN /\ queued' = Tail(queued) /\ UNCHANGED waiters
                  /\ RunWorkflow(act, {Head(queued)}, Head(queued))
             ELSE /\ pc' = "waiting" /\ waiters' = waiters + 1
                  /\ UNCHANGED <<queued, act, answer, pendingSay, fates>>
          /\ UNCHANGED <<phase, hourVars>>
  /\ UNCHANGED <<manifest, stop, credential, said, chatVars>>

\* Time is up: the turn ends without action.
GiveUp ==
  /\ pc' = "reporting" /\ waiters' = 0
  /\ UNCHANGED <<queued, act, answer, pendingSay, fates>>

\* Mutants of the next round: the loser's wait is not aborted; the clock starts again.
NextRoundLeaving ==
  /\ waiters' = waiters + 1 /\ UNCHANGED <<pc, late, queued, act, answer, pendingSay, fates>>
NextRoundAnew ==
  /\ late' = FALSE
  /\ UNCHANGED <<pc, waiters, queued, act, answer, pendingSay, fates>>

\* The next round of the loop: the deadline, then a new wait in the place of the old one.
NextRound ==
  /\ IF late THEN GiveUp
     ELSE UNCHANGED <<pc, waiters, queued, act, answer, pendingSay, fates>>
  /\ UNCHANGED late

\* getUpdates with the client's offset: the server forgets what the client has seen and gives
\* the rest, the first of the owner's own messages answers. A failed round gives nothing.
PollReturns ==
  /\ pc = "waiting" /\ manifest.channel /\ ~stop
  /\ confirmed' = IF offset > confirmed THEN offset ELSE confirmed
  /\ \/ /\ UNCHANGED offset /\ NextRound
     \/ LET words == {n \in confirmed' + 1 .. Len(updates) : updates[n] = "owner"} IN
        /\ offset' = Len(updates)
        /\ \/ words = {} /\ NextRound
           \/ \E n \in words :
                /\ \A k \in words : n <= k
                /\ waiters' = 0 /\ RunWorkflow(act, {}, n) /\ UNCHANGED <<queued, late>>
  /\ UNCHANGED <<manifest, phase, stop, hourVars, credential, said, updates>>

\* A second of the wait without a channel: the one promise stays.
Tick ==
  /\ pc = "waiting" /\ ~manifest.channel /\ ~stop /\ NextRound
  /\ UNCHANGED <<manifest, phase, stop, hourVars, credential, said, chatVars>>

-----------------------------------------------------------------------------
(* The owner, the server, the clock *)

\* onSay: decideSayRouting goes by currentPhase; submit settles the oldest wait or queues.
Say(m) ==
  /\ pc # "down" /\ m \notin said /\ said' = said \cup {m}
  /\ IF phase # "awaiting-owner"
     THEN /\ pendingSay' = Append(pendingSay, m)
          /\ UNCHANGED <<pc, queued, waiters, act, answer, fates>>
     ELSE IF waiters = 0
     THEN /\ queued' = Append(queued, m)
          /\ UNCHANGED <<pc, pendingSay, waiters, act, answer, fates>>
     ELSE /\ waiters' = waiters - 1 /\ UNCHANGED queued
          /\ RunWorkflow(act, {m}, m)
  /\ UNCHANGED <<manifest, phase, stop, hourVars, credential, chatVars, late>>

\* The owner writes to the bot; or forwards, or someone else does.
Arrive(kind) ==
  /\ Len(updates) < MaxUpdates /\ manifest.channel
  /\ updates' = Append(updates, kind)
  /\ UNCHANGED <<manifest, pc, phase, stop, hourVars, credential, act, sayVars, confirmed,
                 offset, late, waiters, answer>>

\* The signal's listeners abort the wait of the round.
Stop ==
  /\ pc # "down" /\ ~stop /\ stop' = TRUE /\ waiters' = 0
  /\ UNCHANGED <<manifest, pc, phase, hourVars, credential, act, sayVars, chatVars, late,
                 answer>>

AskExpires ==
  /\ pc = "waiting" /\ ~late /\ late' = TRUE
  /\ UNCHANGED <<manifest, pc, phase, stop, hourVars, credential, act, sayVars, chatVars,
                 waiters, answer>>

\* `until' comes, and midnight.
HoursChange ==
  /\ manifest.until /\ open' = ~open
  /\ UNCHANGED <<manifest, pc, phase, stop, daemons, alarm, credential, act, sayVars, chatVars,
                 askVars>>

-----------------------------------------------------------------------------
Init ==
  /\ manifest \in [channel : BOOLEAN, until : BOOLEAN, immediate : BOOLEAN]
  /\ pc = "boot" /\ phase = "sleeping" /\ stop = FALSE
  /\ open \in BOOLEAN /\ daemons = FALSE /\ alarm = "turn" /\ credential = FALSE
  /\ act = 1 /\ late = FALSE
  /\ pendingSay = <<>> /\ queued = <<>> /\ waiters = 0
  /\ said = {} /\ taken = {} /\ dropped = {} /\ lost = {} /\ answer = None
  /\ updates = <<>> /\ confirmed = 0 /\ offset = 0

Next ==
  \/ Boot \/ WakeForTurn \/ WakeAtClose \/ SleepStopped \/ AlertSent \/ CredentialRead
  \/ ReportSent \/ ActivityDone \/ ActivityStops \/ ActivityAsks
  \/ WaitStopped \/ AskSent \/ PollReturns \/ Tick
  \/ \E m \in Says : Say(m)
  \/ \E kind \in {"owner", "other"} : Arrive(kind)
  \/ Stop \/ AskExpires \/ HoursChange

Spec == Init /\ [][Next]_vars

\* Requests of the network end (its client's own timeouts), a stopped child dies (SIGKILL after
\* eight seconds), timers fire. Nothing makes an activity end that nobody stops, or a turn come.
Fairness ==
  /\ WF_vars(Boot) /\ WF_vars(SleepStopped) /\ WF_vars(AlertSent) /\ WF_vars(CredentialRead)
  /\ WF_vars(ReportSent) /\ WF_vars(stop /\ ActivityStops)
  /\ WF_vars(WaitStopped) /\ WF_vars(AskSent) /\ WF_vars(PollReturns \/ Tick)
  /\ WF_vars(AskExpires)

LiveSpec == Spec /\ Fairness

-----------------------------------------------------------------------------
(* Properties *)

\* Type invariant of the runner's state (the lets of runServiceRunner, LocalAnswerChannel).
TypeOK ==
  /\ manifest \in [channel : BOOLEAN, until : BOOLEAN, immediate : BOOLEAN]
  /\ pc \in {"boot", "asleep", "alerting", "opening", "activity", "asking", "waiting",
             "reporting", "down"}
  /\ phase \in {"sleeping", "running-turn", "awaiting-owner"}
  /\ stop \in BOOLEAN /\ open \in BOOLEAN /\ daemons \in BOOLEAN /\ credential \in BOOLEAN
  /\ alarm \in {"turn", "close"} /\ act \in 1..Activities /\ late \in BOOLEAN
  /\ pendingSay \in Seq(Says) /\ queued \in Seq(Says) /\ waiters \in 0..1
  /\ said \subseteq Says /\ taken \subseteq Says /\ dropped \subseteq Says /\ lost \subseteq Says
  /\ answer \in Says \cup Updates \cup {None}
  /\ updates \in Seq({"owner", "other"}) /\ Len(updates) <= MaxUpdates
  /\ confirmed \in 0..Len(updates) /\ offset \in 0..Len(updates)

\* A line the owner types has one fate: it waits in one of the two queues, once; or it was given to
\* an activity; or it went with a step that opened none, which happens only when the hours are over
\* or the runner stops; or it answered a question and its activity cannot be run again.  A line
\* meant for the next activity is never lost with a workflow that cannot be run (decideSayRouting,
\* submit, runOneWorkflow before the splice).
SayHasOneHome ==
  LET line == pendingSay \o queued IN
  /\ \A i, j \in DOMAIN line : line[i] = line[j] => i = j
  /\ said = Lines(line) \cup taken \cup dropped \cup lost
  /\ Lines(line) \cap (taken \cup dropped \cup lost) = {}
  /\ taken \cap dropped = {} /\ (taken \cup dropped) \cap lost = {}
  /\ dropped # {} => manifest.until \/ stop

\* While the runner waits and is not stopped, one wait is there for a line to settle and no line
\* lies queued beside it; when it does not wait, no wait of an earlier round is left to swallow
\* the next line (the abort at the end of every round of waitForOwnerReply).
WaiterReady ==
  IF pc = "waiting" /\ ~stop THEN waiters = 1 /\ queued = <<>> ELSE waiters = 0

\* While the hours last, no end of a turn takes the daemons down: only the stop of the runner
\* does (the comment of runServiceRunner about a failing turn that closed the desk).
DaemonsOutliveFailures ==
  [][daemons /\ ~daemons' => stop \/ ~manifest.until \/ ~open]_vars

\* Every wait for the owner ends, by an answer, the stop or its time; and a stopped runner is
\* down in the end wherever the stop met it.
RunnerMovesOn ==
  /\ pc = "waiting" ~> pc # "waiting"
  /\ stop ~> pc = "down"
=============================================================================
