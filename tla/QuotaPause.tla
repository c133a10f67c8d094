----------------------------- MODULE QuotaPause -----------------------------
(***************************************************************************)
(* The session's quota pause (cli-core/src/agent/quota-pause.ts) and the   *)
(* model calls that go through it (loop.ts, callModelPausable).  When the  *)
(* quota runs out the agents wait in one episode; from time to time one of *)
(* them is elected to repeat its own call.                                 *)
(*                                                                         *)
(* Each agent is off (no run), at work between two model calls, in a call, *)
(* in a call it left as the episode's probe, or parked.  A promise that is *)
(* resolved resumes its agent before any other event (microtasks), so a    *)
(* released agent is at its call in the same step.                         *)
(*                                                                         *)
(* Instants are kept as the time left until them, 0 when they have passed: *)
(* the program compares them with the clock and never with each other      *)
(* across episodes.                                                        *)
(***************************************************************************)
EXTENDS Integers, Sequences, SequencesExt, FiniteSets

CONSTANTS
  Agents, Principal,       \* the main agent and the sub-agents; labels are unique
  Nobody,
  ProbeLadder, KnownResetLadder, BalanceLadder,  \* waits between probes
  MaxWait, BalanceMaxWait, \* how long an episode lasts at most
  Resets,                  \* times until reset a provider may announce
  ShortRetryLimit          \* an announced reset below it says nothing of a quota window

NoReset == -1
Off == -1

ASSUME AgentsAssumption == Principal \in Agents /\ Nobody \notin Agents
ASSUME LadderAssumption ==
  \A ladder \in {ProbeLadder, KnownResetLadder, BalanceLadder} :
    ladder \in Seq(Nat \ {0}) /\ ladder # <<>>
ASSUME WaitAssumption == MaxWait \in Nat \ {0} /\ BalanceMaxWait \in Nat \ {0}
ASSUME ResetAssumption == Resets \subseteq Nat /\ ShortRetryLimit \in Nat

VARIABLES
  pc, aborted,   \* each agent and its AbortSignal
  ep,            \* the episode
  stopped,       \* "stop and save" until the owner's next turn
  timer          \* time until the timer fires, or Off

vars == <<pc, aborted, ep, stopped, timer>>

PCs == {"off", "work", "call", "probe", "parked"}

\* probing holds the probe's place; listening says that its abort would free the place (an
\* agent that became the probe at the gate has no such listener).  agents has a snapshot.
Closed ==
  [open |-> FALSE, nextProbe |-> 0, deadline |-> 0, probes |-> 0, probing |-> Nobody,
   listening |-> FALSE, waiters |-> <<>>, agents |-> {}]

LesserOf(x, y) == IF x <= y THEN x ELSE y

-----------------------------------------------------------------------------
(* What a failed call means: not a quota, or a quota verdict.  A short announced reset is  *)
(* believed of rate limits and of credit only.                                             *)

Verdicts ==
  {v \in [rate : BOOLEAN, manual : BOOLEAN, reset : Resets \cup {NoReset}] :
     /\ ~(v.rate /\ v.manual)
     /\ v.rate \/ v.manual \/ v.reset = NoReset \/ v.reset >= ShortRetryLimit}

\* The short rate limit of the main agent is its retry's business, unless a pause is on.
LeftToRetry(a, v) ==
  v.rate /\ a = Principal /\ ~ep.open /\ v.reset <= ShortRetryLimit

\* nextProbeAtMs: a step of the ladder, but no later than an announced future reset.
NextProbeIn(probes, v) ==
  LET ladder == IF v.manual THEN BalanceLadder
                ELSE IF v.reset # NoReset THEN KnownResetLadder ELSE ProbeLadder
      step == ladder[LesserOf(probes + 1, Len(ladder))]
  IN  IF v.reset > 0 THEN LesserOf(step, v.reset) ELSE step

-----------------------------------------------------------------------------
(* The episode *)

CanElect(e) == e.probing = Nobody /\ e.waiters # <<>> /\ e.nextProbe = 0

Elected(e) ==
  IF CanElect(e)
  THEN [e EXCEPT !.probing = Head(e.waiters), !.listening = TRUE, !.waiters = Tail(@)]
  ELSE e

\* The elected agent repeats its call.
ElectedPc(p, e) == IF CanElect(e) THEN [p EXCEPT ![Head(e.waiters)] = "probe"] ELSE p

Dropped(e) == [e EXCEPT !.probing = Nobody, !.listening = FALSE]

\* Mutants: the deadline is left out of the next wake-up; no timer while a probe is out.
WakeForProbe(e) == IF e.probing # Nobody THEN e.deadline ELSE e.nextProbe
WakeWhenIdle(e) == IF e.probing # Nobody THEN Off ELSE LesserOf(e.nextProbe, e.deadline)

\* schedule(): the deadline, and the next probe unless one is under way.
WakeIn(e) == IF e.probing # Nobody THEN e.deadline ELSE LesserOf(e.nextProbe, e.deadline)

Schedule(e) == ep' = e /\ timer' = WakeIn(e)

Waiting(e) == ToSet(e.waiters)

\* An agent waits at most once (NoOrphan): the filter of the code takes out one waiter or none.
Without(s, a) ==
  IF a \in ToSet(s) THEN RemoveAt(s, CHOOSE i \in DOMAIN s : s[i] = a) ELSE s

\* What the end of an episode makes of the agents: the waiting ones go on at `next', and a
\* call that left as its probe is from then on a call like any other.
EpisodeOver(next) ==
  [a \in Agents |-> IF a \in Waiting(ep) THEN next
                    ELSE IF pc[a] = "probe" THEN "call" ELSE pc[a]]

Close == ep' = Closed /\ timer' = Off

\* a joins the waiters of e, with a snapshot of its history.
Park(a, e) ==
  /\ Schedule([e EXCEPT !.waiters = Append(@, a), !.agents = @ \cup {a}])
  /\ pc' = [pc EXCEPT ![a] = "parked"]

-----------------------------------------------------------------------------
(* The agents *)

\* A new turn of the owner takes the session out of "stopped"; a sub-agent does not.
NewTurn ==
  /\ pc[Principal] = "off"
  /\ pc' = [pc EXCEPT ![Principal] = "work"]
  /\ aborted' = [aborted EXCEPT ![Principal] = FALSE]
  /\ stopped' = FALSE
  /\ UNCHANGED <<ep, timer>>

SpawnChild(a) ==
  /\ a # Principal /\ pc[Principal] = "work" /\ pc[a] = "off"
  /\ pc' = [pc EXCEPT ![a] = "work"]
  /\ aborted' = [aborted EXCEPT ![a] = FALSE]
  /\ UNCHANGED <<ep, stopped, timer>>

RunEnds(a) ==
  /\ pc[a] = "work"
  /\ pc' = [pc EXCEPT ![a] = "off"]
  /\ UNCHANGED <<aborted, ep, stopped, timer>>

\* gate: an aborted agent, and any agent of a stopped session, is turned away.
GateRefuses(a) ==
  /\ pc[a] = "work" /\ (aborted[a] \/ stopped)
  /\ pc' = [pc EXCEPT ![a] = "off"]
  /\ UNCHANGED <<aborted, ep, stopped, timer>>

GateOpen(a) ==
  /\ pc[a] = "work" /\ ~aborted[a] /\ ~stopped /\ ~ep.open
  /\ pc' = [pc EXCEPT ![a] = "call"]
  /\ UNCHANGED <<aborted, ep, stopped, timer>>

\* Mutant: the gate does not look whether somebody is probing.
ProbeAtGateAnyway == ep.waiters = <<>> /\ ep.nextProbe = 0

\* becomeProbe: the hour has come and nobody else is there to probe.
ProbeAtGate == ep.probing = Nobody /\ ep.waiters = <<>> /\ ep.nextProbe = 0

GateProbes(a) ==
  /\ pc[a] = "work" /\ ~aborted[a] /\ ~stopped /\ ep.open /\ ProbeAtGate
  /\ pc' = [pc EXCEPT ![a] = "probe"]
  /\ Schedule([ep EXCEPT !.probing = a])
  /\ UNCHANGED <<aborted, stopped>>

GateParks(a) ==
  /\ pc[a] = "work" /\ ~aborted[a] /\ ~stopped /\ ep.open /\ ~ProbeAtGate
  /\ Park(a, ep)
  /\ UNCHANGED <<aborted, stopped>>

Calling(a) == pc[a] \in {"call", "probe"}

\* ok: any call that succeeds means the quota is back; everybody goes on.
CallOk(a) ==
  /\ Calling(a)
  /\ pc' = [EpisodeOver("call") EXCEPT ![a] = "work"]
  /\ IF ep.open THEN Close ELSE UNCHANGED <<ep, timer>>
  /\ UNCHANGED <<aborted, stopped>>

\* handle, not a quota: the probe's place goes to another; the run fails, or, for the main
\* agent, is retried.
CallFails(a) ==
  /\ Calling(a)
  /\ \E next \in {"off"} \cup (IF a = Principal /\ ~aborted[a] THEN {"work"} ELSE {}) :
       LET p == [pc EXCEPT ![a] = next]
       IN  IF ep.probing = a
           THEN pc' = ElectedPc(p, Dropped(ep)) /\ Schedule(Elected(Dropped(ep)))
           ELSE pc' = p /\ UNCHANGED <<ep, timer>>
  /\ UNCHANGED <<aborted, stopped>>

\* handle, a quota, but the agent was aborted or the session stopped meanwhile.
QuotaTooLate(a) ==
  /\ Calling(a) /\ (aborted[a] \/ stopped)
  /\ pc' = [pc EXCEPT ![a] = "off"]
  /\ UNCHANGED <<aborted, ep, stopped, timer>>

Opened(v) ==
  [Closed EXCEPT !.open = TRUE, !.nextProbe = NextProbeIn(0, v),
                 !.deadline = IF v.manual THEN LesserOf(MaxWait, BalanceMaxWait) ELSE MaxWait]

\* Mutant: the session's stop is not looked at.
OpensRegardless(a, v) == ~aborted[a] /\ ~ep.open /\ ~LeftToRetry(a, v)

Opens(a, v) == ~aborted[a] /\ ~stopped /\ ~ep.open /\ ~LeftToRetry(a, v)

\* handle, a quota: the first agent opens the episode.
QuotaOpens(a) ==
  /\ Calling(a)
  /\ \E v \in Verdicts : Opens(a, v) /\ Park(a, Opened(v))
  /\ UNCHANGED <<aborted, stopped>>

LongestLadder == Len(ProbeLadder) + Len(KnownResetLadder) + Len(BalanceLadder)

\* The probe was refused: a longer wait.  (The count matters only up to the ladders' length.)
Refused(e, v) ==
  LET n == LesserOf(e.probes + 1, LongestLadder)
  IN  [Dropped(e) EXCEPT !.probes = n, !.nextProbe = NextProbeIn(n, v)]

\* The deadline passed, or the owner asked to stop and save: everybody waiting is turned out.
StopSaving(p) == pc' = p /\ Close /\ stopped' = TRUE

\* ... the others join it, at the latest until its deadline.
QuotaJoins(a) ==
  /\ Calling(a) /\ ~aborted[a] /\ ~stopped /\ ep.open
  /\ \E v \in Verdicts :
       LET e == IF ep.probing = a THEN Refused(ep, v) ELSE ep
       IN  \/ ep.deadline = 0 /\ StopSaving([EpisodeOver("off") EXCEPT ![a] = "off"])
           \/ ep.deadline > 0 /\ Park(a, e) /\ UNCHANGED stopped
  /\ UNCHANGED aborted

\* Mutant: a waiter that is aborted stays in the list.
NotRemoved(e, a) == [e EXCEPT !.agents = @ \ {a}]

\* removeWaiter: the agent leaves the list; a probe that had not answered yet frees its place.
Removed(e, a) ==
  LET r == [e EXCEPT !.waiters = Without(@, a), !.agents = @ \ {a}]
  IN  IF e.probing = a /\ e.listening THEN Dropped(r) ELSE r

\* ESC or a stop of one agent: a parked one is turned out, a probe with a listener gives up
\* its place though its call is still being cancelled.
Abort(a) ==
  /\ pc[a] # "off" /\ ~aborted[a]
  /\ aborted' = [aborted EXCEPT ![a] = TRUE]
  /\ LET freed == ep.probing = a /\ ep.listening
         p == [pc EXCEPT ![a] = IF freed THEN "call" ELSE "off"]
         r == Removed(ep, a)
         e == IF freed THEN Elected(r) ELSE r
     IN  IF ep.open /\ (pc[a] = "parked" \/ freed)
         THEN /\ pc' = IF freed THEN ElectedPc(p, r) ELSE p
              /\ IF e.waiters = <<>> /\ e.probing = Nobody THEN Close ELSE Schedule(e)
         ELSE UNCHANGED <<pc, ep, timer>>
  /\ UNCHANGED stopped

-----------------------------------------------------------------------------
(* The owner and the clock *)

\* "Try now": a probe at once, unless one is under way.
ResumeNow ==
  /\ stopped' = FALSE
  /\ IF ep.open /\ ep.probing = Nobody
     THEN LET e == [ep EXCEPT !.nextProbe = 0]
          IN  pc' = ElectedPc(pc, e) /\ Schedule(Elected(e))
     ELSE UNCHANGED <<pc, ep, timer>>
  /\ UNCHANGED aborted

OwnerStops ==
  /\ IF ep.open THEN StopSaving(EpisodeOver("off"))
                ELSE stopped' = TRUE /\ UNCHANGED <<pc, ep, timer>>
  /\ UNCHANGED aborted

\* fire
TimerFires ==
  /\ timer = 0 /\ ep.open
  /\ IF ep.deadline = 0
     THEN StopSaving(EpisodeOver("off"))
     ELSE /\ pc' = ElectedPc(pc, ep) /\ Schedule(Elected(ep))
          /\ UNCHANGED stopped
  /\ UNCHANGED aborted

\* Mutant: time left goes below zero.
LessUnfloored(t) == t - 1

Less(t) == IF t > 0 THEN t - 1 ELSE t

Tick ==
  /\ ep.open
  /\ ep' = [ep EXCEPT !.nextProbe = Less(@), !.deadline = Less(@)]
  /\ timer' = Less(timer)
  /\ UNCHANGED <<pc, aborted, stopped>>

-----------------------------------------------------------------------------
Init ==
  /\ pc = [a \in Agents |-> "off"] /\ aborted = [a \in Agents |-> FALSE]
  /\ ep = Closed /\ stopped = FALSE /\ timer = Off

Gate(a) == GateRefuses(a) \/ GateOpen(a) \/ GateProbes(a) \/ GateParks(a)
Answer(a) == CallOk(a) \/ CallFails(a) \/ QuotaTooLate(a) \/ QuotaOpens(a) \/ QuotaJoins(a)

Next ==
  \/ NewTurn \/ ResumeNow \/ OwnerStops \/ TimerFires \/ Tick
  \/ \E a \in Agents : SpawnChild(a) \/ RunEnds(a) \/ Gate(a) \/ Answer(a) \/ Abort(a)

Spec == Init /\ [][Next]_vars

\* Time passes and a due timer fires; a model call may hang for ever.
FairSpec == Spec /\ WF_vars(Tick) /\ WF_vars(TimerFires)

-----------------------------------------------------------------------------
(* Properties *)

Episodes ==
  [open : BOOLEAN, nextProbe : Nat, deadline : Nat, probes : Nat,
   probing : Agents \cup {Nobody}, listening : BOOLEAN, waiters : Seq(Agents),
   agents : SUBSET Agents]

\* The coordinator's fields keep their types; what is left of a closed episode is nothing.
TypeOK ==
  /\ pc \in [Agents -> PCs] /\ aborted \in [Agents -> BOOLEAN]
  /\ ep \in Episodes /\ (~ep.open => ep = Closed)
  /\ stopped \in BOOLEAN /\ timer \in Nat \cup {Off}

\* An agent waits exactly when the episode knows it, once: no promise is left that nothing
\* will settle, and nothing is settled twice.
NoOrphan ==
  /\ \A a \in Agents : pc[a] = "parked" <=> a \in Waiting(ep)
  /\ IsInjective(ep.waiters)

\* "There is never more than one probe in flight" (header, CLI-SEC-8): besides a probe that
\* was cancelled, at most one of the calls that left during the episode is still out.
OneProbeInFlight == \A a, b \in Agents : pc[a] = "probe" /\ pc[b] = "probe" => a = b

\* An open episode always has the timer that ends it or goes on with it: set, no later than
\* the deadline, and no later than the next probe unless one is out.
TimerCovers ==
  ep.open => /\ timer \in 0..ep.deadline
             /\ ep.probing = Nobody => timer <= ep.nextProbe

\* After "stop and save" nothing waits and nothing probes until the owner comes back, whatever
\* the calls that were in flight answer.
StoppedIsQuiet == stopped => ~ep.open /\ \A a \in Agents : pc[a] # "probe"

\* The wait of an episode is bounded: whatever the provider, the owner and the calls in
\* flight do, it ends.
EpisodeEnds == ep.open ~> ~ep.open
=============================================================================
