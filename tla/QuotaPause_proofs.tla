------------------------- MODULE QuotaPause_proofs -------------------------
(***************************************************************************)
(* Theorems about QuotaPause, for every set of agents, all ladders, waits  *)
(* and resets.                                                             *)
(***************************************************************************)
EXTENDS QuotaPause, SequenceTheorems, TLAPS

-----------------------------------------------------------------------------
(* The inductive invariant *)

\* Program counters and an episode that agree: the parked agents are its waiters, each once,
\* and a call that left as a probe is the one that holds the probe's place.
Agree(p, e) ==
  /\ p \in [Agents -> PCs] /\ e \in Episodes
  /\ \A a \in Agents : p[a] = "parked" <=> a \in Waiting(e)
  /\ IsInjective(e.waiters)
  /\ \A a \in Agents : p[a] = "probe" => e.probing = a

Rest ==
  /\ aborted \in [Agents -> BOOLEAN] /\ stopped \in BOOLEAN
  /\ timer \in Nat \cup {Off} /\ (~ep.open => ep = Closed)

IInv == Agree(pc, ep) /\ Rest /\ TimerCovers /\ (stopped => ~ep.open)

-----------------------------------------------------------------------------
(* The building blocks of the actions *)

LEMMA EpisodeFields ==
  ASSUME NEW e \in Episodes
  PROVE  /\ e.open \in BOOLEAN /\ e.nextProbe \in Nat /\ e.deadline \in Nat
         /\ e.probes \in Nat /\ e.probing \in Agents \cup {Nobody}
         /\ e.listening \in BOOLEAN /\ e.waiters \in Seq(Agents) /\ e.agents \in SUBSET Agents
BY DEF Episodes

LEMMA ClosedTyped == Closed \in Episodes /\ ~Closed.open /\ Waiting(Closed) = {}
BY DEF Closed, Episodes, Waiting, ToSet

\* The timer of an open episode covers it.
LEMMA ScheduleCovers ==
  ASSUME NEW e \in Episodes, e.open, Schedule(e)
  PROVE  TimerCovers' /\ timer' \in Nat /\ ep' = e
BY EpisodeFields DEF Schedule, WakeIn, LesserOf, TimerCovers

LEMMA CloseCovers ==
  ASSUME Close
  PROVE  /\ TimerCovers' /\ timer' = Off /\ ep' = Closed /\ ~ep'.open
BY ClosedTyped DEF Close, TimerCovers

\* The next probe is at some later time.
LEMMA NextProbeTyped ==
  ASSUME NEW n \in Nat, NEW v \in Verdicts
  PROVE  NextProbeIn(n, v) \in Nat
<1> DEFINE ladder == IF v.manual THEN BalanceLadder
                     ELSE IF v.reset # NoReset THEN KnownResetLadder ELSE ProbeLadder
           i == LesserOf(n + 1, Len(ladder))
<1>1. ladder \in Seq(Nat \ {0}) /\ ladder # <<>>
  BY LadderAssumption
<1>2. Len(ladder) \in Nat \ {0}
  BY <1>1, EmptySeq, LenProperties
<1>3. i \in 1..Len(ladder)
  BY <1>2 DEF LesserOf
<1>4. ladder[i] \in Nat
  BY <1>1, <1>3, ElementOfSeq
<1>5. v.reset \in Nat \cup {NoReset}
  BY ResetAssumption DEF Verdicts
<1>6. NextProbeIn(n, v) = IF v.reset > 0 THEN LesserOf(ladder[i], v.reset) ELSE ladder[i]
  BY DEF NextProbeIn
<1> HIDE DEF ladder, i
<1> QED
  BY <1>4, <1>5, <1>6 DEF LesserOf, NoReset

\* Who joins at the end of the queue, perhaps giving up the probe's place.
LEMMA AppendAgrees ==
  ASSUME NEW p, NEW e, Agree(p, e), NEW a \in Agents, a \notin Waiting(e),
         NEW f \in Episodes, f.waiters = Append(e.waiters, a),
         f.probing = e.probing \/ e.probing = a
  PROVE  Agree([p EXCEPT ![a] = "parked"], f)
<1> DEFINE q == [p EXCEPT ![a] = "parked"]
<1>1. e.waiters \in Seq(Agents) /\ e \in Episodes
  BY EpisodeFields DEF Agree
<1>2. /\ Len(f.waiters) = Len(e.waiters) + 1 /\ f.waiters[Len(e.waiters) + 1] = a
      /\ \A i \in 1..Len(e.waiters) : f.waiters[i] = e.waiters[i]
      /\ DOMAIN f.waiters = 1..(Len(e.waiters) + 1) /\ DOMAIN e.waiters = 1..Len(e.waiters)
      /\ Len(e.waiters) \in Nat
  BY <1>1, AppendProperties, LenProperties
<1>3. Waiting(f) = Waiting(e) \cup {a}
  BY <1>2 DEF Waiting, ToSet
<1>4. IsInjective(f.waiters)
  BY <1>2 DEF Agree, IsInjective, Waiting, ToSet
<1>5. q \in [Agents -> PCs]
  BY DEF Agree, PCs
<1> QED
  BY <1>3, <1>4, <1>5 DEF Agree

\* What follows the k-th element.
LEMMA TailPart ==
  ASSUME NEW S, NEW s \in Seq(S), NEW k \in 1..Len(s)
  PROVE  /\ SubSeq(s, k + 1, Len(s)) \in Seq(S)
         /\ Len(SubSeq(s, k + 1, Len(s))) = Len(s) - k
         /\ \A i \in 1..(Len(s) - k) : SubSeq(s, k + 1, Len(s))[i] = s[k + i]
<1>1. Len(s) \in Nat /\ k \in Int /\ k + 1 \in Int /\ \A i \in (k + 1)..Len(s) : s[i] \in S
  BY LenProperties, ElementOfSeq
<1>2. \A m, n \in Int : (\A i \in m..n : s[i] \in S) =>
         /\ SubSeq(s,m,n) \in Seq(S)
         /\ Len(SubSeq(s,m,n)) = IF m<=n THEN n-m+1 ELSE 0
         /\ \A i \in 1 .. n-m+1 : SubSeq(s,m,n)[i] = s[m+i-1]
  BY SubSeqProperties
<1>3. /\ SubSeq(s, k + 1, Len(s)) \in Seq(S)
      /\ Len(SubSeq(s, k + 1, Len(s))) = IF k + 1 <= Len(s) THEN Len(s) - (k + 1) + 1 ELSE 0
      /\ \A i \in 1..(Len(s) - (k + 1) + 1) : SubSeq(s, k + 1, Len(s))[i] = s[(k + 1) + i - 1]
  BY <1>1, <1>2
<1> DEFINE u == SubSeq(s, k + 1, Len(s))
<1> HIDE DEF u
<1>4. /\ u \in Seq(S) /\ Len(u) = IF k + 1 <= Len(s) THEN Len(s) - (k + 1) + 1 ELSE 0
      /\ \A i \in 1..(Len(s) - (k + 1) + 1) : u[i] = s[(k + 1) + i - 1]
  BY <1>3 DEF u
<1>5. Len(u) = Len(s) - k
  BY <1>1, <1>4
<1>6. \A i \in 1..(Len(s) - k) : u[i] = s[k + i]
  BY <1>1, <1>4
<1> QED
  BY <1>4, <1>5, <1>6 DEF u

\* What taking out the k-th element leaves.
LEMMA RemoveAtProperties ==
  ASSUME NEW S, NEW s \in Seq(S), NEW k \in 1..Len(s)
  PROVE  /\ RemoveAt(s, k) \in Seq(S) /\ Len(RemoveAt(s, k)) = Len(s) - 1
         /\ \A i \in 1..(Len(s) - 1) : RemoveAt(s, k)[i] = IF i < k THEN s[i] ELSE s[i + 1]
<1> DEFINE u == SubSeq(s, 1, k - 1)
           v == SubSeq(s, k + 1, Len(s))
<1>1. Len(s) \in Nat /\ k \in Int /\ \A i \in 1..Len(s) : s[i] \in S
  BY LenProperties, ElementOfSeq
<1>2. /\ u \in Seq(S) /\ Len(u) = k - 1
      /\ \A i \in 1..(k - 1) : u[i] = s[i]
  BY <1>1, SubSeqProperties
<1>3. /\ v \in Seq(S) /\ Len(v) = Len(s) - k
      /\ \A i \in 1..(Len(s) - k) : v[i] = s[k + i]
  BY TailPart
<1>4. RemoveAt(s, k) = u \o v
  BY DEF RemoveAt
<1> HIDE DEF u, v
<1>5. /\ u \o v \in Seq(S) /\ Len(u \o v) = Len(u) + Len(v)
      /\ \A i \in 1..(Len(u) + Len(v)) : (u \o v)[i] = IF i <= Len(u) THEN u[i] ELSE v[i - Len(u)]
  BY <1>2, <1>3, ConcatProperties
<1> DEFINE w == u \o v
<1> HIDE DEF w
<1>6. /\ w \in Seq(S) /\ Len(w) = Len(u) + Len(v)
      /\ \A i \in 1..(Len(u) + Len(v)) : w[i] = IF i <= Len(u) THEN u[i] ELSE v[i - Len(u)]
  BY <1>5 DEF w
<1>7. Len(w) = Len(s) - 1
  BY <1>1, <1>2, <1>3, <1>6
<1>8. ASSUME NEW i \in 1..(Len(s) - 1)
      PROVE  w[i] = IF i < k THEN s[i] ELSE s[i + 1]
  <2>3. w[i] = IF i <= Len(u) THEN u[i] ELSE v[i - Len(u)]
    BY <1>1, <1>2, <1>3, <1>6
  <2>1. CASE i < k
    BY <1>1, <1>2, <2>3, <2>1
  <2>2. CASE ~(i < k)
    <3>1. i - Len(u) \in 1..(Len(s) - k) /\ k + (i - Len(u)) = i + 1 /\ ~(i <= Len(u))
      BY <1>1, <1>2, <2>2
    <3> QED
      BY <3>1, <2>3, <2>2, <1>3
  <2> QED
    BY <2>1, <2>2
<1> QED
  BY <1>4, <1>6, <1>7, <1>8 DEF w

\* Who leaves the queue.
LEMMA WithoutProperties ==
  ASSUME NEW s \in Seq(Agents), IsInjective(s), NEW a \in Agents
  PROVE  /\ Without(s, a) \in Seq(Agents) /\ IsInjective(Without(s, a))
         /\ ToSet(Without(s, a)) = ToSet(s) \ {a}
<1>1. CASE a \notin ToSet(s)
  BY <1>1 DEF Without
<1>2. CASE a \in ToSet(s)
  <2> DEFINE k == CHOOSE i \in DOMAIN s : s[i] = a
             w == Without(s, a)
  <2>1. k \in DOMAIN s /\ s[k] = a
    BY <1>2 DEF ToSet
  <2>2. DOMAIN s = 1..Len(s) /\ Len(s) \in Nat
    BY LenProperties
  <2>3. w = RemoveAt(s, k)
    BY <1>2 DEF Without
  <2> HIDE DEF k, w
  <2>4. /\ w \in Seq(Agents) /\ Len(w) = Len(s) - 1
        /\ \A i \in 1..(Len(s) - 1) : w[i] = IF i < k THEN s[i] ELSE s[i + 1]
    BY <2>1, <2>2, <2>3, RemoveAtProperties
  <2>5. DOMAIN w = 1..(Len(s) - 1)
    BY <2>2, <2>4, LenProperties
  <2>6. IsInjective(w)
    <3> SUFFICES ASSUME NEW i \in 1..(Len(s) - 1), NEW j \in 1..(Len(s) - 1), w[i] = w[j]
                 PROVE  i = j
      BY <2>5 DEF IsInjective
    <3>1. \A x, y \in 1..Len(s) : s[x] = s[y] => x = y
      BY <2>2 DEF IsInjective
    <3> QED
      BY <2>1, <2>2, <2>4, <3>1
  <2>7. ToSet(w) = ToSet(s) \ {a}
    <3>1. ASSUME NEW b \in ToSet(w) PROVE b \in ToSet(s) \ {a}
      <4>1. PICK i \in 1..(Len(s) - 1) : b = w[i]
        BY <2>5 DEF ToSet
      <4>2. PICK j \in 1..Len(s) : b = s[j] /\ j # k
        BY <4>1, <2>1, <2>2, <2>4
      <4> QED
        BY <4>2, <2>1, <2>2 DEF ToSet, IsInjective
    <3>2. ASSUME NEW b \in ToSet(s) \ {a} PROVE b \in ToSet(w)
      <4>1. PICK j \in 1..Len(s) : b = s[j] /\ j # k
        BY <2>1, <2>2 DEF ToSet
      <4>2. PICK i \in 1..(Len(s) - 1) : b = w[i]
        <5>1. CASE j < k
          BY <5>1, <4>1, <2>1, <2>2, <2>4
        <5>2. CASE j > k
          <6>1. j - 1 \in 1..(Len(s) - 1) /\ ~(j - 1 < k) /\ (j - 1) + 1 = j
            BY <5>2, <2>1, <2>2
          <6> QED
            BY <6>1, <4>1, <2>4
        <5> QED
          BY <4>1, <5>1, <5>2, <2>1, <2>2
      <4> QED
        BY <4>2, <2>5 DEF ToSet
    <3> QED
      BY <3>1, <3>2
  <2> QED
    BY <2>4, <2>6, <2>7 DEF w
<1> QED
  BY <1>1, <1>2

\* The election of the first waiter: it is out of the queue and at its call.
LEMMA ElectionAgrees ==
  ASSUME NEW p, NEW e, Agree(p, e)
  PROVE  Agree(ElectedPc(p, e), Elected(e)) /\ (e.open => Elected(e).open)
<1>1. CASE ~CanElect(e)
  BY <1>1 DEF ElectedPc, Elected
<1>2. CASE CanElect(e)
  <2> DEFINE a == Head(e.waiters)
             f == [e EXCEPT !.probing = a, !.listening = TRUE, !.waiters = Tail(@)]
             q == [p EXCEPT ![a] = "probe"]
  <2>1. e.waiters \in Seq(Agents) /\ e.waiters # <<>> /\ e \in Episodes /\ e.probing = Nobody
    BY <1>2, EpisodeFields DEF Agree, CanElect
  <2>2. /\ a \in Agents /\ Tail(e.waiters) \in Seq(Agents)
        /\ Len(Tail(e.waiters)) = Len(e.waiters) - 1
        /\ \A i \in 1..Len(Tail(e.waiters)) : Tail(e.waiters)[i] = e.waiters[i + 1]
        /\ a = e.waiters[1]
    BY <2>1, HeadTailProperties
  <2>3. /\ Elected(e) = f /\ ElectedPc(p, e) = q /\ f.open = e.open /\ f.probing = a
        /\ f.waiters = Tail(e.waiters)
    BY <1>2, <2>1 DEF Elected, ElectedPc, Episodes
  <2>4. f \in Episodes
    BY <2>1, <2>2 DEF Episodes
  <2> HIDE DEF a, f
  <2>5. /\ DOMAIN e.waiters = 1..Len(e.waiters) /\ Len(e.waiters) \in Nat \ {0}
        /\ DOMAIN f.waiters = 1..(Len(e.waiters) - 1)
        /\ \A i \in 1..(Len(e.waiters) - 1) : f.waiters[i] = e.waiters[i + 1]
    BY <2>1, <2>2, <2>3, EmptySeq, LenProperties
  <2>6. \A i, j \in 1..Len(e.waiters) : e.waiters[i] = e.waiters[j] => i = j
    BY <2>5 DEF Agree, IsInjective
  <2>7. IsInjective(f.waiters)
    <3> SUFFICES ASSUME NEW i \in 1..(Len(e.waiters) - 1), NEW j \in 1..(Len(e.waiters) - 1),
                        f.waiters[i] = f.waiters[j]
                 PROVE  i = j
      BY <2>5 DEF IsInjective
    <3>1. i + 1 = j + 1
      BY <2>5, <2>6
    <3> QED
      BY <3>1
  <2>8. Waiting(f) = Waiting(e) \ {a}
    <3>1. ASSUME NEW b \in Waiting(f) PROVE b \in Waiting(e) \ {a}
      <4>1. PICK i \in 1..(Len(e.waiters) - 1) : b = e.waiters[i + 1]
        BY <2>5 DEF Waiting, ToSet
      <4>2. i + 1 \in 1..Len(e.waiters) /\ i + 1 # 1 /\ 1 \in 1..Len(e.waiters)
        BY <2>5
      <4>3. b # a
        BY <4>1, <4>2, <2>2, <2>6
      <4> QED
        BY <4>1, <4>2, <4>3, <2>5 DEF Waiting, ToSet
    <3>2. ASSUME NEW b \in Waiting(e) \ {a} PROVE b \in Waiting(f)
      <4>1. PICK i \in 1..Len(e.waiters) : b = e.waiters[i] /\ i # 1
        BY <2>2, <2>5 DEF Waiting, ToSet
      <4>2. i - 1 \in 1..(Len(e.waiters) - 1) /\ (i - 1) + 1 = i
        BY <4>1, <2>5
      <4> QED
        BY <4>1, <4>2, <2>5 DEF Waiting, ToSet
    <3> QED
      BY <3>1, <3>2
  <2>9. \A b \in Agents : p[b] # "probe"
    BY <2>1, AgentsAssumption DEF Agree
  <2>10. q \in [Agents -> PCs]
    BY <2>2 DEF Agree, PCs
  <2> QED
    BY <2>2, <2>3, <2>4, <2>7, <2>8, <2>9, <2>10 DEF Agree
<1> QED
  BY <1>1, <1>2

\* An episode that nobody waits in and nobody probes for is as good as closed.
LEMMA NobodyLeft ==
  ASSUME NEW p, NEW e, Agree(p, e), e.waiters = <<>>, e.probing = Nobody
  PROVE  Agree(p, Closed)
<1>1. Waiting(e) = {}
  BY DEF Waiting, ToSet
<1>2. \A a \in Agents : p[a] # "parked" /\ p[a] # "probe"
  BY <1>1, AgentsAssumption DEF Agree
<1>3. IsInjective(Closed.waiters)
  BY DEF Closed, IsInjective
<1> QED
  BY <1>2, <1>3, ClosedTyped DEF Agree

\* The end of an episode leaves nobody waiting and no probe.
LEMMA EpisodeOverAgrees ==
  ASSUME Agree(pc, ep), NEW next \in {"off", "call"}
  PROVE  /\ Agree(EpisodeOver(next), Closed)
         /\ \A a \in Agents, x \in {"off", "work"} : Agree([EpisodeOver(next) EXCEPT ![a] = x], Closed)
<1> DEFINE q == EpisodeOver(next)
<1>1. q \in [Agents -> {"off", "call", "work"}]
  BY DEF EpisodeOver, Agree, PCs
<1>2. \A r \in [Agents -> {"off", "call", "work"}] : Agree(r, Closed)
  <2>1. IsInjective(Closed.waiters)
    BY DEF Closed, IsInjective
  <2> QED
    BY <2>1, ClosedTyped DEF Agree, PCs
<1> HIDE DEF q
<1>3. \A a \in Agents, x \in {"off", "work"} : [q EXCEPT ![a] = x] \in [Agents -> {"off", "call", "work"}]
  BY <1>1
<1> QED
  BY <1>1, <1>2, <1>3 DEF q

-----------------------------------------------------------------------------
(* What the actions have in common *)

\* A step that leaves the episode open, with its timer set anew.
LEMMA GoesOn ==
  ASSUME NEW e, Agree(pc', e), e.open, Schedule(e),
         aborted' \in [Agents -> BOOLEAN], stopped' = FALSE
  PROVE  IInv'
<1>1. e \in Episodes
  BY DEF Agree
<1>2. TimerCovers' /\ timer' \in Nat /\ ep' = e
  BY <1>1, ScheduleCovers
<1> QED
  BY <1>2 DEF IInv, Rest, Agree, Waiting

\* A step that closes it.
LEMMA IsOver ==
  ASSUME Agree(pc', Closed), Close, aborted' \in [Agents -> BOOLEAN], stopped' \in BOOLEAN
  PROVE  IInv'
BY CloseCovers DEF IInv, Rest, Agree, Waiting

\* A step that only moves an agent that neither waits nor probes to such a place.
LEMMA OnlyMoves ==
  ASSUME IInv, NEW a \in Agents, NEW x \in {"off", "work", "call"}, pc[a] # "parked",
         pc' = [pc EXCEPT ![a] = x], UNCHANGED <<ep, timer>>,
         aborted' \in [Agents -> BOOLEAN], stopped' \in BOOLEAN, stopped' => ~ep.open
  PROVE  IInv'
<1>1. Agree(pc', ep)
  BY DEF IInv, Agree, PCs
<1> QED
  BY <1>1 DEF IInv, Rest, Agree, Waiting, TimerCovers

\* A step that moves nobody and leaves the episode alone.
LEMMA NobodyMoves ==
  ASSUME IInv, UNCHANGED <<pc, ep, timer>>,
         aborted' \in [Agents -> BOOLEAN], stopped' \in BOOLEAN, stopped' => ~ep.open
  PROVE  IInv'
BY DEF IInv, Rest, Agree, Waiting, TimerCovers

\* A step that parks an agent.
LEMMA Parks ==
  ASSUME NEW e \in Episodes, e.open, IInv, NEW a \in Agents, pc[a] # "parked",
         e.waiters = ep.waiters, e.probing = ep.probing \/ ep.probing = a,
         Park(a, e), aborted' \in [Agents -> BOOLEAN], stopped' = FALSE
  PROVE  IInv'
<1> DEFINE f == [e EXCEPT !.waiters = Append(@, a), !.agents = @ \cup {a}]
<1>1. /\ f \in Episodes /\ f.waiters = Append(ep.waiters, a) /\ f.probing = e.probing /\ f.open
  <2>1. Append(e.waiters, a) \in Seq(Agents) /\ e.agents \cup {a} \in SUBSET Agents
    BY EpisodeFields, AppendProperties
  <2> QED
    BY <2>1 DEF Episodes
<1>2. Schedule(f) /\ pc' = [pc EXCEPT ![a] = "parked"]
  BY DEF Park
<1> HIDE DEF f
<1>3. Agree(pc, ep) /\ a \notin Waiting(ep)
  BY DEF IInv, Agree
<1>4. Agree(pc', f)
  BY <1>1, <1>2, <1>3, AppendAgrees
<1> QED
  BY <1>1, <1>2, <1>4, GoesOn

\* A refused probe's wait grows.
LEMMA RefusedTyped ==
  ASSUME NEW e \in Episodes, NEW v \in Verdicts
  PROVE  /\ Refused(e, v) \in Episodes /\ Refused(e, v).waiters = e.waiters
         /\ Refused(e, v).open = e.open /\ Refused(e, v).probing = Nobody
<1> DEFINE n == LesserOf(e.probes + 1, LongestLadder)
<1>1. n \in Nat
  <2>1. \A ladder \in {ProbeLadder, KnownResetLadder, BalanceLadder} : Len(ladder) \in Nat
    BY LadderAssumption, LenProperties
  <2>2. LongestLadder \in Nat
    BY <2>1 DEF LongestLadder
  <2> QED
    BY <2>2, EpisodeFields DEF LesserOf
<1>2. NextProbeIn(n, v) \in Nat
  BY <1>1, NextProbeTyped
<1>3. Refused(e, v) = [Dropped(e) EXCEPT !.probes = n, !.nextProbe = NextProbeIn(n, v)]
  BY DEF Refused
<1> HIDE DEF n
<1> QED
  BY <1>1, <1>2, <1>3 DEF Dropped, Episodes

\* A new episode.
LEMMA OpenedTyped ==
  ASSUME NEW v \in Verdicts
  PROVE  /\ Opened(v) \in Episodes /\ Opened(v).open
         /\ Opened(v).waiters = <<>> /\ Opened(v).probing = Nobody
<1>1. NextProbeIn(0, v) \in Nat
  BY NextProbeTyped
<1>2. LesserOf(MaxWait, BalanceMaxWait) \in Nat /\ MaxWait \in Nat
  BY WaitAssumption DEF LesserOf
<1> QED
  BY <1>1, <1>2, ClosedTyped DEF Opened, Closed, Episodes

\* The probe's place is given up by an agent that is no longer a probe.
LEMMA DroppedAgrees ==
  ASSUME NEW p, NEW e, Agree(p, e), NEW a \in Agents, e.probing = a, p[a] # "parked",
         NEW x \in {"off", "work", "call"}
  PROVE  Agree([p EXCEPT ![a] = x], Dropped(e)) /\ Dropped(e).open = e.open
<1>1. e \in Episodes
  BY DEF Agree
<1>2. /\ Dropped(e) \in Episodes /\ Dropped(e).waiters = e.waiters
      /\ Dropped(e).open = e.open /\ Dropped(e).probing = Nobody
  BY <1>1 DEF Dropped, Episodes
<1>3. Waiting(Dropped(e)) = Waiting(e)
  BY <1>2 DEF Waiting
<1> QED
  BY <1>2, <1>3 DEF Agree, PCs

\* An aborted agent that waited, or that held the probe's place and listened, is out.
LEMMA RemovedAgrees ==
  ASSUME Agree(pc, ep), NEW a \in Agents, NEW x \in {"off", "call"},
         pc[a] = "parked" \/ (ep.probing = a /\ ep.listening)
  PROVE  Agree([pc EXCEPT ![a] = x], Removed(ep, a)) /\ Removed(ep, a).open = ep.open
<1> DEFINE w == Without(ep.waiters, a)
           r == [ep EXCEPT !.waiters = Without(@, a), !.agents = @ \ {a}]
<1>1. ep \in Episodes /\ ep.waiters \in Seq(Agents) /\ ep.agents \in SUBSET Agents
  BY EpisodeFields DEF Agree
<1>2. w \in Seq(Agents) /\ IsInjective(w) /\ ToSet(w) = Waiting(ep) \ {a}
  BY <1>1, WithoutProperties DEF Agree, Waiting
<1>3. /\ r \in Episodes /\ r.waiters = w /\ r.open = ep.open /\ r.probing = ep.probing
      /\ r.listening = ep.listening
  BY <1>1, <1>2 DEF Episodes
<1>4. /\ Dropped(r) \in Episodes /\ Dropped(r).waiters = w /\ Dropped(r).open = ep.open
      /\ Dropped(r).probing = Nobody
  BY <1>3 DEF Dropped, Episodes
<1>5. Removed(ep, a) = IF ep.probing = a /\ ep.listening THEN Dropped(r) ELSE r
  BY DEF Removed
<1> DEFINE e == Removed(ep, a)
<1> HIDE DEF w, r, e
<1>6. /\ e \in Episodes /\ e.waiters = w /\ e.open = ep.open
      /\ e.probing = IF ep.probing = a /\ ep.listening THEN Nobody ELSE ep.probing
  BY <1>3, <1>4, <1>5 DEF e
<1>7. Waiting(e) = Waiting(ep) \ {a} /\ IsInjective(e.waiters)
  BY <1>2, <1>6 DEF Waiting
<1>8. Agree([pc EXCEPT ![a] = x], e)
  BY <1>6, <1>7 DEF Agree, PCs
<1> QED
  BY <1>6, <1>8 DEF e

-----------------------------------------------------------------------------
(* The steps *)

LEMMA InitHolds == Init => IInv
<1> SUFFICES ASSUME Init PROVE IInv
  OBVIOUS
<1>1. ep = Closed /\ Waiting(ep) = {}
  BY ClosedTyped DEF Init
<1>2. IsInjective(ep.waiters)
  BY <1>1 DEF Closed, IsInjective
<1> QED
  BY <1>1, <1>2, ClosedTyped DEF Init, IInv, Agree, Rest, PCs, TimerCovers

\* The owner's new turn, a sub-agent's birth and the end of a run.
LEMMA RunSteps ==
  ASSUME IInv, NewTurn \/ \E a \in Agents : SpawnChild(a) \/ RunEnds(a)
  PROVE  IInv'
<1>1. CASE NewTurn
  <2>1. aborted' \in [Agents -> BOOLEAN]
    BY <1>1, AgentsAssumption DEF NewTurn, IInv, Rest
  <2> QED
    BY <1>1, <2>1, OnlyMoves, AgentsAssumption DEF NewTurn
<1>2. ASSUME NEW a \in Agents, SpawnChild(a) PROVE IInv'
  <2>1. aborted' \in [Agents -> BOOLEAN] /\ stopped' \in BOOLEAN /\ (stopped' => ~ep.open)
    BY <1>2 DEF SpawnChild, IInv, Rest
  <2> QED
    BY <1>2, <2>1, OnlyMoves DEF SpawnChild
<1>3. ASSUME NEW a \in Agents, RunEnds(a) PROVE IInv'
  <2>1. aborted' \in [Agents -> BOOLEAN] /\ stopped' \in BOOLEAN /\ (stopped' => ~ep.open)
    BY <1>3 DEF RunEnds, IInv, Rest
  <2> QED
    BY <1>3, <2>1, OnlyMoves DEF RunEnds
<1> QED
  BY <1>1, <1>2, <1>3

LEMMA GateStep ==
  ASSUME IInv, NEW a \in Agents, Gate(a)
  PROVE  IInv'
<1>0. /\ aborted \in [Agents -> BOOLEAN] /\ stopped \in BOOLEAN /\ (stopped => ~ep.open)
      /\ Agree(pc, ep) /\ ep \in Episodes
  BY DEF IInv, Rest, Agree
<1>1. CASE GateRefuses(a)
  BY <1>0, <1>1, OnlyMoves DEF GateRefuses
<1>2. CASE GateOpen(a)
  BY <1>0, <1>2, OnlyMoves DEF GateOpen
<1>3. CASE GateProbes(a)
  <2> DEFINE e == [ep EXCEPT !.probing = a]
  <2>1. /\ ep.open /\ ep.probing = Nobody /\ pc[a] = "work" /\ Schedule(e)
        /\ pc' = [pc EXCEPT ![a] = "probe"] /\ stopped' = FALSE /\ aborted' = aborted
    BY <1>0, <1>3 DEF GateProbes, ProbeAtGate
  <2>2. e \in Episodes /\ e.waiters = ep.waiters /\ e.open = ep.open /\ e.probing = a
    BY <1>0 DEF Episodes
  <2> HIDE DEF e
  <2>3. Waiting(e) = Waiting(ep)
    BY <2>2 DEF Waiting
  <2>4. \A b \in Agents : pc[b] # "probe"
    BY <1>0, <2>1, AgentsAssumption DEF Agree
  <2>5. Agree(pc', e)
    BY <1>0, <2>1, <2>2, <2>3, <2>4 DEF Agree, PCs
  <2> QED
    BY <1>0, <2>1, <2>2, <2>5, GoesOn
<1>4. CASE GateParks(a)
  BY <1>0, <1>4, Parks DEF GateParks
<1> QED
  BY <1>1, <1>2, <1>3, <1>4 DEF Gate

LEMMA AnswerStep ==
  ASSUME IInv, NEW a \in Agents, Answer(a)
  PROVE  IInv'
<1>0. /\ aborted \in [Agents -> BOOLEAN] /\ stopped \in BOOLEAN /\ (stopped => ~ep.open)
      /\ Agree(pc, ep) /\ ep \in Episodes /\ (~ep.open => ep = Closed)
  BY DEF IInv, Rest, Agree
<1>1. CASE CallOk(a)
  <2>1. Agree([EpisodeOver("call") EXCEPT ![a] = "work"], Closed)
    BY <1>0, EpisodeOverAgrees
  <2>2. CASE ep.open
    BY <1>0, <1>1, <2>1, <2>2, IsOver DEF CallOk
  <2>3. CASE ~ep.open
    <3>1. ep' = Closed /\ Agree(pc', ep') /\ timer' = timer /\ UNCHANGED <<aborted, stopped, ep>>
      BY <1>0, <1>1, <2>1, <2>3 DEF CallOk
    <3> QED
      BY <3>1, <2>3 DEF IInv, Rest, TimerCovers
  <2> QED
    BY <2>2, <2>3
<1>2. CASE CallFails(a)
  <2>1. PICK next \in {"off", "work"} :
          LET p == [pc EXCEPT ![a] = next]
          IN  IF ep.probing = a
              THEN pc' = ElectedPc(p, Dropped(ep)) /\ Schedule(Elected(Dropped(ep)))
              ELSE pc' = p /\ UNCHANGED <<ep, timer>>
    BY <1>2 DEF CallFails
  <2>2. UNCHANGED <<aborted, stopped>> /\ pc[a] # "parked"
    BY <1>2 DEF CallFails, Calling
  <2> DEFINE p == [pc EXCEPT ![a] = next]
  <2>3. CASE ep.probing = a
    <3>1. ep.open
      BY <1>0, <2>3, AgentsAssumption DEF Closed
    <3>2. Agree(p, Dropped(ep)) /\ Dropped(ep).open
      BY <1>0, <2>2, <2>3, <3>1, DroppedAgrees
    <3>3. pc' = ElectedPc(p, Dropped(ep)) /\ Schedule(Elected(Dropped(ep)))
      BY <2>1, <2>3
    <3> HIDE DEF p
    <3>4. Agree(pc', Elected(Dropped(ep))) /\ Elected(Dropped(ep)).open
      BY <3>2, <3>3, ElectionAgrees
    <3> QED
      BY <1>0, <2>2, <3>1, <3>3, <3>4, GoesOn
  <2>4. CASE ep.probing # a
    BY <1>0, <2>1, <2>2, <2>4, OnlyMoves
  <2> QED
    BY <2>3, <2>4
<1>3. CASE QuotaTooLate(a)
  BY <1>0, <1>3, OnlyMoves DEF QuotaTooLate, Calling
<1>4. CASE QuotaOpens(a)
  <2>1. PICK v \in Verdicts : Opens(a, v) /\ Park(a, Opened(v))
    BY <1>4 DEF QuotaOpens
  <2>2. ep = Closed /\ stopped' = FALSE /\ aborted' = aborted /\ pc[a] # "parked"
    BY <1>0, <1>4, <2>1 DEF QuotaOpens, Opens, Calling
  <2>3. Opened(v).waiters = ep.waiters /\ Opened(v).probing = ep.probing
    BY <2>2, OpenedTyped DEF Closed
  <2> QED
    BY <1>0, <2>1, <2>2, <2>3, OpenedTyped, Parks
<1>5. CASE QuotaJoins(a)
  <2>1. PICK v \in Verdicts :
          LET e == IF ep.probing = a THEN Refused(ep, v) ELSE ep
          IN  \/ ep.deadline = 0 /\ StopSaving([EpisodeOver("off") EXCEPT ![a] = "off"])
              \/ ep.deadline > 0 /\ Park(a, e) /\ UNCHANGED stopped
    BY <1>5 DEF QuotaJoins
  <2>2. ep.open /\ ~stopped /\ aborted' = aborted /\ pc[a] # "parked"
    BY <1>5 DEF QuotaJoins, Calling
  <2>3. CASE StopSaving([EpisodeOver("off") EXCEPT ![a] = "off"])
    <3>1. Agree(pc', Closed) /\ Close /\ stopped' = TRUE
      BY <1>0, <2>3, EpisodeOverAgrees DEF StopSaving
    <3> QED
      BY <1>0, <2>2, <3>1, IsOver
  <2>4. CASE ep.probing = a /\ Park(a, Refused(ep, v)) /\ UNCHANGED stopped
    BY <1>0, <2>2, <2>4, RefusedTyped, Parks
  <2>5. CASE ep.probing # a /\ Park(a, ep) /\ UNCHANGED stopped
    BY <1>0, <2>2, <2>5, Parks
  <2> QED
    BY <2>1, <2>3, <2>4, <2>5
<1> QED
  BY <1>1, <1>2, <1>3, <1>4, <1>5 DEF Answer

LEMMA AbortStep ==
  ASSUME IInv, NEW a \in Agents, Abort(a)
  PROVE  IInv'
<1>0. /\ aborted \in [Agents -> BOOLEAN] /\ stopped \in BOOLEAN /\ (stopped => ~ep.open)
      /\ Agree(pc, ep)
  BY DEF IInv, Rest
<1>1. aborted' \in [Agents -> BOOLEAN] /\ stopped' = stopped
  BY <1>0 DEF Abort
<1> DEFINE freed == ep.probing = a /\ ep.listening
           p == [pc EXCEPT ![a] = IF freed THEN "call" ELSE "off"]
           r == Removed(ep, a)
           e == IF freed THEN Elected(r) ELSE r
           q == IF freed THEN ElectedPc(p, r) ELSE p
<1>2. CASE ep.open /\ (pc[a] = "parked" \/ freed)
  <2>1. pc' = q /\ IF e.waiters = <<>> /\ e.probing = Nobody THEN Close ELSE Schedule(e)
    BY <1>2 DEF Abort
  <2>2. Agree(p, r) /\ r.open
    BY <1>0, <1>2, RemovedAgrees
  <2> HIDE DEF p, r
  <2>3. Agree(q, e) /\ e.open
    BY <2>2, ElectionAgrees
  <2> HIDE DEF q, e
  <2>4. CASE e.waiters = <<>> /\ e.probing = Nobody
    <3>1. Agree(pc', Closed)
      BY <2>1, <2>3, <2>4, NobodyLeft
    <3> QED
      BY <1>0, <1>1, <2>1, <2>4, <3>1, IsOver
  <2>5. CASE ~(e.waiters = <<>> /\ e.probing = Nobody)
    BY <1>0, <1>1, <1>2, <2>1, <2>3, <2>5, GoesOn
  <2> QED
    BY <2>4, <2>5
<1>3. CASE ~(ep.open /\ (pc[a] = "parked" \/ freed))
  <2>1. UNCHANGED <<pc, ep, timer>>
    BY <1>3 DEF Abort
  <2> QED
    BY <1>0, <1>1, <2>1, NobodyMoves
<1> QED
  BY <1>2, <1>3

\* "Try now" and the timer.
LEMMA ClockAndOwner ==
  ASSUME IInv, ResumeNow \/ OwnerStops \/ TimerFires \/ Tick
  PROVE  IInv'
<1>0. /\ aborted \in [Agents -> BOOLEAN] /\ stopped \in BOOLEAN /\ (stopped => ~ep.open)
      /\ Agree(pc, ep) /\ ep \in Episodes
  BY DEF IInv, Rest, Agree
<1>1. CASE ResumeNow
  <2> DEFINE e == [ep EXCEPT !.nextProbe = 0]
  <2>1. aborted' = aborted /\ stopped' = FALSE
    BY <1>1 DEF ResumeNow
  <2>2. CASE ep.open /\ ep.probing = Nobody
    <3>1. pc' = ElectedPc(pc, e) /\ Schedule(Elected(e))
      BY <1>1, <2>2 DEF ResumeNow
    <3>2. e \in Episodes /\ e.waiters = ep.waiters /\ e.open = ep.open /\ e.probing = ep.probing
      BY <1>0 DEF Episodes
    <3> HIDE DEF e
    <3>3. Agree(pc, e)
      BY <1>0, <3>2 DEF Agree, Waiting
    <3>4. Agree(pc', Elected(e)) /\ Elected(e).open
      BY <2>2, <3>1, <3>2, <3>3, ElectionAgrees
    <3> QED
      BY <1>0, <2>1, <3>1, <3>4, GoesOn
  <2>3. CASE ~(ep.open /\ ep.probing = Nobody)
    <3>1. UNCHANGED <<pc, ep, timer>>
      BY <1>1, <2>3 DEF ResumeNow
    <3> QED
      BY <1>0, <2>1, <3>1, NobodyMoves
  <2> QED
    BY <2>2, <2>3
<1>2. CASE OwnerStops
  <2>1. CASE ep.open
    <3>1. Agree(pc', Closed) /\ Close /\ stopped' = TRUE /\ aborted' = aborted
      BY <1>0, <1>2, <2>1, EpisodeOverAgrees DEF OwnerStops, StopSaving
    <3> QED
      BY <1>0, <3>1, IsOver
  <2>2. CASE ~ep.open
    BY <1>0, <1>2, <2>2, NobodyMoves DEF OwnerStops
  <2> QED
    BY <2>1, <2>2
<1>3. CASE TimerFires
  <2>1. CASE ep.deadline = 0
    <3>1. Agree(pc', Closed) /\ Close /\ stopped' = TRUE /\ aborted' = aborted
      BY <1>0, <1>3, <2>1, EpisodeOverAgrees DEF TimerFires, StopSaving
    <3> QED
      BY <1>0, <3>1, IsOver
  <2>2. CASE ep.deadline # 0
    <3>1. /\ pc' = ElectedPc(pc, ep) /\ Schedule(Elected(ep)) /\ aborted' = aborted
          /\ stopped' = FALSE /\ ep.open
      BY <1>0, <1>3, <2>2 DEF TimerFires
    <3>2. Agree(pc', Elected(ep)) /\ Elected(ep).open
      BY <1>0, <3>1, ElectionAgrees
    <3> QED
      BY <1>0, <3>1, <3>2, GoesOn
  <2> QED
    BY <2>1, <2>2
<1>4. CASE Tick
  <2>1. /\ ep.open /\ UNCHANGED <<pc, aborted, stopped>> /\ timer' = Less(timer)
        /\ ep' = [ep EXCEPT !.nextProbe = Less(ep.nextProbe), !.deadline = Less(ep.deadline)]
    BY <1>4 DEF Tick
  <2>2. Less(ep.nextProbe) \in Nat /\ Less(ep.deadline) \in Nat
    BY <1>0, EpisodeFields DEF Less
  <2>3. /\ ep' \in Episodes /\ ep'.waiters = ep.waiters /\ ep'.open = ep.open
        /\ ep'.probing = ep.probing /\ ep'.nextProbe = Less(ep.nextProbe)
        /\ ep'.deadline = Less(ep.deadline)
    BY <1>0, <2>1, <2>2 DEF Episodes
  <2>4. Agree(pc', ep')
    BY <1>0, <2>1, <2>3 DEF Agree, Waiting
  <2>5. TimerCovers' /\ timer' \in Nat
    BY <1>0, <2>1, <2>3, EpisodeFields DEF IInv, TimerCovers, Less
  <2> QED
    BY <1>0, <2>1, <2>3, <2>4, <2>5 DEF IInv, Rest
<1> QED
  BY <1>1, <1>2, <1>3, <1>4

LEMMA StepHolds == IInv /\ [Next]_vars => IInv'
<1> SUFFICES ASSUME IInv, [Next]_vars PROVE IInv'
  OBVIOUS
<1>1. CASE NewTurn \/ \E a \in Agents : SpawnChild(a) \/ RunEnds(a)
  BY <1>1, RunSteps
<1>2. ASSUME NEW a \in Agents, Gate(a) PROVE IInv'
  BY <1>2, GateStep
<1>3. ASSUME NEW a \in Agents, Answer(a) PROVE IInv'
  BY <1>3, AnswerStep
<1>4. ASSUME NEW a \in Agents, Abort(a) PROVE IInv'
  BY <1>4, AbortStep
<1>5. CASE ResumeNow \/ OwnerStops \/ TimerFires \/ Tick
  BY <1>5, ClockAndOwner
<1>6. CASE UNCHANGED vars
  BY <1>6 DEF vars, IInv, Rest, Agree, Waiting, TimerCovers
<1> QED
  BY <1>1, <1>2, <1>3, <1>4, <1>5, <1>6 DEF Next

-----------------------------------------------------------------------------
(* The theorems *)

\* The inductive invariant holds of every run.
THEOREM Invariance == Spec => []IInv
BY InitHolds, StepHolds, PTL DEF Spec

\* The coordinator's fields keep their types, and nothing is left of a closed episode.
THEOREM TypesHold == Spec => []TypeOK
<1>1. IInv => TypeOK
  BY DEF IInv, Rest, Agree, TypeOK
<1> QED
  BY <1>1, Invariance, PTL

\* However the gates, answers, aborts, stops and timers of any number of agents interleave,
\* an agent waits exactly when the episode lists it, once: the end of the episode, which
\* settles the promises of the list, leaves nobody waiting for ever and settles none twice.
THEOREM NoOrphanHolds == Spec => []NoOrphan
<1>1. IInv => NoOrphan
  BY DEF IInv, Agree, NoOrphan
<1> QED
  BY <1>1, Invariance, PTL

\* At most one of the calls that left as a probe is out.
THEOREM OneProbe == Spec => []OneProbeInFlight
<1>1. IInv => OneProbeInFlight
  BY DEF IInv, Agree, OneProbeInFlight
<1> QED
  BY <1>1, Invariance, PTL

\* An open episode has a timer, no later than its deadline and than the next probe it waits
\* for, whatever ladders and announced resets the waits come from.
THEOREM TimerCovered == Spec => []TimerCovers
<1>1. IInv => TimerCovers
  BY DEF IInv
<1> QED
  BY <1>1, Invariance, PTL

\* After "stop and save", whatever is still in flight, nothing waits and nothing probes until
\* the owner comes back.
THEOREM QuietAfterStop == Spec => []StoppedIsQuiet
<1>1. IInv => StoppedIsQuiet
  BY AgentsAssumption DEF IInv, Rest, Agree, StoppedIsQuiet, Closed
<1> QED
  BY <1>1, Invariance, PTL

-----------------------------------------------------------------------------
(* The end of an episode *)

\* A step leaves the deadline of an open episode where it is, or brings it nearer, or ends it.
DeadlineStep ==
  ep.open =>
    \/ ~ep'.open
    \/ ep'.open /\ ep'.deadline = ep.deadline
    \/ ep'.open /\ ep.deadline > 0 /\ ep'.deadline = ep.deadline - 1

DeadlineInv == ep.open => ep.deadline \in 0..MaxWait

\* Electing an agent and dropping a probe leave opening and deadline alone.
LEMMA SameDeadline ==
  ASSUME NEW e \in Episodes
  PROVE  /\ Elected(e).deadline = e.deadline /\ Elected(e).open = e.open
         /\ Dropped(e).deadline = e.deadline /\ Dropped(e).open = e.open
BY DEF Elected, Dropped, Episodes

LEMMA ParkDeadline ==
  ASSUME NEW e \in Episodes, NEW a \in Agents, Park(a, e)
  PROVE  ep'.deadline = e.deadline /\ ep'.open = e.open
BY DEF Park, Schedule, Episodes

LEMMA RefusedDeadline ==
  ASSUME NEW e \in Episodes, NEW v \in Verdicts
  PROVE  Refused(e, v).deadline = e.deadline /\ Refused(e, v).open = e.open
BY DEF Refused, Dropped, Episodes

LEMMA RemovedDeadline ==
  ASSUME NEW e \in Episodes, NEW a \in Agents
  PROVE  Removed(e, a).deadline = e.deadline /\ Removed(e, a).open = e.open
BY DEF Removed, Dropped, Episodes

LEMMA OpenedDeadline ==
  ASSUME NEW v \in Verdicts
  PROVE  Opened(v).open /\ Opened(v).deadline \in 0..MaxWait
BY WaitAssumption DEF Opened, Closed, LesserOf

LEMMA DeadlineMoves ==
  ASSUME IInv, [Next]_vars
  PROVE  DeadlineStep /\ (DeadlineInv => DeadlineInv')
<1>0. ep \in Episodes /\ ep.deadline \in Nat /\ ep.open \in BOOLEAN /\ ~Closed.open /\ MaxWait \in Nat
  BY EpisodeFields, ClosedTyped, WaitAssumption DEF IInv, Agree
<1>1. ASSUME ep'.open = ep.open, ep'.deadline = ep.deadline
      PROVE  DeadlineStep /\ (DeadlineInv => DeadlineInv')
  BY <1>1 DEF DeadlineStep, DeadlineInv
<1>2. ASSUME ~ep'.open
      PROVE  DeadlineStep /\ (DeadlineInv => DeadlineInv')
  BY <1>2 DEF DeadlineStep, DeadlineInv
<1>3. Close => ~ep'.open
  BY <1>0 DEF Close
<1>4. ASSUME NEW e \in Episodes, e.open = ep.open, e.deadline = ep.deadline,
             \/ ep' = e \/ Schedule(e) \/ Schedule(Elected(e)) \/ Schedule(Elected(Dropped(e)))
             \/ \E a \in Agents : Park(a, e)
      PROVE  DeadlineStep /\ (DeadlineInv => DeadlineInv')
  <2>1. Dropped(e) \in Episodes
    BY DEF Dropped, Episodes
  <2>2. CASE \E a \in Agents : Park(a, e)
    BY <1>1, <1>4, <2>2, ParkDeadline
  <2>3. CASE ep' = e \/ Schedule(e) \/ Schedule(Elected(e)) \/ Schedule(Elected(Dropped(e)))
    <3>1. ep'.open = e.open /\ ep'.deadline = e.deadline
      BY <2>1, <2>3, SameDeadline DEF Schedule
    <3> QED
      BY <1>1, <1>4, <3>1
  <2> QED
    BY <1>4, <2>2, <2>3
<1>5. CASE UNCHANGED ep
  BY <1>0, <1>4, <1>5
<1>6. CASE \E a \in Agents : GateProbes(a) \/ GateParks(a)
  <2>1. ASSUME NEW a \in Agents, GateProbes(a) PROVE ep'.open = ep.open /\ ep'.deadline = ep.deadline
    BY <1>0, <2>1 DEF GateProbes, Schedule, Episodes
  <2>2. ASSUME NEW a \in Agents, GateParks(a) PROVE ep'.open = ep.open /\ ep'.deadline = ep.deadline
    BY <1>0, <2>2, ParkDeadline DEF GateParks
  <2> QED
    BY <1>1, <1>6, <2>1, <2>2
<1>7. CASE \E a \in Agents : CallOk(a)
  BY <1>2, <1>3, <1>5, <1>7 DEF CallOk
<1>8. CASE \E a \in Agents : CallFails(a)
  <2>1. Schedule(Elected(Dropped(ep))) \/ UNCHANGED ep
    BY <1>8 DEF CallFails
  <2> QED
    BY <1>0, <1>4, <2>1
<1>9. CASE \E a \in Agents : QuotaOpens(a)
  <2>1. PICK a \in Agents, v \in Verdicts : Opens(a, v) /\ Park(a, Opened(v))
    BY <1>9 DEF QuotaOpens
  <2>2. ~ep.open /\ ep'.open /\ ep'.deadline \in 0..MaxWait
    BY <2>1, OpenedTyped, OpenedDeadline, ParkDeadline DEF Opens
  <2> QED
    BY <2>2 DEF DeadlineStep, DeadlineInv
<1>10. CASE \E a \in Agents : QuotaJoins(a)
  <2>1. PICK a \in Agents, v \in Verdicts :
          \/ Close
          \/ Park(a, Refused(ep, v)) \/ Park(a, ep)
    BY <1>10 DEF QuotaJoins, StopSaving
  <2>2. Refused(ep, v) \in Episodes
    BY <1>0, RefusedTyped
  <2> QED
    BY <1>0, <1>2, <1>3, <1>4, <2>1, <2>2, RefusedDeadline
<1>11. CASE \E a \in Agents : Abort(a)
  <2>1. PICK a \in Agents : Abort(a)
    BY <1>11
  <2>2. \/ Close \/ UNCHANGED ep
        \/ Schedule(Elected(Removed(ep, a))) \/ Schedule(Removed(ep, a))
    BY <2>1 DEF Abort
  <2>3. CASE UNCHANGED ep
    BY <1>5, <2>3
  <2>4. CASE Schedule(Elected(Removed(ep, a))) \/ Schedule(Removed(ep, a))
    <3>1. Elected(Removed(ep, a)).open = ep.open /\ Elected(Removed(ep, a)).deadline = ep.deadline
      BY <1>0, RemovedDeadline DEF Elected, Removed, Dropped, Episodes
    <3> QED
      BY <1>0, <1>1, <2>4, <3>1, RemovedDeadline DEF Schedule
  <2> QED
    BY <1>2, <1>3, <2>2, <2>3, <2>4
<1>12. CASE ResumeNow
  <2> DEFINE e == [ep EXCEPT !.nextProbe = 0]
  <2>1. e \in Episodes /\ e.open = ep.open /\ e.deadline = ep.deadline
    BY <1>0 DEF Episodes
  <2>2. Schedule(Elected(e)) \/ UNCHANGED ep
    BY <1>12 DEF ResumeNow
  <2> HIDE DEF e
  <2> QED
    BY <1>4, <1>5, <2>1, <2>2
<1>13. CASE OwnerStops
  BY <1>2, <1>3, <1>5, <1>13 DEF OwnerStops, StopSaving
<1>14. CASE TimerFires
  BY <1>0, <1>2, <1>3, <1>4, <1>14 DEF TimerFires, StopSaving
<1>15. CASE Tick
  <2>1. ep'.open = ep.open /\ ep'.deadline = Less(ep.deadline)
    BY <1>0, <1>15 DEF Tick, Episodes
  <2> QED
    BY <1>0, <2>1 DEF Less, DeadlineStep, DeadlineInv
<1>16. CASE \/ UNCHANGED vars \/ NewTurn
            \/ \E a \in Agents : SpawnChild(a) \/ RunEnds(a) \/ GateRefuses(a) \/ GateOpen(a)
                                 \/ QuotaTooLate(a)
  BY <1>5, <1>16 DEF vars, NewTurn, SpawnChild, RunEnds, GateRefuses, GateOpen, QuotaTooLate
<1> QED
  BY <1>6, <1>7, <1>8, <1>9, <1>10, <1>11, <1>12, <1>13, <1>14, <1>15, <1>16
     DEF Next, Gate, Answer

\* The wait of an episode has an end that nothing puts off: it opens with at most MaxWait, no
\* refused probe, late joiner, election or "try now" adds to that, and when the time is over
\* the timer is due (quota-pause.ts, deadlineMs and schedule).
THEOREM EpisodesRunOut ==
  Spec => /\ [](ep.open => ep.deadline \in 0..MaxWait /\ (ep.deadline = 0 => timer = 0))
          /\ [][DeadlineStep]_vars
<1>1. Init => DeadlineInv
  BY ClosedTyped DEF Init, DeadlineInv
<1>2. IInv /\ DeadlineInv /\ [Next]_vars => DeadlineInv'
  BY DeadlineMoves
<1>3. IInv /\ [Next]_vars => [DeadlineStep]_vars
  BY DeadlineMoves
<1>4. IInv /\ DeadlineInv => (ep.open => ep.deadline \in 0..MaxWait /\ (ep.deadline = 0 => timer = 0))
  BY DEF IInv, TimerCovers, DeadlineInv
<1> QED
  BY <1>1, <1>2, <1>3, <1>4, Invariance, PTL DEF Spec
=============================================================================
