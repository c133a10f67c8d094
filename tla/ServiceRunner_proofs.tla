----------------------- MODULE ServiceRunner_proofs -----------------------
(***************************************************************************)
(* Proofs about ServiceRunner, for any number of activities, lines of the  *)
(* owner and updates: a line has one place and one fate, the wait is       *)
(* there when the runner waits and at no other time, a turn that fails     *)
(* does not close the desk, and a stop leads down.                         *)
(***************************************************************************)
EXTENDS ServiceRunner, TLAPS

\* SayHasOneHome queue by queue, which is how the steps change it.
OnceIn(s) == \A i, j \in DOMAIN s : s[i] = s[j] => i = j

\* The lines that wait no more.
Gone == taken \cup dropped \cup lost

FatesFit == taken \subseteq Says /\ dropped \subseteq Says /\ lost \subseteq Says

HomeInv ==
  /\ OnceIn(pendingSay) /\ OnceIn(queued)
  /\ Lines(pendingSay) \cap Lines(queued) = {}
  /\ said = Lines(pendingSay) \cup Lines(queued) \cup Gone
  /\ (Lines(pendingSay) \cup Lines(queued)) \cap Gone = {}
  /\ taken \cap dropped = {} /\ (taken \cup dropped) \cap lost = {}
  /\ dropped # {} => manifest.until \/ stop

IInv == TypeOK /\ WaiterReady /\ HomeInv

-----------------------------------------------------------------------------
(* Sequences of lines *)

LEMMA LinesTyped ==
  ASSUME NEW S, NEW s \in Seq(S)
  PROVE  Lines(s) \subseteq S
BY DEF Lines

LEMMA EmptyLines == Lines(<<>>) = {} /\ OnceIn(<<>>)
BY DEF Lines, OnceIn

LEMMA AppendLines ==
  ASSUME NEW S, NEW s \in Seq(S), NEW m \in S
  PROVE  /\ Append(s, m) \in Seq(S)
         /\ Lines(Append(s, m)) = Lines(s) \cup {m}
         /\ OnceIn(s) /\ m \notin Lines(s) => OnceIn(Append(s, m))
<1>1. DOMAIN s = 1..Len(s) /\ Len(s) \in Nat
  OBVIOUS
<1>2. Append(s, m) \in Seq(S) /\ DOMAIN Append(s, m) = 1..(Len(s) + 1)
  OBVIOUS
<1>3. \A i \in 1..(Len(s) + 1) : Append(s, m)[i] = IF i \in 1..Len(s) THEN s[i] ELSE m
  OBVIOUS
<1>4. Lines(Append(s, m)) = Lines(s) \cup {m}
  BY <1>1, <1>2, <1>3 DEF Lines
<1>5. ASSUME OnceIn(s), m \notin Lines(s)
      PROVE  OnceIn(Append(s, m))
  BY <1>1, <1>2, <1>3, <1>5 DEF OnceIn, Lines
<1> QED
  BY <1>2, <1>4, <1>5

LEMMA TailLines ==
  ASSUME NEW S, NEW s \in Seq(S), s # <<>>, OnceIn(s)
  PROVE  /\ Tail(s) \in Seq(S) /\ Head(s) \in S
         /\ Lines(s) = Lines(Tail(s)) \cup {Head(s)}
         /\ Head(s) \notin Lines(Tail(s))
         /\ OnceIn(Tail(s))
<1>1. DOMAIN s = 1..Len(s) /\ Len(s) \in Nat /\ Len(s) # 0
  OBVIOUS
<1>2. Tail(s) \in Seq(S) /\ DOMAIN Tail(s) = 1..(Len(s) - 1) /\ Head(s) = s[1] /\ Head(s) \in S
  BY <1>1
<1>3. \A i \in 1..(Len(s) - 1) : Tail(s)[i] = s[i + 1]
  BY <1>1
<1>4. Lines(s) \subseteq Lines(Tail(s)) \cup {Head(s)}
  <2>1. ASSUME NEW i \in 1..Len(s), i # 1
        PROVE  s[i] \in Lines(Tail(s))
    <3>1. i - 1 \in 1..(Len(s) - 1) /\ (i - 1) + 1 = i
      BY <2>1, <1>1
    <3> QED
      BY <3>1, <1>2, <1>3 DEF Lines
  <2> QED
    BY <2>1, <1>1, <1>2 DEF Lines
<1>5. Lines(Tail(s)) \cup {Head(s)} \subseteq Lines(s)
  BY <1>1, <1>2, <1>3 DEF Lines
<1>6. Head(s) \notin Lines(Tail(s)) /\ OnceIn(Tail(s))
  BY <1>1, <1>2, <1>3 DEF OnceIn, Lines
<1> QED
  BY <1>2, <1>4, <1>5, <1>6

\* Two queues in a row bear each line once iff each of them does and they share none.
LEMMA ConcatOnce ==
  ASSUME NEW S, NEW p \in Seq(S), NEW q \in Seq(S), OnceIn(p), OnceIn(q),
         Lines(p) \cap Lines(q) = {}
  PROVE  OnceIn(p \o q) /\ Lines(p \o q) = Lines(p) \cup Lines(q)
<1>1. /\ DOMAIN p = 1..Len(p) /\ DOMAIN q = 1..Len(q) /\ Len(p) \in Nat /\ Len(q) \in Nat
      /\ DOMAIN (p \o q) = 1..(Len(p) + Len(q))
  OBVIOUS
<1>2. \A i \in 1..(Len(p) + Len(q)) :
        (p \o q)[i] = IF i <= Len(p) THEN p[i] ELSE q[i - Len(p)]
  OBVIOUS
<1>3. \A i \in 1..(Len(p) + Len(q)) :
        \/ i \in 1..Len(p) /\ (p \o q)[i] = p[i]
        \/ i - Len(p) \in 1..Len(q) /\ (p \o q)[i] = q[i - Len(p)]
  BY <1>1, <1>2
<1>4. /\ \A i \in 1..Len(p) : i \in 1..(Len(p) + Len(q)) /\ (p \o q)[i] = p[i]
      /\ \A i \in 1..Len(q) : i + Len(p) \in 1..(Len(p) + Len(q)) /\ (p \o q)[i + Len(p)] = q[i]
  BY <1>1, <1>2
<1>5. Lines(p \o q) = Lines(p) \cup Lines(q)
  BY <1>1, <1>3, <1>4 DEF Lines
<1>6. OnceIn(p \o q)
  <2>1. SUFFICES ASSUME NEW i \in 1..(Len(p) + Len(q)), NEW j \in 1..(Len(p) + Len(q)),
                        (p \o q)[i] = (p \o q)[j]
                 PROVE  i = j
    BY <1>1 DEF OnceIn
  <2>2. CASE i \in 1..Len(p) /\ j \in 1..Len(p)
    BY <2>1, <2>2, <1>1, <1>2 DEF OnceIn
  <2>3. CASE i \notin 1..Len(p) /\ j \notin 1..Len(p)
    <3>1. i - Len(p) \in 1..Len(q) /\ j - Len(p) \in 1..Len(q)
          /\ q[i - Len(p)] = q[j - Len(p)]
      BY <2>1, <2>3, <1>1, <1>3
    <3>2. i - Len(p) = j - Len(p)
      BY <3>1, <1>1 DEF OnceIn
    <3> QED
      BY <3>2, <1>1
  <2>4. CASE i \in 1..Len(p) /\ j \notin 1..Len(p)
    <3>1. p[i] \in Lines(p) /\ q[j - Len(p)] \in Lines(q) /\ p[i] = q[j - Len(p)]
      BY <2>1, <2>4, <1>1, <1>2, <1>3 DEF Lines
    <3> QED
      BY <3>1
  <2>5. CASE i \notin 1..Len(p) /\ j \in 1..Len(p)
    <3>1. p[j] \in Lines(p) /\ q[i - Len(p)] \in Lines(q) /\ p[j] = q[i - Len(p)]
      BY <2>1, <2>5, <1>1, <1>2, <1>3 DEF Lines
    <3> QED
      BY <3>1
  <2> QED
    BY <2>2, <2>3, <2>4, <2>5
<1> QED
  BY <1>5, <1>6
-----------------------------------------------------------------------------
(* The building blocks of the steps *)

\* The lines that wait for an activity stay or go to the one that opens, or with it.
LEMMA GoneWith ==
  ASSUME IInv, UNCHANGED <<manifest, stop>>, NEW got \in SUBSET Says,
         OnceIn(queued'),
         Lines(queued') \cap (Lines(pendingSay) \cup Gone \cup got) = {},
         got \cap (Lines(pendingSay) \cup Gone) = {},
         said' = Lines(pendingSay) \cup Lines(queued') \cup Gone \cup got,
         NEW lines,
         \/ lines = got /\ pendingSay' = pendingSay
         \/ lines = got \cup Lines(pendingSay) /\ pendingSay' = <<>>,
         \/ taken' = taken \cup lines /\ UNCHANGED <<dropped, lost>>
         \/ dropped' = dropped \cup lines /\ UNCHANGED <<taken, lost>> /\ (manifest.until \/ stop)
         \/ lost' = lost \cup lines /\ UNCHANGED <<taken, dropped>>
  PROVE  pendingSay' \in Seq(Says) /\ FatesFit' /\ HomeInv'
<1>1. /\ Lines(pendingSay) \subseteq Says /\ pendingSay \in Seq(Says)
      /\ taken \subseteq Says /\ dropped \subseteq Says /\ lost \subseteq Says
  BY LinesTyped DEF IInv, TypeOK
<1>2. /\ OnceIn(pendingSay) /\ Lines(pendingSay) \cap Gone = {} /\ taken \cap dropped = {}
      /\ (taken \cup dropped) \cap lost = {} /\ (dropped # {} => manifest.until \/ stop)
  BY DEF IInv, HomeInv
<1>3. <<>> \in Seq(Says) /\ Lines(<<>>) = {} /\ OnceIn(<<>>)
  BY EmptyLines
<1>4. lines \subseteq Says /\ lines \cap Gone = {} /\ lines \cap Lines(queued') = {}
  BY <1>1, <1>2
<1>5. /\ pendingSay' \in Seq(Says) /\ OnceIn(pendingSay')
      /\ Lines(pendingSay') \cup lines = Lines(pendingSay) \cup got
      /\ Lines(pendingSay') \cap lines = {} /\ Lines(pendingSay') \subseteq Lines(pendingSay)
  BY <1>1, <1>2, <1>3
<1>6. /\ taken' \cup dropped' \cup lost' = Gone \cup lines
      /\ taken' \subseteq Says /\ dropped' \subseteq Says /\ lost' \subseteq Says
      /\ taken' \cap dropped' = {} /\ (taken' \cup dropped') \cap lost' = {}
      /\ dropped' # {} => manifest'.until \/ stop'
  <2>1. lines \cap taken = {} /\ lines \cap dropped = {} /\ lines \cap lost = {}
    BY <1>4 DEF Gone
  <2>2. CASE taken' = taken \cup lines /\ UNCHANGED <<dropped, lost>>
    BY <1>1, <1>2, <1>4, <2>1, <2>2 DEF Gone
  <2>3. CASE dropped' = dropped \cup lines /\ UNCHANGED <<taken, lost>> /\ (manifest.until \/ stop)
    BY <1>1, <1>2, <1>4, <2>1, <2>3 DEF Gone
  <2>4. CASE lost' = lost \cup lines /\ UNCHANGED <<taken, dropped>>
    BY <1>1, <1>2, <1>4, <2>1, <2>4 DEF Gone
  <2> QED
    BY <2>2, <2>3, <2>4
<1>7. said' = Lines(pendingSay') \cup Lines(queued') \cup (Gone \cup lines)
  BY <1>5
<1>8. /\ Lines(pendingSay') \cap Lines(queued') = {}
      /\ (Lines(pendingSay') \cup Lines(queued')) \cap (Gone \cup lines) = {}
  BY <1>2, <1>4, <1>5
<1>9. Gone' = Gone \cup lines
  BY <1>6 DEF Gone
<1>10. FatesFit'
  BY <1>6 DEF FatesFit
<1>11. /\ Lines(pendingSay)' = Lines(pendingSay') /\ Lines(queued)' = Lines(queued')
       /\ OnceIn(pendingSay)' /\ OnceIn(queued)'
  BY <1>5 DEF Lines, OnceIn
<1>12. HomeInv'
  BY <1>6, <1>7, <1>8, <1>9, <1>11 DEF HomeInv
<1> QED
  BY <1>5, <1>10, <1>12

\* What an activity that opens, or does not, makes of the line it is given (got) and of the lines
\* that wait for it, whatever else the step does to the queue of answers.
LEMMA OpenKeeps ==
  ASSUME IInv, NEW i \in 1..Activities, NEW got \in SUBSET Says,
         NEW msg \in Says \cup Updates \cup {None},
         OpenActivity(i, got, msg),
         UNCHANGED <<manifest, stop>>,
         OnceIn(queued'),
         Lines(queued') \cap (Lines(pendingSay) \cup Gone \cup got) = {},
         got \cap (Lines(pendingSay) \cup Gone) = {},
         said' = Lines(pendingSay) \cup Lines(queued') \cup Gone \cup got
  PROVE  /\ pc' \in {"activity", "reporting"} /\ act' \in 1..Activities
         /\ answer' \in Says \cup Updates \cup {None}
         /\ pendingSay' \in Seq(Says) /\ FatesFit'
         /\ HomeInv'
<1>1. act \in 1..Activities
  BY DEF IInv, TypeOK
<1>6. pc' \in {"activity", "reporting"} /\ act' \in 1..Activities /\ answer' \in Says \cup Updates \cup {None}
  BY <1>1 DEF OpenActivity
<1>2. CASE /\ stop /\ dropped' = dropped \cup got /\ UNCHANGED <<pendingSay, taken, lost>>
  <2>1. pendingSay' \in Seq(Says) /\ FatesFit' /\ HomeInv'
    BY <1>2, GoneWith
  <2> QED
    BY <2>1, <1>6
<1>4. CASE /\ pendingSay' = <<>> /\ taken' = taken \cup (got \cup Lines(pendingSay))
           /\ UNCHANGED <<dropped, lost>>
  <2> DEFINE lines == got \cup Lines(pendingSay)
  <2>1. pendingSay' \in Seq(Says) /\ FatesFit' /\ HomeInv'
    BY <1>4, GoneWith
  <2> QED
    BY <2>1, <1>6
<1>5. CASE /\ pendingSay' = <<>> /\ ~HasTime /\ dropped' = dropped \cup (got \cup Lines(pendingSay))
           /\ UNCHANGED <<taken, lost>>
  <2> DEFINE lines == got \cup Lines(pendingSay)
  <2>1. pendingSay' \in Seq(Says) /\ FatesFit' /\ HomeInv'
    BY <1>5, GoneWith DEF HasTime
  <2> QED
    BY <2>1, <1>6
<1> QED
  BY <1>2, <1>4, <1>5, <1>6 DEF OpenActivity, SpliceLines

LEMMA WorkflowKeeps ==
  ASSUME IInv, NEW i \in 1..Activities, NEW got \in SUBSET Says,
         NEW msg \in Says \cup Updates \cup {None},
         RunWorkflow(i, got, msg),
         UNCHANGED <<manifest, stop>>,
         OnceIn(queued'),
         Lines(queued') \cap (Lines(pendingSay) \cup Gone \cup got) = {},
         got \cap (Lines(pendingSay) \cup Gone) = {},
         said' = Lines(pendingSay) \cup Lines(queued') \cup Gone \cup got
  PROVE  /\ pc' \in {"activity", "reporting"} /\ act' \in 1..Activities
         /\ answer' \in Says \cup Updates \cup {None}
         /\ pendingSay' \in Seq(Says) /\ FatesFit'
         /\ HomeInv'
<1>1. CASE OpenActivity(i, got, msg)
  BY <1>1, OpenKeeps
<1>2. CASE /\ pc' = "reporting" /\ answer' = None /\ AnswerLost(got)
          /\ UNCHANGED <<act, taken, dropped>>
  <2>1. pendingSay' \in Seq(Says) /\ FatesFit' /\ HomeInv'
    BY <1>2, GoneWith DEF AnswerLost
  <2> QED
    BY <1>2, <2>1 DEF IInv, TypeOK
<1> QED
  BY <1>1, <1>2 DEF RunWorkflow

\* What HomeInv says of the queues stays true when neither they nor what was given changes.
LEMMA HomeStays ==
  ASSUME HomeInv, UNCHANGED sayVars, manifest' = manifest, stop => stop'
  PROVE  HomeInv'
BY DEF HomeInv, Gone, sayVars, fates, Lines, OnceIn

\* The top of the loop decides where the runner is next, and touches no line.
LEMMA LoopTopFacts ==
  ASSUME LoopTop, TypeOK, (~stop => daemons' \in BOOLEAN)
  PROVE  /\ pc' \in {"asleep", "down"} /\ phase' = "sleeping" /\ open' \in BOOLEAN
         /\ daemons' \in BOOLEAN /\ alarm' \in {"turn", "close"}
<1>1. CASE stop
  BY <1>1 DEF LoopTop, Shutdown, TypeOK, fates, FatesFit
<1>2. CASE ~stop
  BY <1>2 DEF LoopTop, TypeOK, fates, FatesFit
<1> QED
  BY <1>1, <1>2

\* A step outside the waits that only moves the runner and the hours.
LEMMA MoveKeeps ==
  ASSUME IInv, waiters = 0,
         pc' \in {"asleep", "down"}, phase' = "sleeping", open' \in BOOLEAN,
         daemons' \in BOOLEAN, alarm' \in {"turn", "close"},
         UNCHANGED <<manifest, stop, credential, act, sayVars, chatVars, askVars>>
  PROVE  IInv'
<1>1. HomeInv'
  BY HomeStays DEF IInv
<1>2. WaiterReady'
  BY DEF WaiterReady, askVars
<1>3. TypeOK'
  BY DEF IInv, TypeOK, sayVars, fates, chatVars, askVars
<1> QED
  BY <1>1, <1>2, <1>3 DEF IInv

\* A step that leaves no wait behind and whose lines were looked at by one of the lemmas above.
LEMMA LinesStepKeeps ==
  ASSUME IInv, pc' # "waiting" /\ waiters' = 0, HomeInv',
         pc' \in {"asleep", "alerting", "opening", "activity", "reporting", "down"},
         phase' \in {"sleeping", "running-turn", "awaiting-owner"},
         open' \in BOOLEAN, daemons' \in BOOLEAN, alarm' \in {"turn", "close"},
         credential' \in BOOLEAN, late' \in BOOLEAN, act' \in 1..Activities,
         answer' \in Says \cup Updates \cup {None},
         pendingSay' \in Seq(Says), queued' \in Seq(Says),
         said' \subseteq Says, FatesFit',
         confirmed' \in 0..Len(updates), offset' \in 0..Len(updates),
         UNCHANGED <<manifest, stop, updates>>
  PROVE  IInv'
<1>1. WaiterReady'
  BY DEF WaiterReady
<1>2. TypeOK'
  BY DEF IInv, TypeOK, fates, FatesFit
<1> QED
  BY <1>1, <1>2 DEF IInv
-----------------------------------------------------------------------------
(* Every step *)

LEMMA Unwaited == ASSUME IInv, pc # "waiting" PROVE waiters = 0
BY DEF IInv, WaiterReady

\* The queue of answers as it is fits what an activity may be given from elsewhere.
LEMMA QueueApart ==
  ASSUME IInv, queued' = queued
  PROVE  /\ OnceIn(queued')
         /\ Lines(queued') \cap (Lines(pendingSay) \cup Gone) = {}
         /\ said = Lines(pendingSay) \cup Lines(queued') \cup Gone
BY DEF IInv, HomeInv, OnceIn, Lines

LEMMA BeginTurnKeeps ==
  ASSUME IInv, pc # "waiting", BeginTurn,
         UNCHANGED <<manifest, stop, credential, queued, said, chatVars, late, waiters>>
  PROVE  IInv'
<1>1. waiters' = 0
  BY Unwaited
<1>2. CASE /\ pc' = "alerting"
           /\ UNCHANGED <<phase, hourVars, act, answer, pendingSay, fates>>
  <2>1. HomeInv'
    BY <1>2, HomeStays DEF IInv, sayVars, fates
  <2> QED
    BY <2>1, <1>1, <1>2, LinesStepKeeps DEF IInv, TypeOK, fates, FatesFit, hourVars, chatVars
<1>3. CASE /\ phase' = "running-turn" /\ daemons' = TRUE /\ UNCHANGED <<open, alarm>>
           /\ credential /\ RunWorkflow(1, {}, None)
  <2>1. 1 \in 1..Activities
    BY ActivitiesAssumption
  <2>2. /\ pc' \in {"activity", "reporting"} /\ act' \in 1..Activities
        /\ answer' \in Says \cup Updates \cup {None}
        /\ pendingSay' \in Seq(Says) /\ FatesFit'
        /\ HomeInv'
    BY <1>3, <2>1, QueueApart, WorkflowKeeps
  <2> QED
    BY <2>2, <1>1, <1>3, LinesStepKeeps DEF IInv, TypeOK, fates, FatesFit, chatVars
<1>4. CASE /\ phase' = "running-turn" /\ daemons' = TRUE /\ UNCHANGED <<open, alarm>>
           /\ pc' = "opening" /\ UNCHANGED <<act, answer, pendingSay, fates>>
  <2>1. HomeInv'
    BY <1>4, HomeStays DEF IInv, sayVars, fates
  <2> QED
    BY <2>1, <1>1, <1>4, LinesStepKeeps DEF IInv, TypeOK, fates, FatesFit, chatVars
<1> QED
  BY <1>2, <1>3, <1>4 DEF BeginTurn

\* The next round of a wait: it goes on with its one wait, or its time is up.
LEMMA RoundKeeps ==
  ASSUME IInv, pc = "waiting", ~stop, NextRound,
         confirmed' \in 0..Len(updates), offset' \in 0..Len(updates),
         UNCHANGED <<manifest, phase, stop, hourVars, credential, said, updates>>
  PROVE  IInv'
<1>1. CASE UNCHANGED <<pc, waiters, queued, act, answer, pendingSay, fates, late>>
  <2>1. HomeInv'
    BY <1>1, HomeStays DEF IInv, sayVars, fates
  <2>2. WaiterReady'
    BY <1>1 DEF IInv, WaiterReady
  <2>3. TypeOK'
    BY <1>1 DEF IInv, TypeOK, fates, FatesFit, hourVars
  <2> QED
    BY <2>1, <2>2, <2>3 DEF IInv
<1>2. CASE GiveUp /\ late' = late
  <2>1. HomeInv'
    BY <1>2, HomeStays DEF IInv, sayVars, fates, GiveUp
  <2> QED
    BY <2>1, <1>2, LinesStepKeeps DEF IInv, TypeOK, fates, FatesFit, hourVars, GiveUp
<1> QED
  BY <1>1, <1>2 DEF NextRound

LEMMA TurnStep ==
  ASSUME IInv,
         \/ Boot \/ WakeForTurn \/ WakeAtClose \/ SleepStopped \/ AlertSent
         \/ CredentialRead \/ ReportSent \/ WaitStopped
  PROVE  IInv'
<1>t. TypeOK
  BY DEF IInv
<1>1. CASE Boot
  <2>1. CASE BeginTurn
    BY <1>1, <2>1, BeginTurnKeeps DEF Boot
  <2>2. CASE /\ LoopTop /\ (~stop => UNCHANGED daemons)
             /\ UNCHANGED <<act, answer, pendingSay, fates>>
    <3>1. waiters = 0
      BY <1>1, Unwaited DEF Boot
    <3>2. /\ pc' \in {"asleep", "down"} /\ phase' = "sleeping" /\ open' \in BOOLEAN
          /\ daemons' \in BOOLEAN /\ alarm' \in {"turn", "close"}
      BY <1>t, <2>2, LoopTopFacts DEF TypeOK, fates, FatesFit
    <3> QED
      BY <3>1, <3>2, <1>1, <2>2, MoveKeeps DEF Boot, sayVars, fates, askVars
  <2> QED
    BY <1>1, <2>1, <2>2 DEF Boot
<1>2. CASE WakeForTurn
  BY <1>2, BeginTurnKeeps DEF WakeForTurn
<1>3. CASE WakeAtClose
  <2>1. waiters = 0
    BY <1>3, Unwaited DEF WakeAtClose
  <2>2. /\ pc' \in {"asleep", "down"} /\ phase' = "sleeping" /\ open' \in BOOLEAN
        /\ daemons' \in BOOLEAN /\ alarm' \in {"turn", "close"}
    BY <1>t, <1>3, LoopTopFacts DEF WakeAtClose
  <2> QED
    BY <2>1, <2>2, <1>3, MoveKeeps DEF WakeAtClose
<1>4. CASE SleepStopped
  <2>1. waiters = 0
    BY <1>4, Unwaited DEF SleepStopped
  <2> QED
    BY <2>1, <1>4, <1>t, MoveKeeps DEF SleepStopped, Shutdown, TypeOK, fates, FatesFit
<1>5. CASE AlertSent
  <2>1. waiters = 0
    BY <1>5, Unwaited DEF AlertSent
  <2>2. /\ pc' \in {"asleep", "down"} /\ phase' = "sleeping" /\ open' \in BOOLEAN
        /\ daemons' \in BOOLEAN /\ alarm' \in {"turn", "close"}
    BY <1>t, <1>5, LoopTopFacts DEF AlertSent, TypeOK, fates, FatesFit
  <2> QED
    BY <2>1, <2>2, <1>5, MoveKeeps DEF AlertSent
<1>6. CASE CredentialRead
  <2>1. waiters' = 0 /\ queued' = queued
    BY <1>6, Unwaited DEF CredentialRead
  <2>2. 1 \in 1..Activities
    BY ActivitiesAssumption
  <2>3. /\ pc' \in {"activity", "reporting"} /\ act' \in 1..Activities
        /\ answer' \in Says \cup Updates \cup {None}
        /\ pendingSay' \in Seq(Says) /\ FatesFit'
        /\ HomeInv'
    BY <1>6, <2>1, <2>2, QueueApart, WorkflowKeeps DEF CredentialRead
  <2> QED
    BY <2>1, <2>3, <1>6, <1>t, LinesStepKeeps DEF CredentialRead, TypeOK, fates, FatesFit, hourVars, chatVars
<1>7. CASE ReportSent
  <2>1. waiters = 0
    BY <1>7, Unwaited DEF ReportSent
  <2>2. ~stop => daemons' \in BOOLEAN
    BY <1>7, <1>t DEF ReportSent, TypeOK, fates, FatesFit
  <2>3. /\ pc' \in {"asleep", "down"} /\ phase' = "sleeping" /\ open' \in BOOLEAN
        /\ daemons' \in BOOLEAN /\ alarm' \in {"turn", "close"}
    BY <1>t, <1>7, <2>2, LoopTopFacts DEF ReportSent
  <2> QED
    BY <2>1, <2>3, <1>7, MoveKeeps DEF ReportSent
<1>8. CASE WaitStopped
  <2>1. waiters = 0
    BY <1>8 DEF WaitStopped, IInv, WaiterReady
  <2> QED
    BY <2>1, <1>8, <1>t, MoveKeeps DEF WaitStopped, Shutdown, TypeOK, fates, FatesFit
<1> QED
  BY <1>1, <1>2, <1>3, <1>4, <1>5, <1>6, <1>7, <1>8
LEMMA ActivityStep ==
  ASSUME IInv, ActivityDone \/ ActivityStops \/ ActivityAsks
  PROVE  IInv'
<1>t. TypeOK
  BY DEF IInv
<1>w. waiters' = 0 /\ queued' = queued /\ said' = said
  BY Unwaited DEF ActivityDone, ActivityStops, ActivityAsks, sayVars, fates
<1>1. CASE ActivityDone /\ act < Activities /\ OpenActivity(act + 1, {}, None)
  <2>1. act + 1 \in 1..Activities
    BY <1>1, <1>t, ActivitiesAssumption DEF TypeOK, fates, FatesFit
  <2>2. UNCHANGED <<manifest, stop>>
    BY <1>1 DEF ActivityDone
  <2>3. /\ pc' \in {"activity", "reporting"} /\ act' \in 1..Activities
        /\ answer' \in Says \cup Updates \cup {None}
        /\ pendingSay' \in Seq(Says) /\ FatesFit'
        /\ HomeInv'
    BY <1>1, <1>w, <2>1, <2>2, QueueApart, OpenKeeps
  <2> QED
    BY <2>3, <1>1, <1>t, <1>w, LinesStepKeeps DEF ActivityDone, TypeOK, fates, FatesFit, hourVars, chatVars
<1>2. CASE /\ ActivityDone /\ pc' = "reporting" /\ answer' = None
           /\ UNCHANGED <<act, pendingSay, fates>>
  <2>1. HomeInv'
    BY <1>2, HomeStays DEF IInv, ActivityDone, sayVars, fates
  <2> QED
    BY <2>1, <1>2, <1>t, <1>w, LinesStepKeeps DEF ActivityDone, TypeOK, fates, FatesFit, hourVars, chatVars
<1>3. CASE ActivityStops
  <2>1. HomeInv'
    BY <1>3, HomeStays DEF IInv, ActivityStops
  <2> QED
    BY <2>1, <1>3, <1>t, <1>w, LinesStepKeeps
    DEF ActivityStops, TypeOK, hourVars, sayVars, fates, FatesFit, chatVars
<1>4. CASE ActivityAsks
  <2>1. HomeInv'
    BY <1>4, HomeStays DEF IInv, ActivityAsks
  <2>2. WaiterReady'
    BY <1>4, <1>w DEF ActivityAsks, WaiterReady
  <2>3. TypeOK'
    BY <1>4, <1>t DEF ActivityAsks, TypeOK, hourVars, sayVars, fates
  <2> QED
    BY <2>1, <2>2, <2>3 DEF IInv
<1> QED
  BY <1>1, <1>2, <1>3, <1>4 DEF ActivityDone

\* The question leaves: a line that waits answers it, or is lost with the stop; else the wait begins.
LEMMA AskStep ==
  ASSUME IInv, AskSent
  PROVE  IInv'
<1>t. TypeOK /\ waiters = 0 /\ UNCHANGED <<manifest, stop, credential, said, chatVars>>
      /\ late' = FALSE
  BY Unwaited DEF AskSent, IInv
<1>h. /\ OnceIn(pendingSay) /\ OnceIn(queued)
      /\ Lines(pendingSay) \cap Lines(queued) = {}
      /\ said = Lines(pendingSay) \cup Lines(queued) \cup Gone
      /\ (Lines(pendingSay) \cup Lines(queued)) \cap Gone = {}
      /\ taken \cap dropped = {} /\ (taken \cup dropped) \cap lost = {}
  BY DEF IInv, HomeInv
<1>q. ASSUME queued # <<>>
      PROVE  /\ Tail(queued) \in Seq(Says) /\ Head(queued) \in Says
             /\ Lines(queued) = Lines(Tail(queued)) \cup {Head(queued)}
             /\ Head(queued) \notin Lines(Tail(queued))
             /\ OnceIn(Tail(queued))
  BY <1>q, <1>h, <1>t, TailLines DEF TypeOK, fates, FatesFit
<1>1. CASE /\ stop /\ Shutdown
           /\ queued # <<>> /\ queued' = Tail(queued) /\ dropped' = dropped \cup {Head(queued)}
           /\ UNCHANGED <<act, answer, pendingSay, taken, lost, waiters>>
  <2>1. HomeInv'
    <3>1. Lines(pendingSay)' = Lines(pendingSay) /\ Lines(queued)' = Lines(Tail(queued))
      BY <1>1 DEF Lines
    <3>2. OnceIn(pendingSay)' /\ OnceIn(queued)'
      BY <1>1, <1>h, <1>q DEF OnceIn
    <3>3. (dropped # {} => manifest.until \/ stop)' /\ stop' /\ UNCHANGED <<taken, lost, said, manifest>>
      BY <1>1, <1>t
    <3>4. dropped' = dropped \cup {Head(queued)}
      BY <1>1
    <3>5. Gone' = Gone \cup {Head(queued)} /\ Head(queued) \notin Gone
      BY <1>1, <1>q, <1>h, <3>3, <3>4 DEF Gone
    <3>6. (taken \cap dropped)' = {} /\ ((taken \cup dropped) \cap lost)' = {}
      BY <1>h, <3>3, <3>4, <3>5 DEF Gone
    <3> QED
      BY <1>1, <1>q, <1>h, <3>1, <3>2, <3>3, <3>5, <3>6 DEF HomeInv
  <2>2. queued' \in Seq(Says) /\ FatesFit' /\ said' \subseteq Says
    BY <1>1, <1>q, <1>t DEF TypeOK, fates, FatesFit
  <2> QED
    BY <2>1, <2>2, <1>1, <1>t, LinesStepKeeps DEF Shutdown, TypeOK, fates, FatesFit, chatVars
<1>2. CASE /\ stop /\ Shutdown /\ UNCHANGED <<queued, dropped>>
           /\ UNCHANGED <<act, answer, pendingSay, taken, lost, waiters>>
  <2>1. HomeInv'
    BY <1>2, <1>t, HomeStays DEF IInv, sayVars, fates
  <2> QED
    BY <2>1, <1>2, <1>t, LinesStepKeeps DEF Shutdown, TypeOK, fates, FatesFit, chatVars
<1>3. CASE /\ queued # <<>> /\ queued' = Tail(queued) /\ UNCHANGED waiters
           /\ RunWorkflow(act, {Head(queued)}, Head(queued))
           /\ UNCHANGED <<phase, hourVars>>
  <2>1. /\ act \in 1..Activities /\ {Head(queued)} \in SUBSET Says
        /\ Head(queued) \in Says \cup Updates \cup {None}
    BY <1>3, <1>q, <1>t DEF TypeOK, fates, FatesFit
  <2>2. /\ OnceIn(queued') /\ queued' \in Seq(Says)
        /\ Lines(queued') \cap (Lines(pendingSay) \cup Gone \cup {Head(queued)}) = {}
        /\ {Head(queued)} \cap (Lines(pendingSay) \cup Gone) = {}
        /\ said' = Lines(pendingSay) \cup Lines(queued') \cup Gone \cup {Head(queued)}
    BY <1>3, <1>q, <1>h, <1>t
  <2>3. UNCHANGED <<manifest, stop>>
    BY <1>t
  <2>4. /\ pc' \in {"activity", "reporting"} /\ act' \in 1..Activities
        /\ answer' \in Says \cup Updates \cup {None}
        /\ pendingSay' \in Seq(Says) /\ FatesFit'
        /\ HomeInv'
    BY <1>3, <2>1, <2>2, <2>3, WorkflowKeeps
  <2> QED
    BY <2>2, <2>4, <1>3, <1>t, LinesStepKeeps DEF TypeOK, fates, FatesFit, hourVars, chatVars
<1>4. CASE /\ ~stop /\ queued = <<>> /\ pc' = "waiting" /\ waiters' = waiters + 1
           /\ UNCHANGED <<queued, act, answer, pendingSay, fates>>
           /\ UNCHANGED <<phase, hourVars>>
  <2>1. HomeInv'
    BY <1>4, <1>t, HomeStays DEF IInv, sayVars, fates
  <2>2. WaiterReady'
    BY <1>4, <1>t DEF WaiterReady
  <2>3. waiters' \in 0..1 /\ UNCHANGED <<open, daemons, alarm, updates, confirmed, offset>>
    BY <1>4, <1>t DEF hourVars, chatVars
  <2>4. TypeOK'
    BY <1>4, <1>t, <2>3 DEF TypeOK, fates, FatesFit
  <2> QED
    BY <2>1, <2>2, <2>4 DEF IInv
<1> QED
  BY <1>1, <1>2, <1>3, <1>4 DEF AskSent

LEMMA LaterHalf == \A l \in Nat : \A k \in 0..l : \A n \in k + 1 .. l : n \in 1..l
OBVIOUS

\* A round of the wait with a channel: the first word of the owner, or another round.
LEMMA PollStep ==
  ASSUME IInv, PollReturns
  PROVE  IInv'
<1>t. TypeOK /\ pc = "waiting" /\ ~stop
      /\ UNCHANGED <<manifest, phase, stop, hourVars, credential, said, updates>>
  BY DEF PollReturns, IInv
<1>c. confirmed' \in 0..Len(updates) /\ Len(updates) \in Nat
  BY <1>t DEF PollReturns, TypeOK, fates, FatesFit
<1>1. CASE NextRound /\ (offset' = offset \/ offset' = Len(updates))
  BY <1>1, <1>t, <1>c, RoundKeeps DEF TypeOK, fates, FatesFit
<1>2. ASSUME NEW n \in 1..Len(updates), waiters' = 0, RunWorkflow(act, {}, n),
             UNCHANGED <<queued, late>>, offset' = Len(updates)
      PROVE  IInv'
  <2>1. /\ act \in 1..Activities /\ {} \in SUBSET Says
        /\ n \in Says \cup Updates \cup {None}
    BY <1>t, <1>c, UpdatesAssumption DEF TypeOK, fates, FatesFit, Updates
  <2>2. UNCHANGED <<manifest, stop>>
    BY <1>t
  <2>3. /\ pc' \in {"activity", "reporting"} /\ act' \in 1..Activities
        /\ answer' \in Says \cup Updates \cup {None}
        /\ pendingSay' \in Seq(Says) /\ FatesFit'
        /\ HomeInv'
    BY <1>2, <1>t, <2>1, <2>2, QueueApart, WorkflowKeeps
  <2> QED
    BY <2>3, <1>2, <1>t, <1>c, LinesStepKeeps DEF TypeOK, fates, FatesFit, hourVars
<1>3. \/ NextRound /\ (offset' = offset \/ offset' = Len(updates))
      \/ \E n \in confirmed' + 1 .. Len(updates) :
           waiters' = 0 /\ RunWorkflow(act, {}, n) /\ UNCHANGED <<queued, late>>
           /\ offset' = Len(updates)
  BY DEF PollReturns
<1>4. \A n \in confirmed' + 1 .. Len(updates) : n \in 1..Len(updates)
  BY <1>c, LaterHalf
<1> QED
  BY <1>1, <1>2, <1>3, <1>4
\* What the owner, the server and the clock do.
LEMMA OutsideStep ==
  ASSUME IInv,
         \/ \E m \in Says : Say(m)
         \/ \E kind \in {"owner", "other"} : Arrive(kind)
         \/ Stop \/ AskExpires \/ HoursChange
  PROVE  IInv'
<1>t. TypeOK /\ WaiterReady /\ HomeInv
  BY DEF IInv
<1>h. /\ OnceIn(pendingSay) /\ OnceIn(queued)
      /\ Lines(pendingSay) \cap Lines(queued) = {}
      /\ said = Lines(pendingSay) \cup Lines(queued) \cup Gone
      /\ (Lines(pendingSay) \cup Lines(queued)) \cap Gone = {}
      /\ taken \cap dropped = {} /\ (taken \cup dropped) \cap lost = {}
  BY <1>t DEF HomeInv
<1>1. ASSUME NEW m \in Says, Say(m)
      PROVE  IInv'
  <2>1. /\ m \notin Lines(pendingSay) \cup Lines(queued) \cup Gone
        /\ said' = Lines(pendingSay) \cup Lines(queued) \cup Gone \cup {m} /\ said' \subseteq Says
        /\ UNCHANGED <<manifest, phase, stop, hourVars, credential, chatVars, late>>
    BY <1>1, <1>t, <1>h DEF Say, TypeOK
  <2>2. CASE /\ pendingSay' = Append(pendingSay, m)
             /\ UNCHANGED <<pc, queued, waiters, act, answer, fates>>
    <3>1. /\ pendingSay' \in Seq(Says) /\ OnceIn(pendingSay')
          /\ Lines(pendingSay') = Lines(pendingSay) \cup {m}
      BY <2>1, <2>2, <1>t, <1>h, AppendLines DEF TypeOK, fates, FatesFit
    <3>2. HomeInv'
      BY <3>1, <2>1, <2>2, <1>t, <1>h DEF HomeInv, Gone, fates, Lines, OnceIn
    <3>3. WaiterReady'
      BY <2>1, <2>2, <1>t DEF WaiterReady
    <3>4. TypeOK'
      BY <3>1, <2>1, <2>2, <1>t DEF TypeOK, fates, FatesFit, hourVars, chatVars
    <3> QED
      BY <3>2, <3>3, <3>4 DEF IInv
  <2>3. CASE /\ phase = "awaiting-owner" /\ waiters = 0 /\ queued' = Append(queued, m)
             /\ UNCHANGED <<pc, pendingSay, waiters, act, answer, fates>>
    <3>1. /\ queued' \in Seq(Says) /\ OnceIn(queued')
          /\ Lines(queued') = Lines(queued) \cup {m}
      BY <2>1, <2>3, <1>t, <1>h, AppendLines DEF TypeOK, fates, FatesFit
    <3>2. HomeInv'
      BY <3>1, <2>1, <2>3, <1>t, <1>h DEF HomeInv, Gone, fates, Lines, OnceIn
    <3>3. WaiterReady'
      BY <2>1, <2>3, <1>t DEF WaiterReady
    <3>4. TypeOK'
      BY <3>1, <2>1, <2>3, <1>t DEF TypeOK, fates, FatesFit, hourVars, chatVars
    <3> QED
      BY <3>2, <3>3, <3>4 DEF IInv
  <2>4. CASE /\ waiters # 0 /\ waiters' = waiters - 1 /\ queued' = queued
             /\ RunWorkflow(act, {m}, m)
    <3>1. waiters' = 0
      BY <2>4, <1>t DEF TypeOK, fates, FatesFit
    <3>2. /\ act \in 1..Activities /\ {m} \in SUBSET Says
          /\ m \in Says \cup Updates \cup {None}
      BY <1>t DEF TypeOK, fates, FatesFit
    <3>3. /\ OnceIn(queued')
          /\ Lines(queued') \cap (Lines(pendingSay) \cup Gone \cup {m}) = {}
          /\ {m} \cap (Lines(pendingSay) \cup Gone) = {}
          /\ said' = Lines(pendingSay) \cup Lines(queued') \cup Gone \cup {m}
      BY <2>1, <2>4, QueueApart, <1>h
    <3>4. UNCHANGED <<manifest, stop>>
      BY <2>1
    <3>5. /\ pc' \in {"activity", "reporting"} /\ act' \in 1..Activities
          /\ answer' \in Says \cup Updates \cup {None}
          /\ pendingSay' \in Seq(Says) /\ FatesFit'
          /\ HomeInv'
      BY <2>4, <3>2, <3>3, <3>4, WorkflowKeeps
    <3> QED
      BY <3>1, <3>5, <2>1, <2>4, <1>t, LinesStepKeeps DEF TypeOK, fates, FatesFit, hourVars, chatVars
  <2> QED
    BY <1>1, <2>2, <2>3, <2>4 DEF Say
<1>2. ASSUME NEW kind \in {"owner", "other"}, Arrive(kind)
      PROVE  IInv'
  <2>1. HomeInv'
    BY <1>2, <1>t, HomeStays DEF Arrive
  <2>2. WaiterReady'
    BY <1>2, <1>t DEF Arrive, WaiterReady, sayVars, fates
  <2>3. /\ updates' \in Seq({"owner", "other"}) /\ Len(updates') = Len(updates) + 1
        /\ Len(updates') <= MaxUpdates /\ Len(updates) \in Nat
    BY <1>2, <1>t, UpdatesAssumption DEF Arrive, TypeOK, fates, FatesFit
  <2>5. confirmed' \in 0..Len(updates') /\ offset' \in 0..Len(updates')
    BY <1>2, <1>t, <2>3 DEF Arrive, TypeOK, fates, FatesFit
  <2>6. TypeOK'
    BY <1>2, <1>t, <2>3, <2>5, UpdatesAssumption DEF Arrive, TypeOK, hourVars, sayVars, fates, Updates
  <2> QED
    BY <2>1, <2>2, <2>6 DEF IInv
<1>3. CASE Stop
  <2>1. HomeInv'
    BY <1>3, <1>t, HomeStays DEF Stop
  <2>2. WaiterReady'
    BY <1>3, <1>t DEF Stop, WaiterReady, sayVars, fates
  <2>3. TypeOK'
    BY <1>3, <1>t DEF Stop, TypeOK, hourVars, sayVars, fates, chatVars
  <2> QED
    BY <2>1, <2>2, <2>3 DEF IInv
<1>4. CASE AskExpires
  <2>1. HomeInv'
    BY <1>4, <1>t, HomeStays DEF AskExpires
  <2>2. WaiterReady'
    BY <1>4, <1>t DEF AskExpires, WaiterReady, sayVars, fates
  <2>3. TypeOK'
    BY <1>4, <1>t DEF AskExpires, TypeOK, hourVars, sayVars, fates, chatVars
  <2> QED
    BY <2>1, <2>2, <2>3 DEF IInv
<1>5. CASE HoursChange
  <2>1. HomeInv'
    BY <1>5, <1>t, HomeStays DEF HoursChange
  <2>2. WaiterReady'
    BY <1>5, <1>t DEF HoursChange, WaiterReady, sayVars, fates, askVars
  <2>3. TypeOK'
    BY <1>5, <1>t DEF HoursChange, TypeOK, hourVars, sayVars, fates, chatVars, askVars
  <2> QED
    BY <2>1, <2>2, <2>3 DEF IInv
<1> QED
  BY <1>1, <1>2, <1>3, <1>4, <1>5

-----------------------------------------------------------------------------
(* The theorems *)

LEMMA InitIInv == Init => IInv
<1>1. ASSUME Init PROVE TypeOK /\ WaiterReady
  <2>1. /\ act \in 1..Activities /\ waiters \in 0..1 /\ answer \in {None}
        /\ pendingSay \in Seq(Says) /\ queued \in Seq(Says)
    BY <1>1, ActivitiesAssumption DEF Init
  <2>2. /\ updates \in Seq({"owner", "other"}) /\ Len(updates) = 0 /\ Len(updates) <= MaxUpdates
        /\ confirmed \in 0..Len(updates) /\ offset \in 0..Len(updates)
    BY <1>1, UpdatesAssumption DEF Init
  <2> QED
    BY <1>1, <2>1, <2>2 DEF Init, TypeOK, fates, FatesFit, WaiterReady
<1>2. ASSUME Init PROVE HomeInv
  BY <1>2, EmptyLines DEF Init, HomeInv, Gone
<1> QED
  BY <1>1, <1>2 DEF IInv

LEMMA StepIInv == IInv /\ [Next]_vars => IInv'
<1> SUFFICES ASSUME IInv, [Next]_vars PROVE IInv'
  OBVIOUS
<1>1. CASE \/ Boot \/ WakeForTurn \/ WakeAtClose \/ SleepStopped \/ AlertSent
           \/ CredentialRead \/ ReportSent \/ WaitStopped
  BY <1>1, TurnStep
<1>2. CASE ActivityDone \/ ActivityStops \/ ActivityAsks
  BY <1>2, ActivityStep
<1>3. CASE AskSent
  BY <1>3, AskStep
<1>4. CASE PollReturns
  BY <1>4, PollStep
<1>5. CASE Tick
  <2>1. confirmed' \in 0..Len(updates) /\ offset' \in 0..Len(updates) /\ updates' = updates
    BY <1>5 DEF Tick, chatVars, IInv, TypeOK, fates, FatesFit
  <2> QED
    BY <2>1, <1>5, RoundKeeps DEF Tick
<1>6. CASE \/ \E m \in Says : Say(m)
           \/ \E kind \in {"owner", "other"} : Arrive(kind)
           \/ Stop \/ AskExpires \/ HoursChange
  BY <1>6, OutsideStep
<1>7. CASE UNCHANGED vars
  <2>1. HomeInv'
    BY <1>7, HomeStays DEF vars, IInv
  <2>2. WaiterReady'
    BY <1>7 DEF vars, IInv, WaiterReady, sayVars, fates, askVars
  <2>3. TypeOK'
    BY <1>7 DEF vars, IInv, TypeOK, hourVars, sayVars, fates, chatVars, askVars
  <2> QED
    BY <2>1, <2>2, <2>3 DEF IInv
<1> QED
  BY <1>1, <1>2, <1>3, <1>4, <1>5, <1>6, <1>7 DEF Next

LEMMA Invariance == Spec => []IInv
BY InitIInv, StepIInv, PTL DEF Spec

\* The state of the runner, its two queues and its wait keep their types.
THEOREM TypesHold == Spec => []TypeOK
<1>1. IInv => TypeOK
  BY DEF IInv
<1> QED
  BY <1>1, Invariance, PTL

\* The wait of waitForOwnerReply is there exactly while the runner waits and is not stopped,
\* so no line is swallowed by the wait of a round that is over.
THEOREM WaiterReadyHolds == Spec => []WaiterReady
<1>1. IInv => WaiterReady
  BY DEF IInv
<1> QED
  BY <1>1, Invariance, PTL

\* Whatever the owner types through attach, in whatever phase, is in one queue once or has one
\* fate: given once; gone with a step kept from opening an activity, which takes the end of the
\* hours or a stop; or, as the answer to a question, lost because its workflow cannot be run again.
THEOREM SayHasOneHomeHolds == Spec => []SayHasOneHome
<1>1. IInv => SayHasOneHome
  <2>1. SUFFICES ASSUME IInv PROVE SayHasOneHome
    OBVIOUS
  <2>2. /\ OnceIn(pendingSay \o queued)
        /\ Lines(pendingSay \o queued) = Lines(pendingSay) \cup Lines(queued)
    BY <2>1, ConcatOnce DEF IInv, HomeInv, TypeOK, fates, FatesFit
  <2> QED
    BY <2>1, <2>2 DEF IInv, HomeInv, Gone, SayHasOneHome, OnceIn
<1> QED
  BY <1>1, Invariance, PTL

\* No turn's end, however it ended, takes the daemons of a service down while its hours last.
THEOREM DaemonsOutliveFailuresHolds == Spec => DaemonsOutliveFailures
<1>1. ASSUME IInv, [Next]_vars, daemons, ~daemons'
      PROVE  stop \/ ~manifest.until \/ ~open
  <2>1. TypeOK
    BY <1>1 DEF IInv
  <2>2. CASE Boot \/ WakeForTurn \/ AlertSent
    BY <1>1, <2>1, <2>2
    DEF Boot, WakeForTurn, AlertSent, BeginTurn, LoopTop, hourVars, TypeOK, fates, FatesFit
  <2>3. CASE WakeAtClose \/ SleepStopped \/ WaitStopped \/ ReportSent
    BY <1>1, <2>1, <2>3 DEF WakeAtClose, SleepStopped, WaitStopped, ReportSent, TypeOK, fates, FatesFit
  <2>4. CASE \/ CredentialRead \/ ActivityDone \/ ActivityStops \/ ActivityAsks
             \/ PollReturns \/ Tick \/ Stop \/ AskExpires \/ HoursChange
             \/ (\E m \in Says : Say(m)) \/ (\E kind \in {"owner", "other"} : Arrive(kind))
    <3>1. daemons' = daemons
      BY <2>4 DEF CredentialRead, ActivityDone, ActivityStops, ActivityAsks, PollReturns, Tick,
                  Stop, AskExpires, HoursChange, Say, Arrive, hourVars
    <3> QED
      BY <3>1, <1>1
  <2>5. CASE AskSent
    BY <1>1, <2>5 DEF AskSent, hourVars
  <2>6. CASE UNCHANGED vars
    BY <1>1, <2>6 DEF vars, hourVars
  <2> QED
    BY <1>1, <2>2, <2>3, <2>4, <2>5, <2>6 DEF Next
<1>2. IInv /\ [Next]_vars => [daemons /\ ~daemons' => stop \/ ~manifest.until \/ ~open]_vars
  BY <1>1
<1> QED
  BY <1>2, Invariance, PTL DEF Spec, DaemonsOutliveFailures

-----------------------------------------------------------------------------
(* The way down *)

\* How many steps of its own a stopped runner is from its end, at most.
ToDown(p) == IF p = "down" THEN 0 ELSE IF p \in {"opening", "activity"} THEN 2 ELSE 1

StopStep ==
  stop => stop' /\ (pc' = pc \/ ToDown(pc') < ToDown(pc))

\* A wait whose time is over stays so, and its next round is its last.
LateStep ==
  pc = "waiting" /\ late => pc' # "waiting" \/ (late' /\ ~PollReturns /\ ~Tick)

DownInv == pc = "down" => stop /\ ~daemons

LEMMA DownRanks ==
  /\ ToDown("down") = 0 /\ ToDown("opening") = 2 /\ ToDown("activity") = 2
  /\ \A p \in {"boot", "asleep", "alerting", "asking", "waiting", "reporting"} : ToDown(p) = 1
BY DEF ToDown

\* A stopped runner that opens an activity reports instead.
LEMMA StoppedOpens ==
  ASSUME stop, NEW i, NEW got, NEW msg, RunWorkflow(i, got, msg)
  PROVE  pc' = "reporting"
BY DEF RunWorkflow, OpenActivity

LEMMA WorkflowGoes ==
  ASSUME NEW i, NEW got, NEW msg, RunWorkflow(i, got, msg)
  PROVE  pc' \in {"activity", "reporting"}
BY DEF RunWorkflow, OpenActivity

\* The top of the loop of a stopped runner is its end.
LEMMA LoopTopGoes ==
  ASSUME LoopTop
  PROVE  IF stop THEN pc' = "down" /\ ~daemons' ELSE pc' = "asleep"
BY DEF LoopTop, Shutdown

\* A round that finds the time over gives up.
LEMMA LateRound ==
  ASSUME pc = "waiting", late, PollReturns \/ Tick
  PROVE  pc' # "waiting"
<1>1. NextRound => pc' = "reporting"
  BY DEF NextRound, GiveUp
<1>2. NextRound \/ \E i, got, msg : RunWorkflow(i, got, msg)
  BY DEF PollReturns, Tick
<1> QED
  BY <1>1, <1>2, WorkflowGoes

LEMMA StopMoves ==
  ASSUME IInv, DownInv, [Next]_vars
  PROVE  StopStep /\ LateStep /\ DownInv'
<1>0. TypeOK /\ WaiterReady /\ pc \in {"boot", "asleep", "alerting", "opening", "activity",
        "asking", "waiting", "reporting", "down"}
  BY DEF IInv, TypeOK, fates, FatesFit
<1>1. ASSUME UNCHANGED <<pc, daemons>>, stop => stop',
             late => late'
      PROVE  StopStep /\ LateStep /\ DownInv'
  BY <1>1, LateRound DEF StopStep, LateStep, DownInv
<1>2. ASSUME stop' = stop, pc # "down", pc # "waiting",
             IF stop THEN \/ pc' = "down" /\ ~daemons'
                          \/ pc \in {"opening", "activity"} /\ pc' = "reporting"
                     ELSE pc' # "down"
      PROVE  StopStep /\ LateStep /\ DownInv'
  BY <1>0, <1>2, DownRanks DEF StopStep, LateStep, DownInv
<1>3. CASE Boot \/ WakeForTurn \/ WakeAtClose \/ SleepStopped \/ AlertSent \/ ReportSent
  <2>1. CASE ~stop
    <3>1. pc' \in {"asleep", "alerting", "opening", "activity", "reporting"} /\ stop' = stop
      BY <1>3, <2>1, LoopTopGoes, WorkflowGoes
         DEF Boot, WakeForTurn, WakeAtClose, SleepStopped, AlertSent, ReportSent, BeginTurn
    <3>2. pc \in {"boot", "asleep", "alerting", "reporting"}
      BY <1>3 DEF Boot, WakeForTurn, WakeAtClose, SleepStopped, AlertSent, ReportSent
    <3> QED
      BY <1>2, <2>1, <3>1, <3>2
  <2>2. CASE stop
    <3>1. pc' = "down" /\ ~daemons' /\ stop' = stop
      BY <1>3, <2>2, LoopTopGoes
         DEF Boot, WakeForTurn, WakeAtClose, SleepStopped, AlertSent, ReportSent, Shutdown
    <3>2. pc \in {"boot", "asleep", "alerting", "reporting"}
      BY <1>3 DEF Boot, WakeForTurn, WakeAtClose, SleepStopped, AlertSent, ReportSent
    <3> QED
      BY <1>2, <2>2, <3>1, <3>2
  <2> QED
    BY <2>1, <2>2
<1>4. CASE CredentialRead
  BY <1>2, <1>4, StoppedOpens, WorkflowGoes DEF CredentialRead
<1>5. CASE ActivityDone \/ ActivityStops \/ ActivityAsks
  <2>1. pc = "activity" /\ stop' = stop /\ pc' # "down" /\ (stop => pc' = "reporting")
    BY <1>5 DEF ActivityDone, ActivityStops, ActivityAsks, OpenActivity
  <2> QED
    BY <1>2, <2>1
<1>6. CASE AskSent
  <2>1. pc = "asking" /\ stop' = stop
    BY <1>6 DEF AskSent
  <2>2. CASE stop
    BY <1>2, <1>6, <2>1, <2>2 DEF AskSent, Shutdown
  <2>3. CASE ~stop
    <3>1. pc' \in {"activity", "reporting", "waiting"}
      BY <1>6, <2>3, WorkflowGoes DEF AskSent
    <3> QED
      BY <1>2, <2>1, <2>3, <3>1
  <2> QED
    BY <2>2, <2>3
<1>7. CASE WaitStopped
  BY <1>0, <1>7, DownRanks DEF WaitStopped, Shutdown, StopStep, LateStep, DownInv
<1>8. CASE PollReturns \/ Tick
  <2>1. ~stop /\ ~stop' /\ pc = "waiting"
    BY <1>0, <1>8 DEF PollReturns, Tick, TypeOK, fates, FatesFit
  <2>2. pc' \in {"waiting", "activity", "reporting"} /\ (late => pc' # "waiting")
    <3>1. NextRound => pc' \in {"waiting", "reporting"} /\ (late => pc' = "reporting")
      BY <2>1 DEF NextRound, GiveUp
    <3>2. \/ NextRound
          \/ \E i, got, msg : RunWorkflow(i, got, msg)
      BY <1>8 DEF PollReturns, Tick
    <3> QED
      BY <3>1, <3>2, WorkflowGoes
  <2> QED
    BY <2>1, <2>2 DEF StopStep, LateStep, DownInv
<1>9. CASE \E m \in Says : Say(m)
  <2>1. PICK m \in Says : Say(m)
    BY <1>9
  <2>2. CASE UNCHANGED pc
    <3>1. UNCHANGED <<pc, daemons, stop, late>> /\ pc # "down"
      BY <2>1, <2>2 DEF Say, hourVars
    <3>2. ~stop => DownInv' /\ StopStep
      BY <3>1 DEF DownInv, StopStep
    <3>3. stop => DownInv' /\ StopStep
      BY <3>1 DEF DownInv, StopStep
    <3>4. LateStep
      BY <3>1, LateRound DEF LateStep
    <3> QED
      BY <3>2, <3>3, <3>4
  <2>3. CASE \E i, got, msg : waiters # 0 /\ RunWorkflow(i, got, msg)
    <3>1. ~stop /\ pc = "waiting"
      BY <1>0, <2>3 DEF WaiterReady, TypeOK, fates, FatesFit
    <3>2. pc' \in {"activity", "reporting"}
      BY <2>3, WorkflowGoes
    <3> QED
      BY <2>1, <3>1, <3>2 DEF Say, StopStep, LateStep, DownInv
  <2> QED
    BY <2>1, <2>2, <2>3 DEF Say
<1>10. CASE Stop \/ AskExpires \/ HoursChange \/ (\E kind \in {"owner", "other"} : Arrive(kind))
  <2>1. UNCHANGED <<pc, daemons>> /\ (stop => stop') /\ (late => late')
    BY <1>10 DEF Stop, AskExpires, HoursChange, Arrive, hourVars, askVars
  <2> QED
    BY <1>1, <2>1
<1>11. CASE UNCHANGED vars
  BY <1>1, <1>11 DEF vars, hourVars, askVars
<1> QED
  BY <1>3, <1>4, <1>5, <1>6, <1>7, <1>8, <1>9, <1>10, <1>11 DEF Next

\* A stop is never forgotten and always leads down: whatever the runner was at, each step it
\* still takes brings it nearer to its end, two are enough, and it is down for no other reason
\* and with its daemons down (runner.ts, the looks at stopController and the shutdown).
THEOREM StoppedRunnerSinks ==
  Spec => /\ [][stop => stop' /\ (pc' = pc \/ ToDown(pc') < ToDown(pc))]_vars
          /\ [](pc = "down" => stop /\ ~daemons)
<1>1. Init => DownInv
  BY DEF Init, DownInv
<1>2. IInv /\ DownInv /\ [Next]_vars => DownInv'
  BY StopMoves
<1>3. IInv /\ DownInv /\ [Next]_vars
        => [stop => stop' /\ (pc' = pc \/ ToDown(pc') < ToDown(pc))]_vars
  BY StopMoves DEF StopStep
<1> QED
  BY <1>1, <1>2, <1>3, Invariance, PTL DEF Spec, DownInv

\* A wait for the owner that has lasted its time is not prolonged: no new round, no failed poll
\* and no message that is not the owner's starts the clock again (channel.ts, deadline).
THEOREM LateWaitEnds ==
  Spec => [][pc = "waiting" /\ late => pc' # "waiting" \/ (late' /\ ~PollReturns /\ ~Tick)]_vars
<1>1. Init => DownInv
  BY DEF Init, DownInv
<1>2. IInv /\ DownInv /\ [Next]_vars => DownInv'
  BY StopMoves
<1>3. IInv /\ DownInv /\ [Next]_vars
        => [pc = "waiting" /\ late => pc' # "waiting" \/ (late' /\ ~PollReturns /\ ~Tick)]_vars
  BY StopMoves DEF LateStep
<1> QED
  BY <1>1, <1>2, <1>3, Invariance, PTL DEF Spec
=============================================================================
