------------------------- MODULE SessionTurn_proofs -------------------------
(***************************************************************************)
(* Proofs about SessionTurn, for any messages, fan-outs, monitors, slots and *)
(* bounds, whoever writes.  How many runs there are at once is counted      *)
(* against the messages that were submitted while a turn was at work; what  *)
(* rests on there being one is proved as long as none was.                  *)
(***************************************************************************)
EXTENDS SessionTurn, Filtering_proofs, FiniteSetTheorems, SequenceTheorems, TLAPS

Fields == {"at", "kind", "given", "heard", "attempt", "stopped", "tree", "fan"}

\* What the runs look like: records with those fields, one per slot.
Shape == DOMAIN run = Slots /\ \A x \in Slots : DOMAIN run[x] = Fields

\* One run at most is active, and the phase tells whether one is.
AtOne == \A x, y \in Active : x = y
Agrees == phase \in Working <=> Active # {}
TurnInv == Shape /\ Agrees /\ AtOne

-----------------------------------------------------------------------------
(* What the steps do to the set of active runs *)

\* There is a slot for a new run, outside the active ones.
LEMMA IdleSlotIsIdle ==
  ASSUME Active # Slots
  PROVE  IdleSlot \in Slots /\ IdleSlot \notin Active
  BY DEF IdleSlot, Active

\* A step of a run that stays active.
LEMMA StaysActive ==
  ASSUME Shape, NEW x \in Active, NEW r, DOMAIN r = Fields, r.at # "off",
         run' = [run EXCEPT ![x] = r]
  PROVE  Shape' /\ Active' = Active /\ run'[x] = r /\ \A y \in Slots \ {x} : run'[y] = run[y]
  BY DEF Shape, Active

\* A run that is over leaves the others as they were.
LEMMA Leaves ==
  ASSUME Shape, NEW x \in Slots, run' = [run EXCEPT ![x] = NoRun]
  PROVE  Shape' /\ Active' = Active \ {x} /\ \A y \in Slots \ {x} : run'[y] = run[y]
  BY DEF Shape, Active, NoRun, Fields

\* A turn's attempt makes its slot active.
LEMMA Begins ==
  ASSUME Shape, NEW x \in Slots, NEW kind, NEW items, NEW attempt, Begin(x, kind, items, attempt)
  PROVE  /\ Shape' /\ Active' = Active \cup {x} /\ phase' = "busy" /\ root' = "live"
         /\ \A y \in Slots \ {x} : run'[y] = run[y]
         /\ run'[x].kind = kind /\ run'[x].given = items /\ run'[x].heard = conv \cup items
         /\ run'[x].attempt = attempt /\ run'[x].stopped = FALSE /\ run'[x].at = "loop"
<1>1. PICK t \in Trees \ UsedTrees :
        run' = [run EXCEPT ![x] = [NoRun EXCEPT !.at = "loop", !.kind = kind, !.given = items,
                                                !.heard = conv \cup items, !.attempt = attempt, !.tree = t]]
  BY DEF Begin
<1> DEFINE r == [NoRun EXCEPT !.at = "loop", !.kind = kind, !.given = items,
                              !.heard = conv \cup items, !.attempt = attempt, !.tree = t]
<1>2. /\ DOMAIN r = Fields /\ r.at = "loop" /\ r.kind = kind /\ r.given = items
      /\ r.heard = conv \cup items /\ r.attempt = attempt /\ r.stopped = FALSE
  BY DEF NoRun, Fields
<1>3. run' = [run EXCEPT ![x] = r]
  BY <1>1
<1> HIDE DEF r
<1>4. run'[x] = r /\ \A y \in Slots \ {x} : run'[y] = run[y]
  BY <1>3 DEF Shape
<1>5. Shape'
  BY <1>2, <1>3, <1>4 DEF Shape
<1>6. Active' = Active \cup {x}
  BY <1>2, <1>4 DEF Active
<1>7. phase' = "busy" /\ root' = "live"
  BY DEF Begin
<1> QED
  BY <1>2, <1>4, <1>5, <1>6, <1>7

\* The owner's stop leaves the active runs active.
LEMMA Brakes ==
  ASSUME Shape, Brake
  PROVE  /\ Shape' /\ Active' = Active /\ phase' = phase
         /\ \A y \in Slots : /\ run'[y].at = run[y].at /\ run'[y].kind = run[y].kind
                             /\ run'[y].heard = run[y].heard /\ run'[y].attempt = run[y].attempt
                             /\ run'[y].given = run[y].given
                             /\ (run[y].stopped => run'[y].stopped)
<1>1. \A y \in Slots : run'[y] = [run[y] EXCEPT !.stopped =
           @ \/ (run[y].at # "off" /\ (run[y].tree = tree \/ y = brake))]
  BY DEF Brake
<1>2. DOMAIN run' = Slots
  BY DEF Brake
<1>3. \A y \in Slots : /\ DOMAIN run'[y] = Fields
                       /\ run'[y].at = run[y].at /\ run'[y].kind = run[y].kind
                       /\ run'[y].heard = run[y].heard /\ run'[y].attempt = run[y].attempt
                       /\ run'[y].given = run[y].given
                       /\ (run[y].stopped => run'[y].stopped)
  <2> TAKE y \in Slots
  <2> DEFINE b == run[y].stopped \/ (run[y].at # "off" /\ (run[y].tree = tree \/ y = brake))
  <2>1. run'[y] = [run[y] EXCEPT !.stopped = b]
    BY <1>1
  <2>2. DOMAIN run[y] = Fields
    BY DEF Shape
  <2>3. run[y].stopped => b
    OBVIOUS
  <2> HIDE DEF b
  <2>4. run'[y].stopped = b
    BY <2>1, <2>2 DEF Fields
  <2> QED
    BY <2>1, <2>2, <2>3, <2>4 DEF Fields
<1>4. Shape'
  BY <1>2, <1>3 DEF Shape
<1>5. Active' = Active
  BY <1>3 DEF Active
<1>6. phase' = phase
  BY DEF Brake
<1> QED
  BY <1>3, <1>4, <1>5, <1>6

-----------------------------------------------------------------------------
(* The inductive invariant *)

\* A stop of a turn is seen at the current root, which a turn has.
StopInv ==
  \A x \in Active : run[x].kind # "resume" => root # "none" /\ (run[x].stopped => root = "stopped")

\* Without [c], what has been drained has been heard by the run that is active.
HeldInv ==
  count.continues = 0 =>
    /\ \A x \in Active : run[x].kind # "resume" /\ transit \subseteq run[x].heard
    /\ Active = {} => transit = {}

CountInv ==
  /\ DOMAIN count = {"retries", "dismissals", "continues", "stops", "fired"}
  /\ count.continues \in Nat

SessionInv == TurnInv /\ StopInv /\ HeldInv /\ CountInv

\* What every step is to be shown to do, as long as no message has been submitted over a turn.
Good == SessionInv' /\ StopIsHeeded /\ DrainedStaysSomewhere

\* A turn that starts at rest.
LEMMA Starts ==
  ASSUME SessionInv, phase \notin Working, NEW x \in Slots,
         NEW kind, kind # "resume", NEW items, NEW attempt, Begin(x, kind, items, attempt),
         transit \subseteq transit', transit' \subseteq transit \cup items,
         CountInv', count'.continues = count.continues
  PROVE  Good
<1>1. Active = {} /\ Shape
  BY DEF SessionInv, TurnInv, Agrees
<1>2. /\ Shape' /\ Active' = {x} /\ phase' = "busy" /\ root' = "live"
      /\ run'[x].kind = kind /\ run'[x].heard = conv \cup items /\ run'[x].stopped = FALSE
  BY <1>1, Begins
<1>3. TurnInv'
  BY <1>2 DEF TurnInv, Agrees, AtOne, Working
<1>4. StopInv'
  BY <1>2 DEF StopInv
<1>5. HeldInv'
  BY <1>1, <1>2 DEF SessionInv, HeldInv
<1>6. StopIsHeeded /\ DrainedStaysSomewhere
  BY <1>1 DEF StopIsHeeded, DrainedStaysSomewhere
<1> QED
  BY <1>3, <1>4, <1>5, <1>6 DEF Good, SessionInv

\* A run that goes on.
LEMMA GoesOn ==
  ASSUME SessionInv, NEW x \in Active, NEW r, DOMAIN r = Fields, run' = [run EXCEPT ![x] = r],
         r.at # "off", r.kind = run[x].kind, r.stopped = run[x].stopped, r.attempt = run[x].attempt,
         r.at = "backoff" => run[x].at = "backoff" \/ ~run[x].stopped,
         run[x].heard \subseteq r.heard, transit \subseteq transit', transit' \subseteq transit \cup r.heard,
         phase' \in Working, root' = root, count' = count
  PROVE  Good
<1>1. Shape' /\ Active' = Active /\ run'[x] = r
  BY StaysActive DEF SessionInv, TurnInv
<1>2. Active = {x}
  BY DEF SessionInv, TurnInv, AtOne
<1>3. TurnInv'
  BY <1>1, <1>2 DEF TurnInv, Agrees, AtOne
<1>4. StopInv'
  BY <1>1, <1>2 DEF SessionInv, StopInv
<1>5. HeldInv' /\ CountInv'
  BY <1>1, <1>2 DEF SessionInv, HeldInv, CountInv
<1>6. StopIsHeeded /\ DrainedStaysSomewhere
  BY <1>1, <1>2 DEF StopIsHeeded, DrainedStaysSomewhere
<1> QED
  BY <1>3, <1>4, <1>5, <1>6 DEF Good, SessionInv

\* A run that ends.
LEMMA Ends ==
  ASSUME SessionInv, NEW x \in Active, NEW p, p \notin Working, Over(x, p),
         run[x].kind # "resume" => transit' = {} /\ (transit \subseteq conv' \cup seed' \/ count.continues > 0)
  PROVE  (run[x].kind = "resume" /\ transit' # transit) \/ Good
<1>1. Shape' /\ Active' = Active \ {x} /\ phase' = p /\ count' = count
  BY Leaves DEF Over, SessionInv, TurnInv, Active
<1>2. Active = {x}
  BY DEF SessionInv, TurnInv, AtOne
<1>3. run'[x].at = "off"
  BY DEF Over, SessionInv, TurnInv, Shape, NoRun, Active
<1>4. TurnInv'
  BY <1>1, <1>2 DEF TurnInv, Agrees, AtOne
<1>5. StopInv' /\ CountInv'
  BY <1>1, <1>2 DEF SessionInv, StopInv, CountInv
<1>6. HeldInv'
  BY <1>1, <1>2 DEF SessionInv, HeldInv
<1>7. StopIsHeeded
  BY <1>2, <1>3 DEF StopIsHeeded
<1>8. run[x].kind # "resume" \/ transit' = transit => DrainedStaysSomewhere
  BY DEF DrainedStaysSomewhere
<1> QED
  BY <1>4, <1>5, <1>6, <1>7, <1>8 DEF Good, SessionInv

\* A step that does not concern the runs.
LEMMA Elsewhere ==
  ASSUME SessionInv, UNCHANGED <<root, run, transit>>, phase' = phase \/ {phase, phase'} \cap Working = {},
         CountInv', count'.continues = count.continues
  PROVE  Good
<1>1. Active' = Active /\ Shape' = Shape
  BY DEF Active, Shape
<1>2. TurnInv' /\ StopInv' /\ HeldInv'
  BY <1>1 DEF SessionInv, TurnInv, Agrees, AtOne, StopInv, HeldInv
<1>3. StopIsHeeded /\ DrainedStaysSomewhere
  BY DEF StopIsHeeded, DrainedStaysSomewhere
<1> QED
  BY <1>2, <1>3 DEF Good, SessionInv

\* The owner's stop.
LEMMA StopsTurn ==
  ASSUME SessionInv, Brake
  PROVE  Good
<1>1. /\ Shape' /\ Active' = Active /\ phase' = phase
      /\ \A y \in Slots : /\ run'[y].at = run[y].at /\ run'[y].kind = run[y].kind
                          /\ run'[y].heard = run[y].heard /\ run'[y].attempt = run[y].attempt
                          /\ (run[y].stopped => run'[y].stopped)
  BY Brakes DEF SessionInv, TurnInv
<1>2. transit' = transit
  BY DEF Brake, data
<1>3. TurnInv'
  BY <1>1 DEF SessionInv, TurnInv, Agrees, AtOne
<1>4. CountInv' /\ count'.continues = count.continues
  BY DEF Brake, SessionInv, CountInv
<1>5. StopInv'
  <2>1. root' = IF root = "none" THEN "none" ELSE "stopped"
    BY DEF Brake
  <2>2. \A x \in Active : run'[x].kind # "resume" => root # "none"
    BY <1>1 DEF SessionInv, StopInv, Active
  <2> QED
    BY <1>1, <2>1, <2>2 DEF StopInv
<1>6. HeldInv'
  BY <1>1, <1>2, <1>4 DEF SessionInv, HeldInv, Active
<1>7. StopIsHeeded /\ DrainedStaysSomewhere
  BY <1>1, <1>2 DEF StopIsHeeded, DrainedStaysSomewhere, Active
<1> QED
  BY <1>3, <1>4, <1>5, <1>6, <1>7 DEF Good, SessionInv

-----------------------------------------------------------------------------
(* The steps *)

LEMMA SubmitGood ==
  ASSUME SessionInv, phase \notin Working, NEW m, Submit(m)
  PROVE  Good
<1>1. IdleSlot \in Slots
  BY IdleSlotIsIdle DEF Submit
<1>2. Begin(IdleSlot, "turn", seed \cup ToSet(pending) \cup {m}, 1) /\ transit' = transit /\ count' = count
  BY DEF Submit
<1> QED
  BY <1>1, <1>2, Starts DEF SessionInv, CountInv

\* A line with mentions waits for them, another one is submitted.
LEMMA LineGood ==
  ASSUME SessionInv, phase \notin Working, NEW m, SubmitLine(m)
  PROVE  Good
<1>1. CASE m \in Mentions
  <2>1. UNCHANGED <<root, run, transit, phase, count>>
    BY <1>1 DEF SubmitLine, control, data
  <2> QED
    BY <2>1, Elsewhere DEF SessionInv, CountInv
<1>2. CASE m \notin Mentions
  BY <1>2, SubmitGood DEF SubmitLine
<1> QED
  BY <1>1, <1>2

LEMMA OwnerGood ==
  ASSUME SessionInv, crossed = 0, crossed' = 0, OwnerStep
  PROVE  Good
<1>1. ASSUME NEW m \in Composer, TypeAtRest(m) PROVE Good
  BY <1>1, LineGood DEF TypeAtRest, Rest, Working
<1>7. ASSUME NEW m \in Connector, Receive(m) PROVE Good
  <2>1. CASE Submit(m) /\ crossed' = Crossing
    BY <2>1, SubmitGood DEF Crossing
  <2>2. CASE Inject(m, {}) /\ UNCHANGED <<control, transit, count>>
    BY <2>2, Elsewhere DEF control, SessionInv, CountInv
  <2> QED
    BY <1>7, <2>1, <2>2 DEF Receive
<1>2. ASSUME NEW m \in Composer, TypeIntoTurn(m) \/ TypeAhead(m) \/ TypeToNobody(m) PROVE Good
  <2>1. UNCHANGED <<root, run, transit, phase, count>>
    BY <1>2 DEF TypeIntoTurn, TypeAhead, TypeToNobody, control, data
  <2> QED
    BY <2>1, Elsewhere DEF SessionInv, CountInv
<1>3. ASSUME Interrupt \/ CancelAll PROVE Good
  BY <1>3, StopsTurn DEF Interrupt, CancelAll
<1>4. ASSUME Retry PROVE Good
  <2>1. IdleSlot \in Slots
    BY <1>4, IdleSlotIsIdle DEF Retry
  <2>2. Begin(IdleSlot, "turn", last, 1) /\ transit' = transit /\ phase \notin Working
    BY <1>4 DEF Retry, data, Working
  <2>3. CountInv' /\ count'.continues = count.continues
    BY <1>4 DEF Retry, SessionInv, CountInv
  <2> QED
    BY <2>1, <2>2, <2>3, Starts
<1>5. ASSUME Dismiss PROVE Good
  <2>1. UNCHANGED <<root, run, transit>> /\ {phase, phase'} \cap Working = {}
    BY <1>5 DEF Dismiss, data, Working
  <2>2. CountInv' /\ count'.continues = count.continues
    BY <1>5 DEF Dismiss, SessionInv, CountInv
  <2> QED
    BY <2>1, <2>2, Elsewhere
<1>6. ASSUME Continue PROVE Good
  <2> DEFINE r == [NoRun EXCEPT !.at = "loop", !.kind = "resume", !.heard = resumable]
  <2>1. /\ IdleSlot \in Slots /\ run' = [run EXCEPT ![IdleSlot] = r]
        /\ phase \notin Working /\ phase' = "busy" /\ transit' = transit /\ Shape
    BY <1>6, IdleSlotIsIdle DEF Continue, data, Working, SessionInv, TurnInv
  <2>2. DOMAIN r = Fields /\ r.at = "loop" /\ r.kind = "resume"
    BY DEF NoRun, Fields
  <2> HIDE DEF r
  <2>3. Active = {}
    BY <2>1 DEF SessionInv, TurnInv, Agrees
  <2>4. Shape' /\ Active' = {IdleSlot} /\ run'[IdleSlot] = r
    BY <2>1, <2>2, <2>3 DEF Shape, Active
  <2>5. TurnInv' /\ StopInv'
    BY <2>1, <2>2, <2>4 DEF TurnInv, Agrees, AtOne, StopInv, Working
  <2>6. CountInv' /\ count'.continues > 0
    BY <1>6 DEF Continue, SessionInv, CountInv
  <2>7. HeldInv'
    BY <2>6 DEF HeldInv
  <2>8. StopIsHeeded /\ DrainedStaysSomewhere
    BY <2>1, <2>3 DEF StopIsHeeded, DrainedStaysSomewhere
  <2> QED
    BY <2>5, <2>6, <2>7, <2>8 DEF Good, SessionInv
<1> QED
  BY <1>1, <1>2, <1>3, <1>4, <1>5, <1>6, <1>7 DEF OwnerStep

LEMMA TerminalGood ==
  ASSUME SessionInv, crossed = 0, crossed' = 0, TerminalStep
  PROVE  Good
<1>1. CASE SubmitHead
  BY <1>1, LineGood DEF SubmitHead, Rest, Working
<1>2. ASSUME UNCHANGED <<root, run, transit, phase, count>> PROVE Good
  BY <1>2, Elsewhere DEF SessionInv, CountInv
<1>3. CASE FeedTurn \/ TakeOrphans
  BY <1>2, <1>3 DEF FeedTurn, TakeOrphans, control, data
<1>4. ASSUME NEW m \in Mentions, Resolved(m) PROVE Good
  BY <1>4, SubmitGood DEF Resolved, Crossing
<1>5. ASSUME NEW m \in Mentions, Refused(m) PROVE Good
  BY <1>2, <1>5 DEF Refused, control, data
<1> QED
  BY <1>1, <1>3, <1>4, <1>5 DEF TerminalStep

LEMMA WakeGood ==
  ASSUME SessionInv, MaybeWake
  PROVE  Good
<1>1. CountInv' /\ count' = count
  BY DEF MaybeWake, SessionInv, CountInv
<1>2. CASE Wakes /\ queue # NoEvents
  <2>1. IdleSlot \in Slots /\ phase \notin Working
    BY <1>2, IdleSlotIsIdle DEF MaybeWake, Wakes, Rest, Working
  <2>2. Begin(IdleSlot, "wake", Events(queue), 1) /\ transit' = transit \cup Results(queue)
    BY <1>2 DEF MaybeWake
  <2> QED
    BY <1>1, <2>1, <2>2, Starts DEF Events
<1>3. CASE ~(Wakes /\ queue # NoEvents)
  BY <1>1, <1>3, Elsewhere DEF MaybeWake
<1> QED
  BY <1>2, <1>3

LEMMA RunEndsGood ==
  ASSUME SessionInv, NEW x \in Slots, RunEnds(x)
  PROVE  Good
<1>1. x \in Active /\ Active = {x} /\ Shape /\ phase \in Working
  BY DEF RunEnds, Finishes, HitsLimit, Cut, Fails, BacksOff, TriesAgain, BackoffCut, Active, SessionInv,
         TurnInv, AtOne, Agrees
<1>2. count.continues > 0 \/ (transit \subseteq run[x].heard /\ run[x].kind # "resume")
  BY <1>1 DEF SessionInv, HeldInv, CountInv
<1>3. CASE Finishes(x)
  BY <1>1, <1>2, <1>3, Ends DEF Finishes, Working
<1>4. CASE HitsLimit(x)
  BY <1>1, <1>2, <1>4, Ends DEF HitsLimit, Working
<1>5. CASE Cut(x) \/ BackoffCut(x) \/ Fails(x)
  <2>1. PICK p \in {"idle", "error"} : Over(x, p) /\ GiveBack(x)
    BY <1>5 DEF Cut, BackoffCut, Fails
  <2> QED
    BY <1>1, <2>1, Ends DEF GiveBack, GivenBack, Working
<1>6. CASE BacksOff(x)
  <2>1. ~run[x].stopped
    BY <1>1, <1>6 DEF BacksOff, MayRetry, SessionInv, StopInv
  <2> DEFINE r == [run[x] EXCEPT !.at = "backoff"]
  <2>2. run' = [run EXCEPT ![x] = r] /\ phase' \in Working /\ UNCHANGED <<transit, root, count>>
    BY <1>6 DEF BacksOff, Working, data
  <2>3. /\ DOMAIN r = Fields /\ r.at = "backoff" /\ r.kind = run[x].kind /\ r.stopped = run[x].stopped
        /\ r.attempt = run[x].attempt /\ r.heard = run[x].heard
    BY <1>1 DEF Shape, Fields
  <2> HIDE DEF r
  <2> QED
    BY <1>1, <2>1, <2>2, <2>3, GoesOn
<1>7. CASE TriesAgain(x)
  <2>1. transit' = {} /\ count' = count /\ ~run[x].stopped
    BY <1>7 DEF TriesAgain
  <2>6. PICK kind, items, attempt :
          Begin(x, kind, items, attempt) /\ kind = run[x].kind /\ items = run[x].given \cup transit
    BY <1>7 DEF TriesAgain
  <2>7. /\ Shape' /\ Active' = Active \cup {x} /\ phase' = "busy" /\ root' = "live"
        /\ run'[x].kind = kind /\ run'[x].given = items /\ run'[x].stopped = FALSE
    <3>1. Shape
      BY <1>1
    <3>2. Begin(x, kind, items, attempt)
      BY <2>6
    <3> QED
      BY <3>1, <3>2, Begins
  <2>2. /\ Shape' /\ Active' = {x} /\ phase' = "busy" /\ root' = "live"
        /\ run'[x].kind = run[x].kind /\ run'[x].given = run[x].given \cup transit
        /\ run'[x].stopped = FALSE
    BY <1>1, <2>6, <2>7
  <2>3. TurnInv' /\ StopInv' /\ CountInv'
    BY <2>1, <2>2 DEF TurnInv, Agrees, AtOne, Working, StopInv, SessionInv, CountInv
  <2>4. HeldInv'
    BY <1>1, <2>1, <2>2 DEF SessionInv, HeldInv
  <2>5. StopIsHeeded /\ DrainedStaysSomewhere
    BY <1>1, <2>1, <2>2 DEF StopIsHeeded, DrainedStaysSomewhere
  <2> QED
    BY <2>3, <2>4, <2>5 DEF Good, SessionInv
<1> QED
  BY <1>3, <1>4, <1>5, <1>6, <1>7 DEF RunEnds

LEMMA RunStepGood ==
  ASSUME SessionInv, NEW x \in Slots, RunStep(x)
  PROVE  Good
<1>1. ASSUME TopOfIteration(x) \/ BetweenTools(x) PROVE Good
  <2>1. x \in Active /\ phase \in Working /\ Shape /\ run[x].at = "loop"
    BY <1>1 DEF TopOfIteration, BetweenTools, Active, SessionInv, TurnInv, Agrees
  <2>2. PICK more : /\ run' = [run EXCEPT ![x].heard = @ \cup more]
                    /\ transit \subseteq transit' /\ transit' \subseteq transit \cup more
    <3>1. CASE TopOfIteration(x)
      <4> DEFINE all == ToSet(live) \cup Events(queue)
      <4>1. /\ run' = [run EXCEPT ![x].heard = @ \cup ToSet(live) \cup Events(queue)]
            /\ transit' = transit \cup Results(queue)
        BY <3>1 DEF TopOfIteration
      <4>2. run[x].heard \cup ToSet(live) \cup Events(queue) = run[x].heard \cup all
        OBVIOUS
      <4>3. Results(queue) \subseteq all
        BY DEF Events
      <4> HIDE DEF all
      <4> QED
        BY <4>1, <4>2, <4>3
    <3>2. CASE BetweenTools(x)
      BY <3>2 DEF BetweenTools, data
    <3> QED
      BY <1>1, <3>1, <3>2
  <2> DEFINE r == [run[x] EXCEPT !.heard = @ \cup more]
  <2>3. run' = [run EXCEPT ![x] = r] /\ phase' = phase /\ root' = root /\ count' = count
    BY <1>1, <2>2 DEF TopOfIteration, BetweenTools, control
  <2>4. /\ DOMAIN r = Fields /\ r.at = "loop" /\ r.kind = run[x].kind /\ r.stopped = run[x].stopped
        /\ r.attempt = run[x].attempt /\ r.heard = run[x].heard \cup more
    BY <2>1 DEF Shape, Fields, Active
  <2> HIDE DEF r
  <2> QED
    BY <2>1, <2>2, <2>3, <2>4, GoesOn
<1>2. ASSUME RunEnds(x) PROVE Good
  BY <1>2, RunEndsGood
<1>3. ASSUME Pump(x) PROVE Good
  <2>1. UNCHANGED <<root, run, transit, phase, count>>
    BY <1>3 DEF Pump, control, data
  <2> QED
    BY <2>1, Elsewhere DEF SessionInv, CountInv
<1>4. ASSUME LeaveFanout(x) PROVE Good
  <2>1. x \in Active /\ phase \in Working /\ Shape
    BY <1>4 DEF LeaveFanout, Active, SessionInv, TurnInv, Agrees
  <2> DEFINE r == [run[x] EXCEPT !.at = "loop", !.fan = None]
  <2>2. run' = [run EXCEPT ![x] = r] /\ UNCHANGED <<phase, root, transit, count>>
    BY <1>4 DEF LeaveFanout, data
  <2>3. /\ DOMAIN r = Fields /\ r.at = "loop" /\ r.kind = run[x].kind /\ r.stopped = run[x].stopped
        /\ r.attempt = run[x].attempt /\ r.heard = run[x].heard
    BY <2>1 DEF Shape, Fields, Active
  <2> HIDE DEF r
  <2> QED
    BY <2>1, <2>2, <2>3, GoesOn
<1>5. ASSUME NEW f \in Fanouts, Dispatch(x, f) PROVE Good
  <2>1. UNCHANGED <<root, run, transit, phase, count>>
    BY <1>5 DEF Dispatch, control, data
  <2> QED
    BY <2>1, Elsewhere DEF SessionInv, CountInv
<1>6. ASSUME NEW f \in Fanouts, Spawn(x, f) PROVE Good
  <2>1. x \in Active /\ phase \in Working /\ Shape
    BY <1>6 DEF Spawn, Active, SessionInv, TurnInv, Agrees
  <2> DEFINE r == [run[x] EXCEPT !.at = "fanout", !.fan = f]
  <2>2. run' = [run EXCEPT ![x] = r] /\ UNCHANGED <<phase, root, transit, count>>
    BY <1>6 DEF Spawn, data
  <2>3. /\ DOMAIN r = Fields /\ r.at = "fanout" /\ r.kind = run[x].kind /\ r.stopped = run[x].stopped
        /\ r.attempt = run[x].attempt /\ r.heard = run[x].heard
    BY <2>1 DEF Shape, Fields, Active
  <2> HIDE DEF r
  <2> QED
    BY <2>1, <2>2, <2>3, GoesOn
<1> QED
  BY <1>1, <1>2, <1>3, <1>4, <1>5, <1>6 DEF RunStep

LEMMA FanEndsGood ==
  ASSUME SessionInv, NEW f \in Fanouts, FanEnds(f)
  PROVE  Good
<1>1. UNCHANGED <<phase, root, transit, count>>
  BY DEF FanEnds
<1>2. CASE run' = run
  BY <1>1, <1>2, Elsewhere DEF SessionInv, CountInv
<1>3. CASE run' # run
  <2>1. PICK x \in Slots :
          /\ run[x].at = "fanout"
          /\ run' = [run EXCEPT ![x].at = "loop", ![x].fan = None, ![x].heard = @ \cup {f}]
    BY <1>3 DEF FanEnds
  <2>2. x \in Active /\ phase \in Working /\ Shape
    BY <2>1 DEF Active, SessionInv, TurnInv, Agrees
  <2> DEFINE r == [run[x] EXCEPT !.at = "loop", !.fan = None, !.heard = @ \cup {f}]
  <2>3. run' = [run EXCEPT ![x] = r]
    BY <2>1, <2>2 DEF Shape, Fields
  <2>4. /\ DOMAIN r = Fields /\ r.at = "loop" /\ r.kind = run[x].kind /\ r.stopped = run[x].stopped
        /\ r.attempt = run[x].attempt /\ r.heard = run[x].heard \cup {f}
    BY <2>2 DEF Shape, Fields, Active
  <2> HIDE DEF r
  <2> QED
    BY <1>1, <2>2, <2>3, <2>4, GoesOn
<1> QED
  BY <1>2, <1>3

LEMMA InitGood == Init => SessionInv
<1> SUFFICES ASSUME Init PROVE SessionInv
  OBVIOUS
<1>1. Shape
  BY DEF Init, Shape, NoRun, Fields
<1>2. Active = {}
  BY DEF Init, Active, NoRun
<1>3. TurnInv /\ StopInv
  BY <1>1, <1>2 DEF TurnInv, Agrees, AtOne, StopInv, Init, Working
<1>4. HeldInv /\ CountInv
  BY <1>2 DEF Init, HeldInv, CountInv
<1> QED
  BY <1>3, <1>4 DEF SessionInv

LEMMA NextGood ==
  ASSUME SessionInv, crossed = 0, crossed' = 0, [Next]_vars
  PROVE  SessionInv' /\ [StopIsHeeded]_vars /\ [DrainedStaysSomewhere]_vars
<1>1. ASSUME UNCHANGED vars PROVE SessionInv'
  BY <1>1 DEF vars, control, mail, data, wakes, fans, SessionInv, TurnInv, StopInv, HeldInv, CountInv, Shape,
              Agrees, AtOne, Active
<1>2. ASSUME NEW f \in Fanouts, Report(f) \/ Leave(f) PROVE Good
  <2>1. UNCHANGED <<root, run, transit, phase, count>>
    BY <1>2 DEF Report, Leave, control, data
  <2> QED
    BY <2>1, Elsewhere DEF SessionInv, CountInv
<1>3. ASSUME NEW e \in Monitors, Fire(e) PROVE Good
  <2>1. UNCHANGED <<root, run, transit, phase>>
    BY <1>3 DEF Fire, control
  <2>2. CountInv' /\ count'.continues = count.continues
    BY <1>3 DEF Fire, SessionInv, CountInv
  <2> QED
    BY <2>1, <2>2, Elsewhere
<1>4. ASSUME Next PROVE Good
  BY <1>2, <1>3, <1>4, WakeGood, RunStepGood, FanEndsGood, OwnerGood, TerminalGood DEF Next, Handler
<1> QED
  BY <1>1, <1>4 DEF Good

LEMMA RunUncrossed ==
  ASSUME NEW x \in Slots, RunStep(x)
  PROVE  crossed' = crossed
<1>1. ASSUME UNCHANGED mail PROVE crossed' = crossed
  BY <1>1 DEF mail, attaching
<1>2. ASSUME Settle PROVE crossed' = crossed
  BY <1>2 DEF Settle, attaching
<1>3. CASE TopOfIteration(x) \/ BetweenTools(x) \/ Pump(x) \/ LeaveFanout(x)
  BY <1>1, <1>3 DEF TopOfIteration, BetweenTools, Pump, LeaveFanout, attaching
<1>4. CASE RunEnds(x)
  BY <1>1, <1>2, <1>4 DEF RunEnds, Finishes, HitsLimit, Cut, Fails, BacksOff, TriesAgain, BackoffCut
<1>5. CASE \E f \in Fanouts : Dispatch(x, f) \/ Spawn(x, f)
  BY <1>1, <1>5 DEF Dispatch, Spawn
<1> QED
  BY <1>3, <1>4, <1>5 DEF RunStep

\* A message is submitted over a turn in two ways only.
LEMMA NextCrossed ==
  ASSUME [Next]_vars
  PROVE  crossed' = crossed \/ (crossed' = Crossing /\ \E m \in Messages : Submit(m))
<1>1. ASSUME UNCHANGED mail PROVE crossed' = crossed
  BY <1>1 DEF mail, attaching
<1>2. ASSUME NEW x \in Slots, RunStep(x) PROVE crossed' = crossed
  BY <1>2, RunUncrossed
<1>3. ASSUME NEW m \in Composer, TypeAtRest(m) \/ TypeIntoTurn(m) \/ TypeAhead(m) \/ TypeToNobody(m)
      PROVE  crossed' = crossed
  BY <1>3 DEF TypeAtRest, SubmitLine, TypeIntoTurn, TypeAhead, TypeToNobody, Inject, Enqueue, attaching
<1>4. ASSUME NEW m \in Connector, Receive(m)
      PROVE  crossed' = crossed \/ (crossed' = Crossing /\ \E h \in Messages : Submit(h))
  BY <1>4 DEF Receive, Inject, attaching, Messages
<1>5. CASE Interrupt \/ CancelAll \/ Retry \/ Dismiss \/ Continue
  BY <1>1, <1>5 DEF Interrupt, CancelAll, Demote, attaching, Retry, Dismiss, Continue
<1>6. CASE SubmitHead \/ FeedTurn \/ TakeOrphans
  BY <1>6 DEF SubmitHead, SubmitLine, FeedTurn, TakeOrphans, attaching
<1>7. ASSUME NEW m \in Mentions, Resolved(m) \/ Refused(m)
      PROVE  crossed' = crossed \/ (crossed' = Crossing /\ \E h \in Messages : Submit(h))
  BY <1>7, KindsAssumption DEF Resolved, Refused, Messages
<1>8. CASE MaybeWake \/ (\E f \in Fanouts : Report(f) \/ Leave(f) \/ FanEnds(f)) \/ \E e \in Monitors : Fire(e)
  BY <1>1, <1>8 DEF MaybeWake, Report, Leave, FanEnds, Fire
<1>9. CASE UNCHANGED vars
  BY <1>1, <1>9 DEF vars
<1>10. ASSUME OwnerStep \/ TerminalStep
       PROVE  crossed' = crossed \/ (crossed' = Crossing /\ \E m \in Messages : Submit(m))
  BY <1>3, <1>4, <1>5, <1>6, <1>7, <1>10 DEF OwnerStep, TerminalStep
<1> QED
  BY <1>2, <1>8, <1>9, <1>10 DEF Next, Handler

\* A message that is submitted leaves the active runs alone.
LEMMA SubmitAside ==
  ASSUME Shape, NEW m, Submit(m)
  PROVE  StopIsHeeded /\ DrainedStaysSomewhere
<1>1. IdleSlot \in Slots /\ IdleSlot \notin Active
  BY IdleSlotIsIdle DEF Submit
<1>2. Begin(IdleSlot, "turn", seed \cup ToSet(pending) \cup {m}, 1) /\ transit' = transit
  BY DEF Submit
<1>3. \A y \in Slots \ {IdleSlot} : run'[y] = run[y]
  BY <1>1, <1>2, Begins
<1> QED
  BY <1>1, <1>2, <1>3 DEF StopIsHeeded, DrainedStaysSomewhere, Active

\* As long as no message has been submitted over a turn.
Uncrossed == crossed \in Nat /\ (crossed = 0 => SessionInv)

LEMMA NextUncrossed ==
  ASSUME Uncrossed, [Next]_vars
  PROVE  /\ Uncrossed' /\ (crossed' = 0 => crossed = 0)
         /\ [StopIsHeeded]_vars /\ [DrainedStaysSomewhere]_vars
<1>1. crossed' \in Nat /\ (crossed' = 0 => crossed = 0)
      /\ (crossed' = crossed \/ \E m \in Messages : Submit(m))
  BY NextCrossed DEF Uncrossed, Crossing
<1>2. CASE crossed # 0
  BY <1>1, <1>2 DEF Uncrossed, StopIsHeeded, DrainedStaysSomewhere
<1>3. CASE crossed = 0 /\ crossed' = 0
  BY <1>1, <1>3, NextGood DEF Uncrossed
<1>4. CASE crossed = 0 /\ crossed' # 0
  <2>1. Uncrossed'
    BY <1>1, <1>4 DEF Uncrossed
  <2>2. StopIsHeeded /\ DrainedStaysSomewhere
    BY <1>1, <1>4, SubmitAside DEF Uncrossed, SessionInv, TurnInv
  <2> QED
    BY <1>4, <2>1, <2>2
<1> QED
  BY <1>2, <1>3, <1>4

LEMMA InitUncrossed == Init => Uncrossed
BY InitGood DEF Init, Uncrossed

-----------------------------------------------------------------------------
(* How many runs there are *)

\* A run more needs a phase that rests or a message submitted over a turn; a run less makes it rest.
TurnsInv == Shape /\ crossed \in Nat /\ OneTurn /\ PhaseAgrees

LEMMA ActiveCounted == IsFiniteSet(Active) /\ Cardinality(Active) \in Nat
<1>1. Active \subseteq Slots
  BY DEF Active
<1> QED
  BY <1>1, FinitenessAssumption, FS_Subset, FS_CardinalityType

LEMMA TurnsAsWere ==
  ASSUME TurnsInv, UNCHANGED <<run, crossed>>, phase' = phase \/ {phase, phase'} \cap Working = {}
  PROVE  TurnsInv'
<1>1. Active' = Active /\ Shape'
  BY DEF TurnsInv, Active, Shape
<1>2. phase' \in Working <=> phase \in Working
  OBVIOUS
<1> QED
  BY <1>1, <1>2 DEF TurnsInv, OneTurn, PhaseAgrees

\* A run that goes on, at a phase that works or rests.
LEMMA TurnsGoOn ==
  ASSUME TurnsInv, NEW x \in Active, Active' = Active, Shape', crossed' = crossed,
         phase' = phase \/ phase' \in Working
  PROVE  TurnsInv'
<1>1. phase' \in Working => Active' # {}
  OBVIOUS
<1>2. phase' \notin Working => Cardinality(Active') <= crossed'
  BY DEF TurnsInv, PhaseAgrees
<1> QED
  BY <1>1, <1>2 DEF TurnsInv, OneTurn, PhaseAgrees

LEMMA TurnsStart ==
  ASSUME TurnsInv, NEW x \in Slots, x \notin Active, Active' = Active \cup {x}, Shape', phase' \in Working,
         crossed' = Crossing \/ (crossed' = crossed /\ phase \notin Working)
  PROVE  TurnsInv'
<1>1. Cardinality(Active') = Cardinality(Active) + 1
  BY ActiveCounted, FS_AddElement
<1>2. crossed' = Crossing /\ crossed' \in Nat
  BY DEF Crossing, TurnsInv
<1>3. Cardinality(Active) <= Crossing
  BY DEF TurnsInv, Crossing, PhaseAgrees, OneTurn
<1>4. OneTurn'
  BY <1>1, <1>2, <1>3, ActiveCounted DEF OneTurn
<1> QED
  BY <1>2, <1>4 DEF TurnsInv, PhaseAgrees

LEMMA TurnsEnd ==
  ASSUME TurnsInv, NEW x \in Active, NEW p, p \notin Working, Over(x, p), crossed' = crossed
  PROVE  TurnsInv'
<1>1. Shape' /\ Active' = Active \ {x} /\ phase' = p
  BY Leaves DEF Over, TurnsInv, Active
<1>2. Cardinality(Active') = Cardinality(Active) - 1
  BY <1>1, ActiveCounted, FS_RemoveElement
<1>3. Cardinality(Active') <= crossed
  BY <1>2, ActiveCounted DEF TurnsInv, OneTurn
<1> QED
  BY <1>1, <1>3, ActiveCounted, <1>2 DEF TurnsInv, OneTurn, PhaseAgrees

\* A turn in a slot of its own.
LEMMA TurnsBegin ==
  ASSUME TurnsInv, Active # Slots, NEW kind, NEW items, NEW attempt, Begin(IdleSlot, kind, items, attempt),
         crossed' = Crossing \/ (crossed' = crossed /\ phase \notin Working)
  PROVE  TurnsInv'
<1>1. IdleSlot \in Slots /\ IdleSlot \notin Active
  BY IdleSlotIsIdle
<1>2. Shape' /\ Active' = Active \cup {IdleSlot} /\ phase' = "busy"
  BY <1>1, Begins DEF TurnsInv
<1> QED
  BY <1>1, <1>2, TurnsStart DEF Working

LEMMA TurnsSubmit ==
  ASSUME TurnsInv, NEW m, Submit(m),
         crossed' = Crossing \/ (crossed' = crossed /\ phase \notin Working)
  PROVE  TurnsInv'
<1>1. Active # Slots /\ Begin(IdleSlot, "turn", seed \cup ToSet(pending) \cup {m}, 1)
  BY DEF Submit
<1> QED
  BY <1>1, TurnsBegin

\* A run that changes in some field.
LEMMA TurnsRunStep ==
  ASSUME TurnsInv, NEW x \in Active, NEW r, DOMAIN r = Fields, r.at # "off", run' = [run EXCEPT ![x] = r],
         crossed' = crossed, phase' = phase \/ phase' \in Working
  PROVE  TurnsInv'
<1>1. Shape' /\ Active' = Active
  BY StaysActive DEF TurnsInv
<1> QED
  BY <1>1, TurnsGoOn

LEMMA RunTurns ==
  ASSUME TurnsInv, NEW x \in Slots, RunStep(x), crossed' = crossed
  PROVE  TurnsInv'
<1>1. x \in Active \/ Pump(x) \/ \E f \in Fanouts : Dispatch(x, f)
  BY DEF RunStep, RunEnds, TopOfIteration, BetweenTools, Finishes, HitsLimit, Cut, Fails, BacksOff, TriesAgain,
         BackoffCut, LeaveFanout, Spawn, Active
<1>2. CASE Pump(x) \/ \E f \in Fanouts : Dispatch(x, f)
  BY <1>2, TurnsAsWere DEF Pump, Dispatch, control
<1>3. ASSUME x \in Active, NEW h, run' = [run EXCEPT ![x].heard = @ \cup h], phase' = phase PROVE TurnsInv'
  <2> DEFINE r == [run[x] EXCEPT !.heard = @ \cup h]
  <2>1. run' = [run EXCEPT ![x] = r] /\ DOMAIN r = Fields /\ r.at = run[x].at
    BY <1>3 DEF TurnsInv, Shape, Fields
  <2>2. r.at # "off"
    BY <1>3, <2>1 DEF Active
  <2> HIDE DEF r
  <2> QED
    BY <1>3, <2>1, <2>2, TurnsRunStep
<1>4. ASSUME x \in Active, TopOfIteration(x) \/ BetweenTools(x) PROVE TurnsInv'
  <2>1. CASE BetweenTools(x)
    BY <1>3, <1>4, <2>1 DEF BetweenTools
  <2>2. CASE TopOfIteration(x)
    <3>1. run' = [run EXCEPT ![x].heard = @ \cup (ToSet(live) \cup Events(queue))]
      BY <2>2 DEF TopOfIteration
    <3> QED
      BY <1>3, <1>4, <2>2, <3>1 DEF TopOfIteration
  <2> QED
    BY <1>4, <2>1, <2>2
<1>5. ASSUME x \in Active, NEW a, a # "off", NEW f, phase' = phase \/ phase' \in Working,
             run' = [run EXCEPT ![x].at = a] \/ run' = [run EXCEPT ![x].at = a, ![x].fan = f]
      PROVE  TurnsInv'
  <2>1. ASSUME run' = [run EXCEPT ![x].at = a] PROVE TurnsInv'
    <3> DEFINE r == [run[x] EXCEPT !.at = a]
    <3>1. run' = [run EXCEPT ![x] = r] /\ DOMAIN r = Fields /\ r.at = a
      BY <1>5, <2>1 DEF TurnsInv, Shape, Fields, Active
    <3> HIDE DEF r
    <3> QED
      BY <1>5, <3>1, TurnsRunStep
  <2>2. ASSUME run' = [run EXCEPT ![x].at = a, ![x].fan = f] PROVE TurnsInv'
    <3> DEFINE r == [run[x] EXCEPT !.at = a, !.fan = f]
    <3>1. run' = [run EXCEPT ![x] = r] /\ DOMAIN r = Fields /\ r.at = a
      BY <1>5, <2>2 DEF TurnsInv, Shape, Fields, Active
    <3> HIDE DEF r
    <3> QED
      BY <1>5, <3>1, TurnsRunStep
  <2> QED
    BY <1>5, <2>1, <2>2
<1>6. ASSUME x \in Active, BacksOff(x) PROVE TurnsInv'
  BY <1>5, <1>6 DEF BacksOff, Working
<1>7. ASSUME x \in Active, LeaveFanout(x) PROVE TurnsInv'
  BY <1>5, <1>7 DEF LeaveFanout
<1>8. ASSUME x \in Active, NEW f \in Fanouts, Spawn(x, f) PROVE TurnsInv'
  BY <1>5, <1>8 DEF Spawn
<1>9. ASSUME x \in Active, TriesAgain(x) PROVE TurnsInv'
  <2>1. PICK kind, items, attempt : Begin(x, kind, items, attempt)
    BY <1>9 DEF TriesAgain
  <2>2. Shape' /\ Active' = Active \cup {x} /\ phase' = "busy"
    BY <2>1, Begins DEF TurnsInv
  <2> QED
    BY <1>9, <2>2, TurnsGoOn DEF Working
<1>10. ASSUME x \in Active, Finishes(x) \/ HitsLimit(x) \/ Cut(x) \/ Fails(x) \/ BackoffCut(x) PROVE TurnsInv'
  <2>1. PICK p \in {"done", "budget", "idle", "error"} : Over(x, p)
    BY <1>10 DEF Finishes, HitsLimit, Cut, Fails, BackoffCut
  <2> QED
    BY <1>10, <2>1, TurnsEnd DEF Working
<1> QED
  BY <1>1, <1>2, <1>4, <1>6, <1>7, <1>8, <1>9, <1>10 DEF RunStep, RunEnds

LEMMA FanTurns ==
  ASSUME TurnsInv, NEW f \in Fanouts, FanEnds(f), crossed' = crossed
  PROVE  TurnsInv'
<1>1. CASE run' = run
  BY <1>1, TurnsAsWere DEF FanEnds
<1>2. CASE run' # run
  <2>1. PICK x \in Slots :
          /\ run[x].at = "fanout"
          /\ run' = [run EXCEPT ![x].at = "loop", ![x].fan = None, ![x].heard = @ \cup {f}]
    BY <1>2 DEF FanEnds
  <2> DEFINE r == [run[x] EXCEPT !.at = "loop", !.fan = None, !.heard = @ \cup {f}]
  <2>2. x \in Active /\ run' = [run EXCEPT ![x] = r] /\ DOMAIN r = Fields /\ r.at = "loop"
    BY <2>1 DEF TurnsInv, Shape, Fields, Active
  <2> HIDE DEF r
  <2> QED
    BY <2>2, TurnsRunStep DEF FanEnds
<1> QED
  BY <1>1, <1>2

LEMMA OwnerTurns ==
  ASSUME TurnsInv, OwnerStep \/ TerminalStep, crossed' = crossed \/ \E m \in Messages : Submit(m)
  PROVE  TurnsInv'
<1>1. ASSUME UNCHANGED <<run, phase, crossed>> PROVE TurnsInv'
  BY <1>1, TurnsAsWere
<1>2. ASSUME NEW m, SubmitLine(m), phase \notin Working PROVE TurnsInv'
  BY <1>1, <1>2, TurnsSubmit DEF SubmitLine, control, attaching
<1>3. ASSUME NEW m \in Composer, TypeAtRest(m) \/ TypeIntoTurn(m) \/ TypeAhead(m) \/ TypeToNobody(m)
      PROVE  TurnsInv'
  BY <1>1, <1>2, <1>3 DEF TypeAtRest, TypeIntoTurn, TypeAhead, TypeToNobody, Inject, Enqueue, control, attaching,
                          Rest, Working
<1>4. ASSUME NEW m \in Connector, Receive(m) PROVE TurnsInv'
  <2>1. CASE Submit(m) /\ crossed' = Crossing
    BY <2>1, TurnsSubmit
  <2> QED
    BY <1>1, <1>4, <2>1 DEF Receive, Inject, control, attaching
<1>5. ASSUME NEW m \in Mentions, Resolved(m) \/ Refused(m) PROVE TurnsInv'
  BY <1>1, <1>5, TurnsSubmit DEF Resolved, Refused, control
<1>6. CASE SubmitHead \/ FeedTurn \/ TakeOrphans
  BY <1>1, <1>2, <1>6 DEF SubmitHead, FeedTurn, TakeOrphans, control, attaching, Rest, Working
<1>7. CASE Interrupt \/ CancelAll
  <2>1. Shape' /\ Active' = Active /\ phase' = phase /\ crossed' = crossed
    BY <1>7, Brakes DEF Interrupt, CancelAll, Demote, attaching, TurnsInv
  <2> QED
    BY <2>1 DEF TurnsInv, OneTurn, PhaseAgrees
<1>8. CASE Dismiss
  BY <1>8, TurnsAsWere DEF Dismiss, mail, attaching, Working
<1>9. CASE Retry
  BY <1>9, TurnsBegin DEF Retry, mail, attaching, Working
<1>10. CASE Continue
  <2> DEFINE r == [NoRun EXCEPT !.at = "loop", !.kind = "resume", !.heard = resumable]
  <2>1. /\ IdleSlot \in Slots /\ IdleSlot \notin Active /\ run' = [run EXCEPT ![IdleSlot] = r]
        /\ phase \notin Working /\ phase' = "busy" /\ crossed' = crossed /\ Shape
    BY <1>10, IdleSlotIsIdle DEF Continue, mail, attaching, Working, TurnsInv
  <2>2. DOMAIN r = Fields /\ r.at = "loop"
    BY DEF NoRun, Fields
  <2> HIDE DEF r
  <2>3. Shape' /\ Active' = Active \cup {IdleSlot}
    BY <2>1, <2>2 DEF Shape, Active
  <2> QED
    BY <2>1, <2>3, TurnsStart DEF Working
<1> QED
  BY <1>3, <1>4, <1>5, <1>6, <1>7, <1>8, <1>9, <1>10 DEF OwnerStep, TerminalStep

LEMMA NextTurns == TurnsInv /\ [Next]_vars => TurnsInv'
<1> SUFFICES ASSUME TurnsInv, [Next]_vars PROVE TurnsInv'
  OBVIOUS
<1>1. CASE UNCHANGED vars
  BY <1>1, TurnsAsWere DEF vars, control, mail, attaching
<1>2. CASE MaybeWake
  <2>1. crossed' = crossed
    BY <1>2 DEF MaybeWake, mail, attaching
  <2>2. CASE Wakes /\ queue # NoEvents
    BY <1>2, <2>1, <2>2, TurnsBegin DEF MaybeWake, Wakes, Rest, Working
  <2>3. CASE ~(Wakes /\ queue # NoEvents)
    BY <1>2, <2>1, <2>3, TurnsAsWere DEF MaybeWake
  <2> QED
    BY <2>2, <2>3
<1>3. ASSUME NEW f \in Fanouts, Report(f) \/ Leave(f) PROVE TurnsInv'
  BY <1>3, TurnsAsWere DEF Report, Leave, control, mail, attaching
<1>4. ASSUME NEW e \in Monitors, Fire(e) PROVE TurnsInv'
  BY <1>4, TurnsAsWere DEF Fire, control, mail, attaching
<1>5. ASSUME NEW f \in Fanouts, FanEnds(f) PROVE TurnsInv'
  BY <1>5, FanTurns DEF FanEnds, mail, attaching
<1>6. ASSUME NEW x \in Slots, RunStep(x) PROVE TurnsInv'
  <2>1. crossed' = crossed
    BY <1>6, RunUncrossed
  <2> QED
    BY <1>6, <2>1, RunTurns
<1>7. ASSUME OwnerStep \/ TerminalStep PROVE TurnsInv'
  BY <1>7, OwnerTurns, NextCrossed
<1> QED
  BY <1>1, <1>2, <1>3, <1>4, <1>5, <1>6, <1>7 DEF Next, Handler

LEMMA InitTurns == Init => TurnsInv
<1> SUFFICES ASSUME Init PROVE TurnsInv
  OBVIOUS
<1>1. Shape /\ Active = {} /\ phase \notin Working /\ crossed = 0
  BY DEF Init, Shape, NoRun, Fields, Active, Working
<1>2. Cardinality(Active) = 0
  BY <1>1, FS_EmptySet
<1> QED
  BY <1>1, <1>2 DEF TurnsInv, OneTurn, PhaseAgrees

-----------------------------------------------------------------------------
(* The queues of the owner's messages *)

\* The first message leaves a queue.
LEMMA HeadLeaves ==
  ASSUME NEW T, NEW s \in Seq(T), s # <<>>, IsInjective(s)
  PROVE  /\ Tail(s) \in Seq(T) /\ IsInjective(Tail(s)) /\ Head(s) \in T
         /\ Head(s) \in ToSet(s) /\ ToSet(Tail(s)) = ToSet(s) \ {Head(s)}
<1>1. /\ Head(s) \in T /\ Tail(s) \in Seq(T) /\ Len(Tail(s)) = Len(s) - 1
      /\ \A i \in 1 .. Len(Tail(s)) : Tail(s)[i] = s[i + 1]
  BY HeadTailProperties
<1> DEFINE n == Len(s)
           r == Tail(s)
<1>2. n \in Nat \ {0} /\ DOMAIN s = 1..n /\ DOMAIN r = 1..n - 1 /\ Head(s) = s[1]
  BY <1>1, LenProperties, EmptySeq
<1>3. \A i \in 1..n - 1 : i + 1 \in 1..n /\ r[i] = s[i + 1]
  BY <1>1, <1>2
<1>4. \A i \in 2..n : i - 1 \in 1..n - 1 /\ r[i - 1] = s[i]
  <2> TAKE i \in 2..n
  <2>1. i - 1 \in 1..n - 1 /\ (i - 1) + 1 = i
    BY <1>2
  <2> QED
    BY <1>3, <2>1
<1> HIDE DEF n, r
<1>5. IsInjective(r)
  <2> SUFFICES ASSUME NEW i \in 1..n - 1, NEW j \in 1..n - 1, r[i] = r[j] PROVE i = j
    BY <1>2 DEF IsInjective
  <2>1. s[i + 1] = s[j + 1] /\ i + 1 \in 1..n /\ j + 1 \in 1..n
    BY <1>3
  <2>2. i + 1 = j + 1
    BY <1>2, <2>1 DEF IsInjective
  <2> QED
    BY <1>2, <2>2
<1>6. ToSet(r) = {r[i] : i \in 1..n - 1} /\ ToSet(s) = {s[i] : i \in 1..n}
  BY <1>2 DEF ToSet
<1>7. ASSUME NEW i \in 1..n - 1 PROVE r[i] \in ToSet(s) \ {s[1]}
  <2>1. i + 1 \in 1..n /\ 1 \in 1..n /\ i + 1 # 1
    BY <1>2, <1>3
  <2>2. s[i + 1] # s[1]
    BY <1>2, <2>1 DEF IsInjective
  <2> QED
    BY <1>3, <1>6, <2>1, <2>2
<1>8. ASSUME NEW i \in 1..n, s[i] # s[1] PROVE s[i] \in ToSet(r)
  <2>1. i \in 2..n
    BY <1>2, <1>8
  <2> QED
    BY <1>4, <1>6, <2>1
<1>9. ToSet(r) = ToSet(s) \ {s[1]}
  <2>1. ToSet(r) \subseteq ToSet(s) \ {s[1]}
    BY <1>6, <1>7
  <2>2. ToSet(s) \ {s[1]} \subseteq ToSet(r)
    BY <1>6, <1>8
  <2> QED
    BY <2>1, <2>2
<1>10. s[1] \in ToSet(s)
  BY <1>2, <1>6
<1> QED
  BY <1>1, <1>2, <1>5, <1>9, <1>10 DEF r

LEMMA NothingQueued == <<>> \in Seq(Messages) /\ ToSet(<<>>) = {} /\ IsInjective(<<>>)
BY DEF ToSet, IsInjective

\* A queue holds messages, each once.
Tidy(s) == s \in Seq(Messages) /\ IsInjective(s)

\* Three tidy queues without a message in common.
Apart(s, t, u) ==
  /\ Tidy(s) /\ Tidy(t) /\ Tidy(u)
  /\ ToSet(s) \cap ToSet(t) = {} /\ ToSet(s) \cap ToSet(u) = {} /\ ToSet(t) \cap ToSet(u) = {}

\* Every message waits in one place, once, and was sent; a taken or a cleared one waits nowhere.
MailInv ==
  /\ Apart(tui, live, pending)
  /\ resolving \in SUBSET Mentions /\ Queued \cap resolving = {}
  /\ Waiting \cup taken \cup cleared \subseteq sent
  /\ Waiting \cap (taken \cup cleared) = {}

\* What every step must show.
MailGood == MailInv' /\ [Box!Next]_(Box!vars)

LEMMA QueuedAreMessages ==
  ASSUME NEW s, Tidy(s)
  PROVE  ToSet(s) \subseteq Messages
BY LenProperties DEF Tidy, ToSet

\* Messages move between the queues, or come to nobody.
LEMMA Moved ==
  ASSUME MailInv, Apart(tui, live, pending)', Queued' = Queued, UNCHANGED <<resolving, taken, cleared>>,
         sent \subseteq sent'
  PROVE  MailGood
BY DEF MailInv, MailGood, Waiting, Box!vars

\* A message enters a queue.
LEMMA Entered ==
  ASSUME MailInv, Apart(tui, live, pending)', NEW m \in Messages, NewMessage(m),
         Queued' = Queued \cup {m}, UNCHANGED <<resolving, taken, cleared>>
  PROVE  MailGood
<1>1. Waiting' = Waiting \cup {m} /\ m \notin Waiting
  BY DEF Waiting, MailInv, NewMessage
<1>2. Queued' \cap resolving' = {}
  BY <1>1 DEF Waiting, MailInv
<1>3. MailInv'
  BY <1>1, <1>2 DEF MailInv, NewMessage
<1> QED
  BY <1>1, <1>3 DEF MailInv, MailGood, NewMessage, Box!Next, Box!Send, Box!Known

\* A line with mentions comes, and waits for them.
LEMMA Asks ==
  ASSUME MailInv, NEW m \in Mentions, NewMessage(m), SubmitLine(m), UNCHANGED tui
  PROVE  MailGood
<1>1. resolving' = resolving \cup {m} /\ UNCHANGED <<tui, live, pending, taken, cleared>>
  BY DEF SubmitLine
<1>2. Queued' = Queued /\ Waiting' = Waiting \cup {m} /\ m \notin Waiting /\ m \in Messages
  BY <1>1, KindsAssumption DEF Queued, Waiting, MailInv, NewMessage, Messages
<1>3. MailInv'
  BY <1>1, <1>2 DEF MailInv, NewMessage, Waiting
<1> QED
  BY <1>1, <1>2, <1>3 DEF MailInv, MailGood, NewMessage, Box!Next, Box!Send, Box!Known

\* ... or comes out of the terminal's queue to wait for them.
LEMMA AsksHead ==
  ASSUME MailInv, SubmitHead, Head(tui) \in Mentions
  PROVE  MailGood
<1>1. /\ tui # <<>> /\ tui' = Tail(tui) /\ resolving' = resolving \cup {Head(tui)}
      /\ UNCHANGED <<live, pending, taken, cleared, sent>>
  BY DEF SubmitHead, SubmitLine
<1>2. /\ Tidy(Tail(tui)) /\ Head(tui) \in ToSet(tui) /\ ToSet(Tail(tui)) = ToSet(tui) \ {Head(tui)}
  BY <1>1, HeadLeaves DEF MailInv, Apart, Tidy
<1>3. Apart(tui, live, pending)'
  BY <1>1, <1>2 DEF MailInv, Apart, Tidy
<1>4. Queued' = Queued \ {Head(tui)} /\ Head(tui) \in Queued
  BY <1>1, <1>2 DEF MailInv, Apart, Queued
<1>5. Waiting' = Waiting /\ Queued' \cap resolving' = {} /\ resolving' \in SUBSET Mentions
  BY <1>1, <1>4 DEF MailInv, Waiting
<1>6. MailInv'
  BY <1>1, <1>3, <1>5 DEF MailInv
<1> QED
  BY <1>1, <1>5, <1>6 DEF MailGood, Box!vars

\* A line whose mentions are refused goes back to its owner.
LEMMA GoesBack ==
  ASSUME MailInv, NEW m \in Mentions, Refused(m)
  PROVE  MailGood
<1>1. /\ m \in resolving /\ resolving' = resolving \ {m} /\ sent' = sent \ {m}
      /\ UNCHANGED <<tui, live, pending, taken, cleared>>
  BY DEF Refused
<1>2. Queued' = Queued /\ Waiting' = Waiting \ {m} /\ m \in Waiting
  BY <1>1 DEF MailInv, Queued, Waiting
<1>3. MailInv'
  BY <1>1, <1>2 DEF MailInv
<1>4. Box!Return(m)
  BY <1>1, <1>2 DEF Box!Return
<1> QED
  BY <1>3, <1>4 DEF MailGood, Box!Next

\* A turn takes messages out of the queues, and those of fresh as they come.
LEMMA Taken ==
  ASSUME MailInv, Apart(tui, live, pending)', NEW S \in SUBSET Messages, NEW fresh \in SUBSET S,
         S \subseteq Waiting \cup fresh, fresh \cap sent = {}, sent' = sent \cup fresh,
         Queued' = Queued \ S, resolving' = resolving \ S, taken' = taken \cup S, UNCHANGED cleared
  PROVE  MailGood
<1>4. Waiting' = Waiting \ S /\ Queued' \cap resolving' = {} /\ resolving' \in SUBSET Mentions
  BY DEF MailInv, Waiting
<1>1. MailInv'
  BY <1>4 DEF MailInv
<1>2. CASE S = {}
  BY <1>1, <1>2, <1>4 DEF MailGood, Box!vars
<1>3. CASE S # {}
  <2>1. Box!Take(S, fresh)
    BY <1>3, <1>4 DEF MailInv, Box!Take, Box!Known
  <2> QED
    BY <1>1, <2>1 DEF MailGood, Box!Next
<1> QED
  BY <1>2, <1>3

\* Those that wait in the queues only.
LEMMA TakenQueued ==
  ASSUME MailInv, Apart(tui, live, pending)', NEW S \in SUBSET Messages, NEW fresh \in SUBSET S,
         S \subseteq Queued \cup fresh, fresh \cap sent = {}, sent' = sent \cup fresh,
         Queued' = Queued \ S, taken' = taken \cup S, UNCHANGED <<resolving, cleared>>
  PROVE  MailGood
<1>1. resolving' = resolving \ S /\ S \subseteq Waiting \cup fresh
  BY DEF MailInv, Waiting
<1> QED
  BY <1>1, Taken

\* The owner's stop clears the terminal's queue.
LEMMA Cleared ==
  ASSUME MailInv, Apart(tui, live, pending)', NEW S \in SUBSET Messages, S \subseteq Queued,
         Queued' = Queued \ S, cleared' = cleared \cup S, UNCHANGED <<resolving, taken, sent>>
  PROVE  MailGood
<1>4. Waiting' = Waiting \ S /\ S \subseteq Waiting /\ Queued' \cap resolving' = {}
  BY DEF MailInv, Waiting
<1>1. MailInv'
  BY <1>4 DEF MailInv
<1>2. CASE S = {}
  BY <1>1, <1>2, <1>4 DEF MailGood, Box!vars
<1>3. CASE S # {}
  BY <1>1, <1>3, <1>4 DEF MailGood, Box!Next, Box!Clear
<1> QED
  BY <1>2, <1>3

LEMMA Untouched ==
  ASSUME MailInv, UNCHANGED mail
  PROVE  MailGood
<1>1. UNCHANGED <<live, pending, tui, resolving, sent, taken, cleared>>
  BY DEF mail, attaching
<1> QED
  BY <1>1, Moved DEF MailInv, Queued

\* The messages of the turn join those that wait for the next.
LEMMA Deferring ==
  ASSUME MailInv, pending' = Deferred, live' = <<>>, UNCHANGED <<tui, resolving, sent, taken, cleared>>
  PROVE  MailGood
<1>1. /\ Deferred \in Seq(Messages) /\ ToSet(Deferred) = ToSet(pending) \cup ToSet(live)
      /\ IsInjective(Deferred)
  BY Joined DEF MailInv, Apart, Tidy, Deferred
<1>2. Apart(tui, live, pending)'
  BY <1>1, NothingQueued DEF MailInv, Apart, Tidy
<1>3. Queued' = Queued
  BY <1>1, NothingQueued DEF Queued
<1> QED
  BY <1>2, <1>3, Moved

\* A loop drains the messages of its turn.
LEMMA Drains ==
  ASSUME MailInv, live' = <<>>, taken' = taken \cup ToSet(live),
         UNCHANGED <<pending, tui, resolving, sent, cleared>>
  PROVE  MailGood
<1>1. Apart(tui, live, pending)'
  BY NothingQueued DEF MailInv, Apart, Tidy
<1>2. Queued' = Queued \ ToSet(live)
  BY NothingQueued DEF MailInv, Apart, Queued
<1>3. ToSet(live) \in SUBSET Messages /\ ToSet(live) \subseteq Queued
  BY QueuedAreMessages DEF MailInv, Apart, Queued
<1>4. {} \in SUBSET ToSet(live) /\ {} \cap sent = {} /\ ToSet(live) \subseteq Queued \cup {}
      /\ sent' = sent \cup {}
  BY <1>3
<1> QED
  BY <1>1, <1>2, <1>3, <1>4, TakenQueued

\* A new message starts a turn, which takes what waits for it.
LEMMA SubmitsNew ==
  ASSUME MailInv, NEW m \in Messages, NewMessage(m), Submit(m), UNCHANGED <<tui, resolving>>
  PROVE  MailGood
<1>1. UNCHANGED live /\ pending' = <<>> /\ UNCHANGED cleared
      /\ taken' = taken \cup (ToSet(pending) \cup {m})
  BY DEF Submit
<1>2. Apart(tui, live, pending)'
  BY <1>1, NothingQueued DEF MailInv, Apart, Tidy
<1>3. m \notin sent /\ sent' = sent \cup {m} /\ m \notin Queued
  BY DEF NewMessage, MailInv, Waiting
<1>4. Queued' = Queued \ (ToSet(pending) \cup {m})
  BY <1>1, <1>3, NothingQueued DEF MailInv, Apart, Queued
<1>5. ToSet(pending) \cup {m} \in SUBSET Messages /\ ToSet(pending) \subseteq Queued
  BY QueuedAreMessages DEF MailInv, Apart, Queued
<1>6. {m} \in SUBSET (ToSet(pending) \cup {m}) /\ ToSet(pending) \cup {m} \subseteq Queued \cup {m}
  BY <1>5
<1>7. {m} \cap sent = {}
  BY <1>3
<1> QED
  BY <1>1, <1>2, <1>3, <1>4, <1>5, <1>6, <1>7, TakenQueued

\* The head of the terminal's queue does the same.
LEMMA SubmitsHead ==
  ASSUME MailInv, SubmitHead, Head(tui) \notin Mentions
  PROVE  MailGood
<1>1. /\ tui # <<>> /\ tui' = Tail(tui) /\ UNCHANGED <<live, cleared, sent, resolving>> /\ pending' = <<>>
      /\ taken' = taken \cup (ToSet(pending) \cup {Head(tui)})
  BY DEF SubmitHead, SubmitLine, Submit, attaching
<1>2. /\ Tail(tui) \in Seq(Messages) /\ IsInjective(Tail(tui)) /\ Head(tui) \in Messages
      /\ Head(tui) \in ToSet(tui) /\ ToSet(Tail(tui)) = ToSet(tui) \ {Head(tui)}
  BY <1>1, HeadLeaves DEF MailInv, Apart, Tidy
<1>3. Apart(tui, live, pending)'
  BY <1>1, <1>2, NothingQueued DEF MailInv, Apart, Tidy
<1>4. Queued' = Queued \ (ToSet(pending) \cup {Head(tui)})
  BY <1>1, <1>2, NothingQueued DEF MailInv, Apart, Queued
<1>5. /\ ToSet(pending) \cup {Head(tui)} \in SUBSET Messages
      /\ ToSet(pending) \cup {Head(tui)} \subseteq Queued
  BY <1>2, QueuedAreMessages DEF MailInv, Apart, Queued
<1> DEFINE S == ToSet(pending) \cup {Head(tui)}
<1>6. {} \in SUBSET S /\ {} \cap sent = {} /\ S \subseteq Queued \cup {} /\ sent' = sent \cup {}
  BY <1>1, <1>5
<1> HIDE DEF S
<1> QED
  BY <1>1, <1>3, <1>4, <1>5, <1>6, TakenQueued DEF S

\* So does a line whose mentions are resolved.
LEMMA SubmitsResolved ==
  ASSUME MailInv, NEW m \in Mentions, Resolved(m)
  PROVE  MailGood
<1> DEFINE S == ToSet(pending) \cup {m}
<1>1. /\ m \in resolving /\ resolving' = resolving \ {m} /\ UNCHANGED <<tui, live, cleared, sent>>
      /\ pending' = <<>> /\ taken' = taken \cup S
  BY DEF Resolved, Submit
<1>2. Apart(tui, live, pending)'
  BY <1>1, NothingQueued DEF MailInv, Apart, Tidy
<1>3. ToSet(pending) \subseteq Queued /\ ToSet(pending) \subseteq Messages /\ m \in Messages
  BY QueuedAreMessages, KindsAssumption DEF MailInv, Apart, Queued, Messages
<1>4. m \notin Queued /\ ToSet(pending) \cap resolving = {}
  BY <1>1, <1>3 DEF MailInv
<1>5. Queued' = Queued \ S
  BY <1>1, <1>4, NothingQueued DEF MailInv, Apart, Queued
<1>6. resolving' = resolving \ S
  BY <1>1, <1>4
<1>7. S \in SUBSET Messages /\ S \subseteq Waiting
  BY <1>1, <1>3 DEF Waiting
<1>8. {} \in SUBSET S /\ {} \cap sent = {} /\ S \subseteq Waiting \cup {} /\ sent' = sent \cup {}
  BY <1>1, <1>7
<1> HIDE DEF S
<1> QED
  BY <1>1, <1>2, <1>5, <1>6, <1>7, <1>8, Taken

\* A message goes into the turn.
LEMMA Injects ==
  ASSUME MailInv, NEW m \in Messages, NEW own, NewMessage(m), Inject(m, own), UNCHANGED tui
  PROVE  MailGood
<1>1. live' = Append(live, m) /\ UNCHANGED <<pending, tui, taken, cleared, resolving>> /\ m \notin Queued
  BY DEF Inject, NewMessage, MailInv, Waiting, attaching
<1>2. /\ Append(live, m) \in Seq(Messages) /\ ToSet(Append(live, m)) = ToSet(live) \cup {m}
      /\ IsInjective(Append(live, m))
  BY <1>1, Appended DEF MailInv, Apart, Tidy, Queued
<1>3. Apart(tui, live, pending)'
  BY <1>1, <1>2 DEF MailInv, Apart, Tidy, Queued
<1>4. Queued' = Queued \cup {m}
  BY <1>1, <1>2 DEF Queued
<1> QED
  BY <1>1, <1>3, <1>4, Entered

\* A message goes to the terminal's queue.
LEMMA Enqueues ==
  ASSUME MailInv, NEW m \in Messages, NewMessage(m), Enqueue(m)
  PROVE  MailGood
<1>1. tui' = Append(tui, m) /\ UNCHANGED <<pending, live, taken, cleared, resolving>> /\ m \notin Queued
  BY DEF Enqueue, NewMessage, MailInv, Waiting, attaching
<1>2. /\ Append(tui, m) \in Seq(Messages) /\ ToSet(Append(tui, m)) = ToSet(tui) \cup {m}
      /\ IsInjective(Append(tui, m))
  BY <1>1, Appended DEF MailInv, Apart, Tidy, Queued
<1>3. Apart(tui, live, pending)'
  BY <1>1, <1>2 DEF MailInv, Apart, Tidy, Queued
<1>4. Queued' = Queued \cup {m}
  BY <1>1, <1>2 DEF Queued
<1> QED
  BY <1>1, <1>3, <1>4, Entered

\* A queue is cut in two.
LEMMA Splits ==
  ASSUME NEW s, Tidy(s), NEW n \in 1 .. Len(s)
  PROVE  /\ Tidy(SubSeq(s, 1, n)) /\ Tidy(SubSeq(s, n + 1, Len(s)))
         /\ ToSet(SubSeq(s, 1, n)) \cap ToSet(SubSeq(s, n + 1, Len(s))) = {}
         /\ ToSet(s) = ToSet(SubSeq(s, 1, n)) \cup ToSet(SubSeq(s, n + 1, Len(s)))
<1> DEFINE l == Len(s)
           a == SubSeq(s, 1, n)
           b == SubSeq(s, n + 1, Len(s))
<1>1. l \in Nat /\ DOMAIN s = 1 .. l /\ \A i \in 1 .. l : s[i] \in Messages
  BY LenProperties DEF Tidy
<1>2. a \in Seq(Messages) /\ Len(a) = n /\ \A i \in 1 .. n : a[i] = s[i]
  <2>1. 1 \in Int /\ n \in Int /\ \A i \in 1 .. n : s[i] \in Messages
    BY <1>1
  <2>2. /\ a \in Seq(Messages) /\ Len(a) = (IF 1 <= n THEN n - 1 + 1 ELSE 0)
        /\ \A i \in 1 .. n - 1 + 1 : a[i] = s[1 + i - 1]
    BY <2>1, SubSeqProperties
  <2>3. n - 1 + 1 = n /\ \A i \in 1 .. n : 1 + i - 1 = i
    BY <1>1
  <2> HIDE DEF a, l
  <2> QED
    BY <1>1, <2>2, <2>3
<1>3. b \in Seq(Messages) /\ Len(b) = l - n /\ \A i \in 1 .. l - n : b[i] = s[n + i]
  <2>1. n + 1 \in Int /\ Len(s) \in Int /\ \A i \in n + 1 .. Len(s) : s[i] \in Messages
    BY <1>1
  <2>2. /\ b \in Seq(Messages) /\ Len(b) = (IF n + 1 <= Len(s) THEN Len(s) - (n + 1) + 1 ELSE 0)
        /\ \A i \in 1 .. Len(s) - (n + 1) + 1 : b[i] = s[(n + 1) + i - 1]
    BY <2>1, SubSeqProperties
  <2>3. l = Len(s)
    OBVIOUS
  <2> HIDE DEF b, l
  <2>4. Len(b) = l - n /\ l - (n + 1) + 1 = l - n
    <3>1. Len(b) = (IF n + 1 <= l THEN l - (n + 1) + 1 ELSE 0)
      BY <2>2, <2>3
    <3>2. n \in 1 .. l /\ l \in Nat
      BY <1>1, <2>3
    <3> QED
      BY <3>1, <3>2
  <2>5. \A i \in 1 .. l - n : (n + 1) + i - 1 = n + i
    BY <1>1
  <2> QED
    BY <2>2, <2>3, <2>4, <2>5
<1>4. DOMAIN a = 1 .. n /\ DOMAIN b = 1 .. l - n
  BY <1>2, <1>3, LenProperties
<1>5. \A i, j \in 1 .. l : s[i] = s[j] => i = j
  BY <1>1 DEF Tidy, IsInjective
<1> HIDE DEF a, b, l
<1>6. n \in 1 .. l
  BY DEF l
<1>7. \A i \in 1 .. n : i \in 1 .. l
  BY <1>1, <1>6
<1>8. \A i \in 1 .. l - n : n + i \in 1 .. l /\ n + i > n
  BY <1>1, <1>6
<1>9. \A i \in 1 .. l : i > n => i - n \in 1 .. l - n /\ n + (i - n) = i
  BY <1>1, <1>6
<1>10. IsInjective(a)
  BY <1>2, <1>4, <1>5, <1>7 DEF IsInjective
<1>11. IsInjective(b)
  <2> SUFFICES ASSUME NEW i \in 1 .. l - n, NEW j \in 1 .. l - n, b[i] = b[j] PROVE i = j
    BY <1>4 DEF IsInjective
  <2>1. n + i = n + j
    BY <1>3, <1>5, <1>8
  <2> QED
    BY <1>1, <1>6, <2>1
<1>12. /\ ToSet(a) = {s[i] : i \in 1 .. n} /\ ToSet(b) = {s[n + i] : i \in 1 .. l - n}
       /\ ToSet(s) = {s[i] : i \in 1 .. l}
  <2>1. ToSet(a) = {a[i] : i \in 1 .. n} /\ ToSet(b) = {b[i] : i \in 1 .. l - n}
        /\ ToSet(s) = {s[i] : i \in 1 .. l}
    BY <1>1, <1>4 DEF ToSet
  <2>2. {a[i] : i \in 1 .. n} = {s[i] : i \in 1 .. n}
    BY <1>2
  <2>3. {b[i] : i \in 1 .. l - n} = {s[n + i] : i \in 1 .. l - n}
    BY <1>3
  <2> QED
    BY <2>1, <2>2, <2>3
<1>13. ToSet(a) \cap ToSet(b) = {}
  <2> SUFFICES ASSUME NEW i \in 1 .. n, NEW j \in 1 .. l - n, s[i] = s[n + j] PROVE FALSE
    BY <1>12
  <2>1. i = n + j
    BY <1>5, <1>7, <1>8
  <2> QED
    BY <1>6, <1>8, <2>1
<1>14. ToSet(s) = ToSet(a) \cup ToSet(b)
  <2>1. ASSUME NEW i \in 1 .. l PROVE s[i] \in ToSet(a) \cup ToSet(b)
    <3>1. CASE i <= n
      <4>1. i \in 1 .. n
        BY <1>6, <3>1
      <4> QED
        BY <1>12, <4>1
    <3>2. CASE i > n
      <4>1. i - n \in 1 .. l - n /\ s[i] = s[n + (i - n)]
        BY <1>9, <3>2
      <4> QED
        BY <1>12, <4>1
    <3> QED
      BY <1>1, <1>6, <3>1, <3>2
  <2>2. ToSet(a) \cup ToSet(b) \subseteq ToSet(s)
    BY <1>7, <1>8, <1>12
  <2> QED
    BY <1>12, <2>1, <2>2
<1> QED
  BY <1>2, <1>3, <1>10, <1>11, <1>13, <1>14 DEF Tidy, a, b, l

\* The plain lines at the front of the terminal's queue go into the turn.
LEMMA Feeds ==
  ASSUME MailInv, FeedTurn
  PROVE  MailGood
<1>1. UNCHANGED <<pending, sent, taken, cleared, resolving>>
  BY DEF FeedTurn, attaching
<1>2. PICK n \in 1 .. Len(tui) : live' = live \o SubSeq(tui, 1, n) /\ tui' = SubSeq(tui, n + 1, Len(tui))
  BY DEF FeedTurn
<1> DEFINE front == SubSeq(tui, 1, n)
           back == SubSeq(tui, n + 1, Len(tui))
<1>3. /\ Tidy(front) /\ Tidy(back) /\ ToSet(front) \cap ToSet(back) = {}
      /\ ToSet(tui) = ToSet(front) \cup ToSet(back)
  BY Splits DEF MailInv, Apart
<1>4. live' = live \o front /\ tui' = back
  BY <1>2
<1> HIDE DEF front, back
<1>5. Tidy(live \o front) /\ ToSet(live \o front) = ToSet(live) \cup ToSet(front)
  <2>1. ToSet(live) \cap ToSet(front) = {}
    BY <1>3 DEF MailInv, Apart
  <2> QED
    BY <1>3, <2>1, Joined DEF MailInv, Apart, Tidy
<1>6. Apart(tui, live, pending)'
  BY <1>1, <1>3, <1>4, <1>5 DEF MailInv, Apart
<1>7. Queued' = Queued
  BY <1>1, <1>3, <1>4, <1>5 DEF Queued
<1> QED
  BY <1>1, <1>6, <1>7, Moved

\* What is handed back goes to the front of the terminal's queue, the rest stays.
LEMMA HandsBack ==
  ASSUME MailInv, TakeOrphans
  PROVE  MailGood
<1> DEFINE back == Filtered(pending, returnable)
           rest == Filtered(pending, Messages \ returnable)
<1>1. /\ tui' = back \o tui /\ pending' = rest /\ UNCHANGED <<live, sent, taken, cleared, resolving>>
  BY DEF TakeOrphans, StillPending, attaching
<1>2. Tidy(pending) /\ Tidy(tui) /\ ToSet(pending) \subseteq Messages
  BY QueuedAreMessages DEF MailInv, Apart
<1>3. Tidy(back) /\ ToSet(back) = ToSet(pending) \cap returnable
  BY <1>2, FilteredMembers DEF Tidy
<1>4. Tidy(rest) /\ ToSet(rest) = ToSet(pending) \ returnable
  BY <1>2, FilteredMembers DEF Tidy
<1> HIDE DEF back, rest
<1>5. Tidy(back \o tui) /\ ToSet(back \o tui) = ToSet(back) \cup ToSet(tui)
  <2>1. ToSet(back) \cap ToSet(tui) = {}
    BY <1>3 DEF MailInv, Apart
  <2> QED
    BY <1>2, <1>3, <2>1, Joined DEF Tidy
<1>6. Apart(tui, live, pending)'
  BY <1>1, <1>3, <1>4, <1>5 DEF MailInv, Apart, Tidy
<1>7. Queued' = Queued
  BY <1>1, <1>3, <1>4, <1>5 DEF Queued
<1> QED
  BY <1>1, <1>6, <1>7, Moved

\* The owner stops the turn.
LEMMA Demotes ==
  ASSUME MailInv, Demote
  PROVE  MailGood
<1>1. /\ pending' = Deferred /\ live' = <<>> /\ tui' = <<>> /\ cleared' = cleared \cup ToSet(tui)
      /\ UNCHANGED <<sent, taken, resolving>>
  BY DEF Demote, attaching
<1>2. /\ Deferred \in Seq(Messages) /\ ToSet(Deferred) = ToSet(pending) \cup ToSet(live)
      /\ IsInjective(Deferred)
  BY Joined DEF MailInv, Apart, Tidy, Deferred
<1>3. Apart(tui, live, pending)'
  BY <1>1, <1>2, NothingQueued DEF MailInv, Apart, Tidy
<1>4. Queued' = Queued \ ToSet(tui)
  BY <1>1, <1>2, NothingQueued DEF MailInv, Apart, Queued
<1>5. ToSet(tui) \in SUBSET Messages /\ ToSet(tui) \subseteq Queued
  BY QueuedAreMessages DEF MailInv, Apart, Queued
<1> QED
  BY <1>1, <1>3, <1>4, <1>5, Cleared

LEMMA RunMail ==
  ASSUME MailInv, NEW x \in Slots, RunStep(x)
  PROVE  MailGood
<1>1. CASE TopOfIteration(x) \/ BetweenTools(x)
  BY <1>1, Drains DEF TopOfIteration, BetweenTools, attaching
<1>2. ASSUME Settle PROVE MailGood
  BY <1>2, Deferring DEF Settle, attaching
<1>3. CASE RunEnds(x)
  <2>1. CASE HitsLimit(x)
    BY <1>2, <2>1, Untouched DEF HitsLimit
  <2>2. CASE BacksOff(x)
    BY <2>2, Untouched DEF BacksOff
  <2> QED
    BY <1>2, <1>3, <2>1, <2>2 DEF RunEnds, Finishes, Cut, Fails, TriesAgain, BackoffCut
<1>4. CASE Pump(x)
  BY <1>4, Deferring DEF Pump, attaching
<1>5. CASE LeaveFanout(x)
  BY <1>5, Untouched DEF LeaveFanout
<1>6. ASSUME NEW f \in Fanouts, Dispatch(x, f) \/ Spawn(x, f) PROVE MailGood
  BY <1>6, Untouched DEF Dispatch, Spawn
<1> QED
  BY <1>1, <1>3, <1>4, <1>5, <1>6 DEF RunStep

LEMMA OwnerMail ==
  ASSUME MailInv, OwnerStep
  PROVE  MailGood
<1>1. ASSUME NEW m \in Composer, TypeAtRest(m) PROVE MailGood
  BY <1>1, Asks, SubmitsNew DEF TypeAtRest, SubmitLine, attaching, Messages
<1>2. ASSUME NEW m \in Composer, TypeIntoTurn(m) PROVE MailGood
  BY <1>2, Injects DEF TypeIntoTurn, Messages
<1>3. ASSUME NEW m \in Composer, TypeAhead(m) PROVE MailGood
  BY <1>3, Enqueues DEF TypeAhead, Messages
<1>4. ASSUME NEW m \in Composer, TypeToNobody(m) PROVE MailGood
  <2>1. UNCHANGED <<live, pending, tui, taken, cleared, resolving>> /\ sent \subseteq sent'
    BY <1>4 DEF TypeToNobody, NewMessage, attaching
  <2> QED
    BY <2>1, Moved DEF MailInv, Queued
<1>5. ASSUME NEW m \in Connector, Receive(m) PROVE MailGood
  BY <1>5, Injects, SubmitsNew DEF Receive, Messages
<1>6. CASE Interrupt \/ CancelAll
  BY <1>6, Demotes DEF Interrupt, CancelAll
<1>7. CASE Retry \/ Dismiss \/ Continue
  BY <1>7, Untouched DEF Retry, Dismiss, Continue
<1> QED
  BY <1>1, <1>2, <1>3, <1>4, <1>5, <1>6, <1>7 DEF OwnerStep

LEMMA NextMail == MailInv /\ [Next]_vars => MailGood
<1> SUFFICES ASSUME MailInv, [Next]_vars PROVE MailGood
  OBVIOUS
<1>1. CASE UNCHANGED vars
  BY <1>1, Untouched DEF vars
<1>2. CASE MaybeWake
  BY <1>2, Untouched DEF MaybeWake
<1>3. ASSUME NEW f \in Fanouts, Report(f) \/ Leave(f) \/ FanEnds(f) PROVE MailGood
  BY <1>3, Untouched DEF Report, Leave, FanEnds
<1>4. ASSUME NEW e \in Monitors, Fire(e) PROVE MailGood
  BY <1>4, Untouched DEF Fire
<1>5. CASE TerminalStep
  BY <1>5, AsksHead, SubmitsHead, SubmitsResolved, GoesBack, Feeds, HandsBack DEF TerminalStep
<1> QED
  BY <1>1, <1>2, <1>3, <1>4, <1>5, RunMail, OwnerMail DEF Next, Handler

LEMMA InitMail == Init => MailInv /\ Box!Init
BY NothingQueued DEF Init, MailInv, Apart, Tidy, Queued, Waiting, Box!Init

-----------------------------------------------------------------------------
(* The theorems *)

\* The runs at once are one, and one more for each message submitted while a turn was at work.  A line
\* with mentions that resolves late and a connector's message after a stop are the only ways to start
\* a turn that do not look at the phase, whatever the order of wake-ups, queued lines and keys.
THEOREM OneTurnHolds == Spec => []OneTurn
<1>1. TurnsInv => OneTurn
  BY DEF TurnsInv
<1> QED
  BY <1>1, InitTurns, NextTurns, PTL DEF Spec

\* A working phase has a run; behind one that rests there are no runs but those that messages
\* submitted over a turn have added.
THEOREM PhaseAgreesHolds == Spec => []PhaseAgrees
<1>1. TurnsInv => PhaseAgrees
  BY DEF TurnsInv
<1> QED
  BY <1>1, InitTurns, NextTurns, PTL DEF Spec

\* A run that the owner stopped makes no further attempt, as long as no message has been submitted
\* over a turn.
THEOREM NoAttemptAfterStopHolds == Spec => NoAttemptAfterStop
BY InitUncrossed, NextUncrossed, PTL DEF Spec, NoAttemptAfterStop

\* A result that a turn drained is in the conversation, in the seed of the next turn or in what
\* the next attempt is given: unless [c] has been used or a message submitted over a turn, no way out
\* of a turn loses it.
THEOREM ResultsKeptHolds == Spec => ResultsKept
BY InitUncrossed, NextUncrossed, PTL DEF Spec, ResultsKept

\* The three queues of the session and the hand-overs between them keep what Mailbox promises,
\* for any number of messages, whoever sends them: what has been taken or cleared never waits again.
THEOREM MailboxImplemented == Spec => MailboxSpec
<1>1. MailInv /\ [Next]_vars => MailInv' /\ [Box!Next]_(Box!vars)
  BY NextMail DEF MailGood
<1> QED
  BY <1>1, InitMail, PTL DEF Spec, MailboxSpec, Box!Spec

\* As many messages wait as the queues are long.
LEMMA Length ==
  ASSUME NEW s, Tidy(s)
  PROVE  Len(s) \in Nat /\ IsFiniteSet(ToSet(s)) /\ Cardinality(ToSet(s)) = Len(s)
<1>1. Len(s) \in Nat /\ DOMAIN s = 1..Len(s) /\ s \in [1..Len(s) -> Messages]
  BY LenProperties DEF Tidy
<1>2. s \in Bijection(1..Len(s), ToSet(s))
  BY <1>1 DEF Tidy, ToSet, Bijection, Injection, Surjection, IsInjective
<1>3. IsFiniteSet(1..Len(s)) /\ Cardinality(1..Len(s)) = Len(s)
  BY <1>1, FS_Interval
<1> QED
  BY <1>1, <1>2, <1>3, FS_Bijection DEF ExistsBijection

LEMMA SizeOfUnion ==
  ASSUME NEW S, NEW T, IsFiniteSet(S), IsFiniteSet(T), S \cap T = {}
  PROVE  IsFiniteSet(S \cup T) /\ Cardinality(S \cup T) = Cardinality(S) + Cardinality(T)
<1>1. IsFiniteSet(S \cup T)
      /\ Cardinality(S \cup T) = Cardinality(S) + Cardinality(T) - Cardinality(S \cap T)
  BY FS_Union
<1>2. Cardinality(S \cap T) = 0
  BY FS_EmptySet
<1>3. Cardinality(S) \in Nat /\ Cardinality(T) \in Nat
  BY FS_CardinalityType
<1> QED
  BY <1>1, <1>2, <1>3

\* A message of the owner waits in one queue, once, and never after a turn has taken it.
THEOREM OneHomeHolds == Spec => []OneHome
<1>1. MailInv => OneHome
  <2> SUFFICES ASSUME MailInv PROVE OneHome
    OBVIOUS
  <2>1. /\ IsFiniteSet(ToSet(tui)) /\ Cardinality(ToSet(tui)) = Len(tui) /\ Len(tui) \in Nat
        /\ IsFiniteSet(ToSet(live)) /\ Cardinality(ToSet(live)) = Len(live) /\ Len(live) \in Nat
        /\ IsFiniteSet(ToSet(pending)) /\ Cardinality(ToSet(pending)) = Len(pending) /\ Len(pending) \in Nat
    BY Length DEF MailInv, Apart
  <2>2. /\ ToSet(tui) \cap ToSet(live) = {} /\ (ToSet(tui) \cup ToSet(live)) \cap ToSet(pending) = {}
    BY DEF MailInv, Apart
  <2> DEFINE A == ToSet(tui)
             B == ToSet(live)
             C == ToSet(pending)
  <2>3. Queued = (A \cup B) \cup C
    BY DEF Queued
  <2> HIDE DEF A, B, C
  <2>5. IsFiniteSet(A \cup B) /\ Cardinality(A \cup B) = Cardinality(A) + Cardinality(B)
    BY <2>1, <2>2, SizeOfUnion DEF A, B
  <2>6. Cardinality((A \cup B) \cup C) = Cardinality(A \cup B) + Cardinality(C)
    <3>1. (A \cup B) \cap C = {} /\ IsFiniteSet(C)
      BY <2>1, <2>2 DEF A, B, C
    <3> QED
      BY <2>5, <3>1, SizeOfUnion
  <2>7. Cardinality(A) = Len(tui) /\ Cardinality(B) = Len(live) /\ Cardinality(C) = Len(pending)
    BY <2>1 DEF A, B, C
  <2>4. Cardinality(Queued) = Len(tui) + Len(live) + Len(pending)
    BY <2>3, <2>5, <2>6, <2>7
  <2> QED
    BY <2>4 DEF OneHome, MailInv
<1>2. MailInv /\ [Next]_vars => MailInv'
  BY NextMail DEF MailGood
<1> QED
  BY <1>1, <1>2, InitMail, PTL DEF Spec

-----------------------------------------------------------------------------
(* The types *)

\* A run has its type; while it backs off it has an attempt left, and it waits for a fan-out.
Fit(r) ==
  /\ r \in RunType
  /\ r.at = "backoff" => r.attempt < MaxAttempts
  /\ r.at = "fanout" => r.fan \in Fanouts

RunsFit == DOMAIN run = Slots /\ run \in [Slots -> RunType] /\ \A x \in Slots : Fit(run[x])

FanTypes == [at : {"new", "attached", "detached", "reporting", "leaving", "over"}, tree : {NoTree} \cup Trees]

FansFit == fan \in [Fanouts -> FanTypes] /\ detached \in SUBSET Trees

ControlTyped ==
  /\ phase \in Rest \cup Working \cup {"budget", "error"}
  /\ tree \in {NoTree} \cup Trees /\ root \in {"none", "live", "ended", "stopped"}
  /\ brake \in Slots \cup {None} /\ hardStopped \in BOOLEAN

\* A turn under way, or one to be resumed, has a tree.
TreeGiven == Active # {} \/ resumable # {} => tree \in Trees

HeldTyped ==
  /\ conv \in SUBSET Items /\ last \in SUBSET Items /\ resumable \in SUBSET Items
  /\ seed \in SUBSET Items /\ transit \in SUBSET Fanouts

QueueTypes == [result : Fanouts \cup {None}, completed : Fanouts \cup {None},
               others : SUBSET (Monitors \cup {Hint})]

EventsTyped ==
  /\ queue \in QueueTypes
  /\ waking \in BOOLEAN /\ flag \in BOOLEAN /\ due \in {"no", "once", "twice"}

MailTyped ==
  /\ live \in Seq(Messages) /\ pending \in Seq(Messages) /\ tui \in Seq(Messages)
  /\ returnable \in SUBSET Messages /\ orphans \in BOOLEAN
  /\ resolving \in SUBSET Mentions /\ acked \in Mentions \cup {None} /\ crossed \in Nat
  /\ sent \in SUBSET Messages /\ taken \in SUBSET Messages /\ cleared \in SUBSET Messages

CountTyped ==
  count \in [retries : 0 .. MaxRetries, dismissals : 0 .. MaxDismissals, continues : 0 .. MaxContinues,
             stops : 0 .. MaxStops, fired : SUBSET Monitors]

TypeInv ==
  /\ RunsFit /\ FansFit /\ ControlTyped /\ TreeGiven /\ HeldTyped /\ EventsTyped /\ MailTyped
  /\ CountTyped

LEMMA TypeInvTypes == TypeInv => TypeOK
BY DEF TypeInv, TypeOK, RunsFit, FansFit, FanTypes, ControlTyped, HeldTyped, EventsTyped, QueueTypes,
       MailTyped, CountTyped

LEMMA NothingTyped == <<>> \in Seq(Messages)
OBVIOUS

LEMMA InitTypes == Init => TypeInv
<1> SUFFICES ASSUME Init PROVE TypeInv
  OBVIOUS
<1>1. Fit(NoRun)
  BY BoundsAssumption DEF Fit, NoRun, RunType
<1>2. RunsFit /\ Active = {}
  BY <1>1 DEF Init, RunsFit, Fit, Active, NoRun
<1>3. FansFit
  BY DEF Init, FansFit, FanTypes
<1>4. NoEvents \in QueueTypes
  BY DEF NoEvents, QueueTypes
<1>5. EventsTyped /\ ControlTyped /\ TreeGiven
  BY <1>2, <1>4 DEF Init, EventsTyped, ControlTyped, TreeGiven, Rest
<1>6. MailTyped /\ HeldTyped
  BY NothingTyped DEF Init, MailTyped, HeldTyped
<1>7. CountTyped
  BY BoundsAssumption DEF Init, CountTyped
<1> QED
  BY <1>2, <1>3, <1>5, <1>6, <1>7 DEF TypeInv

-----------------------------------------------------------------------------
(* What the building blocks of the steps do to the types *)

LEMMA Refits ==
  ASSUME RunsFit, NEW x \in Slots, NEW r, Fit(r), run' = [run EXCEPT ![x] = r]
  PROVE  RunsFit' /\ Active' \subseteq Active \cup {x}
BY DEF RunsFit, Active, Fit

LEMMA OffFits ==
  ASSUME RunsFit, NEW x \in Slots, run' = [run EXCEPT ![x] = NoRun]
  PROVE  RunsFit' /\ Active' \subseteq Active
<1>1. Fit(NoRun)
  BY BoundsAssumption DEF Fit, NoRun, RunType
<1> QED
  BY <1>1, Refits DEF Active, RunsFit, NoRun

LEMMA BeginFits ==
  ASSUME RunsFit, NEW x \in Slots, NEW kind \in {"turn", "wake", "resume"}, NEW items \in SUBSET Items,
         conv \in SUBSET Items, NEW attempt \in 1 .. MaxAttempts, Begin(x, kind, items, attempt)
  PROVE  /\ RunsFit' /\ tree' \in Trees /\ phase' = "busy" /\ root' = "live" /\ hardStopped' = FALSE
         /\ run'[x].at = "loop"
<1>1. PICK t \in Trees :
        /\ run' = [run EXCEPT ![x] = [NoRun EXCEPT !.at = "loop", !.kind = kind, !.given = items,
                                                   !.heard = conv \cup items, !.attempt = attempt, !.tree = t]]
        /\ tree' = t
  BY DEF Begin
<1> DEFINE r == [NoRun EXCEPT !.at = "loop", !.kind = kind, !.given = items,
                              !.heard = conv \cup items, !.attempt = attempt, !.tree = t]
<1>2. NoRun \in RunType
  BY BoundsAssumption DEF NoRun, RunType
<1>3. Fit(r) /\ r.at = "loop"
  <2>1. r.at = "loop"
    BY DEF NoRun
  <2>2. conv \cup items \in SUBSET Items /\ t \in {NoTree} \cup Trees
    OBVIOUS
  <2>3. r \in RunType
    BY <1>2, <2>2 DEF RunType
  <2> QED
    BY <2>1, <2>3 DEF Fit
<1>4. run' = [run EXCEPT ![x] = r]
  BY <1>1
<1> HIDE DEF r
<1>5. RunsFit' /\ run'[x] = r
  BY <1>3, <1>4, Refits DEF RunsFit
<1> QED
  BY <1>1, <1>3, <1>5 DEF Begin

\* What the events are: results of fan-outs, and the rest.
LEMMA EventItems ==
  ASSUME EventsTyped
  PROVE  Events(queue) \in SUBSET Items /\ Results(queue) \in SUBSET Fanouts
BY DEF EventsTyped, QueueTypes, Events, Results, Items

LEMMA QueuedItems ==
  ASSUME NEW s \in Seq(Messages)
  PROVE  ToSet(s) \in SUBSET Messages
BY LenProperties DEF ToSet

\* Only the mail is touched.
LEMMA SettleTypes ==
  ASSUME MailTyped, Settle
  PROVE  MailTyped'
<1>1. Deferred \in Seq(Messages)
  BY Joined DEF MailTyped, Deferred
<1> QED
  BY <1>1, NothingTyped DEF Settle, MailTyped, attaching, Published

\* A run is over.
LEMMA OverTypes ==
  ASSUME TypeInv, NEW x \in Slots, NEW p \in Rest \cup {"budget", "error"}, Over(x, p)
  PROVE  /\ RunsFit' /\ FansFit' /\ ControlTyped' /\ CountTyped' /\ (queue' = queue => EventsTyped')
         /\ Active' \subseteq Active /\ tree' = tree /\ last' = last
<1>1. RunsFit' /\ Active' \subseteq Active
  BY OffFits DEF Over, TypeInv
<1>2. FansFit'
  BY DEF Over, fans, TypeInv, FansFit
<1>3. ControlTyped'
  BY DEF Over, fans, TypeInv, ControlTyped
<1>4. CountTyped'
  BY DEF Over, TypeInv, CountTyped
<1>5. queue' = queue => EventsTyped'
  BY DEF Over, TypeInv, EventsTyped, DueAfter
<1> QED
  BY <1>1, <1>2, <1>3, <1>4, <1>5 DEF Over

-----------------------------------------------------------------------------
(* The types are kept by every step *)

\* A turn that begins with items.
LEMMA BeginTypes ==
  ASSUME TypeInv, NEW x \in Slots, NEW kind \in {"turn", "wake", "resume"}, NEW items \in SUBSET Items,
         NEW attempt \in 1 .. MaxAttempts, Begin(x, kind, items, attempt),
         UNCHANGED <<fan, detached>>, brake' \in Slots \cup {None}
  PROVE  RunsFit' /\ TreeGiven' /\ FansFit' /\ ControlTyped'
<1>1. /\ RunsFit' /\ tree' \in Trees /\ phase' = "busy" /\ root' = "live" /\ hardStopped' = FALSE
  BY BeginFits DEF TypeInv, HeldTyped
<1>2. TreeGiven' /\ ControlTyped'
  BY <1>1 DEF TreeGiven, ControlTyped, Working
<1>3. FansFit'
  BY DEF TypeInv, FansFit
<1> QED
  BY <1>1, <1>2, <1>3

\* Only the mail changes.
LEMMA AsideTypes ==
  ASSUME TypeInv, MailTyped', UNCHANGED <<control, data, wakes, fans, count>>
  PROVE  TypeInv'
BY DEF TypeInv, RunsFit, Fit, TreeGiven, Active, ControlTyped, FansFit, HeldTyped, EventsTyped, CountTyped,
       control, data, wakes, fans

LEMMA SubmitTypes ==
  ASSUME TypeInv, NEW m \in Messages, Submit(m), tui' \in Seq(Messages), sent' \in SUBSET Messages,
         resolving' \in SUBSET Mentions, acked' \in Mentions \cup {None}, crossed' \in Nat
  PROVE  TypeInv'
<1> DEFINE items == seed \cup ToSet(pending) \cup {m}
<1>1. ToSet(pending) \in SUBSET Messages
  BY QueuedItems DEF TypeInv, MailTyped
<1>2. items \in SUBSET Items
  BY <1>1 DEF TypeInv, HeldTyped, Items
<1>3. IdleSlot \in Slots /\ 1 \in 1 .. MaxAttempts
  BY IdleSlotIsIdle, BoundsAssumption DEF Submit
<1>4. /\ Begin(IdleSlot, "turn", items, 1) /\ last' = items /\ seed' = {} /\ pending' = <<>>
      /\ taken' = taken \cup ToSet(pending) \cup {m}
      /\ returnable' = IF pending = <<>> THEN returnable ELSE {}
      /\ UNCHANGED <<brake, conv, resumable, live, orphans, cleared, queue, transit, wakes, fan, detached, count>>
  BY DEF Submit
<1> HIDE DEF items
<1>5. RunsFit' /\ TreeGiven' /\ FansFit' /\ ControlTyped'
  BY <1>2, <1>3, <1>4, BeginTypes DEF TypeInv, ControlTyped
<1>6. HeldTyped'
  BY <1>2, <1>4 DEF TypeInv, HeldTyped
<1>7. EventsTyped' /\ CountTyped'
  BY <1>4 DEF TypeInv, EventsTyped, CountTyped, wakes
<1>8. MailTyped'
  BY <1>1, <1>4, NothingTyped DEF TypeInv, MailTyped
<1> QED
  BY <1>5, <1>6, <1>7, <1>8 DEF TypeInv

\* A run that goes on, with what concerns it alone.
LEMMA RunGoesOn ==
  ASSUME TypeInv, NEW x \in Active, NEW r, Fit(r), run' = [run EXCEPT ![x] = r],
         UNCHANGED <<tree, resumable>>
  PROVE  RunsFit' /\ TreeGiven'
<1>1. x \in Slots /\ RunsFit' /\ Active' \subseteq Active
  BY Refits DEF TypeInv, Active
<1> QED
  BY <1>1 DEF TypeInv, TreeGiven

\* The run in a slot, with its record's fields.
LEMMA SlotFits ==
  ASSUME TypeInv, NEW x \in Slots
  PROVE  Fit(run[x]) /\ run[x] \in RunType /\ (run[x].at # "off" => x \in Active)
BY DEF TypeInv, RunsFit, Fit, Active

LEMMA DrainTypes ==
  ASSUME TypeInv, NEW x \in Slots, TopOfIteration(x) \/ BetweenTools(x)
  PROVE  TypeInv'
<1>1. ToSet(live) \in SUBSET Messages /\ Events(queue) \in SUBSET Items /\ Results(queue) \in SUBSET Fanouts
  BY QueuedItems, EventItems DEF TypeInv, MailTyped
<1>3. run[x].at = "loop" /\ x \in Active /\ run[x] \in RunType
  BY SlotFits DEF TopOfIteration, BetweenTools
<1>2. PICK h \in SUBSET Items : run' = [run EXCEPT ![x].heard = h]
  <2>1. run[x].heard \cup ToSet(live) \in SUBSET Items
    BY <1>1, <1>3 DEF RunType, Items
  <2>2. run[x].heard \cup ToSet(live) \cup Events(queue) \in SUBSET Items
    BY <1>1, <2>1
  <2>3. CASE TopOfIteration(x)
    BY <2>2, <2>3 DEF TopOfIteration
  <2>4. CASE BetweenTools(x)
    BY <2>1, <2>4 DEF BetweenTools
  <2> QED
    BY <2>3, <2>4
<1> DEFINE r == [run[x] EXCEPT !.heard = h]
<1>4. r \in RunType /\ r.at = "loop"
  BY <1>2, <1>3 DEF RunType
<1>5. Fit(r) /\ run' = [run EXCEPT ![x] = r]
  BY <1>2, <1>4 DEF Fit
<1> HIDE DEF r
<1>6. RunsFit' /\ TreeGiven'
  <2>1. UNCHANGED <<tree, resumable>>
    BY DEF TopOfIteration, BetweenTools
  <2> QED
    BY <1>3, <1>5, <2>1, RunGoesOn
<1>7. FansFit' /\ ControlTyped' /\ CountTyped'
  BY DEF TopOfIteration, BetweenTools, TypeInv, FansFit, ControlTyped, CountTyped, fans
<1>8. HeldTyped'
  BY <1>1 DEF TopOfIteration, BetweenTools, TypeInv, HeldTyped, data
<1>9. EventsTyped'
  <2>1. NoEvents \in QueueTypes
    BY DEF NoEvents, QueueTypes
  <2> QED
    BY <2>1 DEF TopOfIteration, BetweenTools, TypeInv, EventsTyped, data, wakes
<1>10. MailTyped'
  BY <1>1, NothingTyped DEF TopOfIteration, BetweenTools, TypeInv, MailTyped, attaching
<1> QED
  BY <1>6, <1>7, <1>8, <1>9, <1>10 DEF TypeInv

\* The ways a run ends.
LEMMA EndTypes ==
  ASSUME TypeInv, NEW x \in Slots,
         Finishes(x) \/ HitsLimit(x) \/ Cut(x) \/ Fails(x) \/ BackoffCut(x)
  PROVE  TypeInv'
<1>1. PICK p \in Rest \cup {"budget", "error"} : Over(x, p)
  BY DEF Finishes, HitsLimit, Cut, Fails, BackoffCut, Rest
<1>2. /\ RunsFit' /\ FansFit' /\ ControlTyped' /\ CountTyped' /\ (queue' = queue => EventsTyped')
      /\ Active' \subseteq Active /\ tree' = tree /\ last' = last
  BY <1>1, OverTypes
<1>3. run[x].at # "off"
  BY DEF Finishes, HitsLimit, Cut, Fails, BackoffCut
<1>4. x \in Active /\ run[x].heard \in SUBSET Items
  BY <1>3, SlotFits DEF RunType
<1>5. queue' = queue
  BY DEF Finishes, HitsLimit, Cut, Fails, BackoffCut
<1>6. TreeGiven'
  BY <1>2, <1>4 DEF TypeInv, TreeGiven
<1>7. HeldTyped'
  <2>1. conv' \in SUBSET Items /\ resumable' \in SUBSET Items
    BY <1>4 DEF Finishes, HitsLimit, Cut, Fails, BackoffCut, TypeInv, HeldTyped
  <2>2. seed' \in SUBSET Items /\ transit' \in SUBSET Fanouts
    BY DEF Finishes, HitsLimit, Cut, Fails, BackoffCut, GiveBack, GivenBack, TypeInv, HeldTyped, Items
  <2> QED
    BY <1>2, <2>1, <2>2 DEF TypeInv, HeldTyped
<1>8. MailTyped'
  <2>1. CASE Settle
    BY <2>1, SettleTypes DEF TypeInv
  <2>2. CASE UNCHANGED mail
    BY <2>2 DEF TypeInv, MailTyped, attaching, mail
  <2> QED
    BY <2>1, <2>2 DEF Finishes, HitsLimit, Cut, Fails, BackoffCut
<1> QED
  BY <1>2, <1>5, <1>6, <1>7, <1>8 DEF TypeInv

\* A transient error: another attempt, after a while.
LEMMA AttemptTypes ==
  ASSUME TypeInv, NEW x \in Slots, BacksOff(x) \/ TriesAgain(x)
  PROVE  TypeInv'
<1>1. run[x] \in RunType /\ run[x].at # "off" /\ x \in Active /\ Fit(run[x])
  BY SlotFits DEF BacksOff, TriesAgain
<1>2. CASE BacksOff(x)
  <2> DEFINE r == [run[x] EXCEPT !.at = "backoff"]
  <2>1. r \in RunType /\ r.at = "backoff" /\ r.attempt = run[x].attempt
    BY <1>1 DEF RunType
  <2>2. Fit(r) /\ run' = [run EXCEPT ![x] = r]
    BY <1>2, <2>1 DEF Fit, BacksOff, MayRetry
  <2> HIDE DEF r
  <2>3. RunsFit' /\ TreeGiven'
    <3>1. UNCHANGED <<tree, resumable>>
      BY <1>2 DEF BacksOff
    <3> QED
      BY <1>1, <2>2, <3>1, RunGoesOn
  <2>4. FansFit' /\ ControlTyped' /\ CountTyped' /\ HeldTyped' /\ EventsTyped' /\ MailTyped'
    BY <1>2 DEF BacksOff, TypeInv, FansFit, ControlTyped, CountTyped, HeldTyped, EventsTyped, MailTyped, attaching,
                fans, mail, data, wakes, Working
  <2> QED
    BY <2>3, <2>4 DEF TypeInv
<1>3. CASE TriesAgain(x)
  <2> DEFINE items == run[x].given \cup transit
             attempt == run[x].attempt + 1
  <2>1. items \in SUBSET Items /\ run[x].kind \in {"turn", "wake", "resume"}
    BY <1>1 DEF TypeInv, HeldTyped, RunType, Items
  <2>2. attempt \in 1 .. MaxAttempts
    <3>1. run[x].attempt \in 1 .. MaxAttempts /\ run[x].attempt < MaxAttempts
      BY <1>1, <1>3 DEF RunType, Fit, TriesAgain
    <3> QED
      BY <3>1, BoundsAssumption
  <2>3. Begin(x, run[x].kind, items, attempt)
    BY <1>3 DEF TriesAgain
  <2> HIDE DEF items, attempt
  <2>4. RunsFit' /\ TreeGiven' /\ FansFit' /\ ControlTyped'
    BY <1>3, <2>1, <2>2, <2>3, BeginTypes DEF TriesAgain
  <2>5. HeldTyped' /\ EventsTyped' /\ CountTyped'
    BY <1>3 DEF TriesAgain, TypeInv, HeldTyped, EventsTyped, CountTyped, wakes
  <2>6. MailTyped'
    BY <1>3, SettleTypes DEF TriesAgain, TypeInv
  <2> QED
    BY <2>4, <2>5, <2>6 DEF TypeInv
<1> QED
  BY <1>2, <1>3

\* A fan-out that leaves its turn, whose tree it keeps in use.
LEMMA DetachTypes ==
  ASSUME TypeInv, NEW f \in Fanouts, Detach(f), Active # {}
  PROVE  FansFit'
<1>1. tree \in Trees
  BY DEF TypeInv, TreeGiven
<1> QED
  BY <1>1 DEF Detach, TypeInv, FansFit, FanTypes

LEMMA FanoutTypes ==
  ASSUME TypeInv, NEW x \in Slots,
         Pump(x) \/ LeaveFanout(x) \/ \E f \in Fanouts : Dispatch(x, f) \/ Spawn(x, f)
  PROVE  TypeInv'
<1>1. run[x] \in RunType /\ run[x].at # "off" /\ x \in Active /\ Fit(run[x])
  BY SlotFits DEF Pump, LeaveFanout, Dispatch, Spawn
<1>2. CASE Pump(x)
  <2>1. Deferred \in Seq(Messages)
    BY Joined DEF TypeInv, MailTyped, Deferred
  <2>2. MailTyped'
    BY <1>2, <2>1, NothingTyped DEF Pump, TypeInv, MailTyped, attaching
  <2>3. RunsFit' /\ TreeGiven'
    BY <1>2 DEF Pump, control, TypeInv, RunsFit, Fit, TreeGiven, Active
  <2>4. FansFit' /\ ControlTyped' /\ CountTyped' /\ HeldTyped' /\ EventsTyped'
    BY <1>2 DEF Pump, TypeInv, FansFit, ControlTyped, CountTyped, HeldTyped, EventsTyped,
                control, fans, data, wakes
  <2> QED
    BY <2>2, <2>3, <2>4 DEF TypeInv
<1>3. CASE LeaveFanout(x)
  <2> DEFINE r == [run[x] EXCEPT !.at = "loop", !.fan = None]
  <2>1. r \in RunType /\ r.at = "loop"
    BY <1>1 DEF RunType
  <2>2. Fit(r) /\ run' = [run EXCEPT ![x] = r]
    BY <1>3, <2>1 DEF Fit, LeaveFanout
  <2> HIDE DEF r
  <2>3. RunsFit' /\ TreeGiven'
    <3>1. UNCHANGED <<tree, resumable>>
      BY <1>3 DEF LeaveFanout
    <3> QED
      BY <1>1, <2>2, <3>1, RunGoesOn
  <2>4. FansFit'
    BY <1>1, <1>3, DetachTypes DEF LeaveFanout, Fit
  <2>5. ControlTyped' /\ CountTyped' /\ HeldTyped' /\ EventsTyped' /\ MailTyped'
    BY <1>3 DEF LeaveFanout, TypeInv, ControlTyped, CountTyped, HeldTyped, EventsTyped, MailTyped, attaching,
                mail, data, wakes
  <2> QED
    BY <2>3, <2>4, <2>5 DEF TypeInv
<1>4. ASSUME NEW f \in Fanouts, Dispatch(x, f) PROVE TypeInv'
  <2>1. FansFit'
    BY <1>1, <1>4, DetachTypes DEF Dispatch
  <2>2. RunsFit' /\ TreeGiven'
    BY <1>4 DEF Dispatch, control, TypeInv, RunsFit, Fit, TreeGiven, Active
  <2>3. ControlTyped' /\ CountTyped' /\ HeldTyped' /\ EventsTyped' /\ MailTyped'
    BY <1>4 DEF Dispatch, TypeInv, ControlTyped, CountTyped, HeldTyped, EventsTyped, MailTyped, attaching,
                control, mail, data, wakes
  <2> QED
    BY <2>1, <2>2, <2>3 DEF TypeInv
<1>5. ASSUME NEW f \in Fanouts, Spawn(x, f) PROVE TypeInv'
  <2> DEFINE r == [run[x] EXCEPT !.at = "fanout", !.fan = f]
  <2>1. r \in RunType /\ r.at = "fanout" /\ r.fan = f
    BY <1>1 DEF RunType
  <2>2. Fit(r) /\ run' = [run EXCEPT ![x] = r]
    BY <1>5, <2>1 DEF Fit, Spawn
  <2> HIDE DEF r
  <2>3. RunsFit' /\ TreeGiven'
    <3>1. UNCHANGED <<tree, resumable>>
      BY <1>5 DEF Spawn
    <3> QED
      BY <1>1, <2>2, <3>1, RunGoesOn
  <2>4. FansFit'
    BY <1>5 DEF Spawn, TypeInv, FansFit, FanTypes
  <2>5. ControlTyped' /\ CountTyped' /\ HeldTyped' /\ EventsTyped' /\ MailTyped'
    BY <1>5 DEF Spawn, TypeInv, ControlTyped, CountTyped, HeldTyped, EventsTyped, MailTyped, attaching,
                mail, data, wakes
  <2> QED
    BY <2>3, <2>4, <2>5 DEF TypeInv
<1> QED
  BY <1>2, <1>3, <1>4, <1>5

LEMMA FanEndsTypes ==
  ASSUME TypeInv, NEW f \in Fanouts, FanEnds(f)
  PROVE  TypeInv'
<1>1. RunsFit' /\ TreeGiven' /\ FansFit'
  <2>1. UNCHANGED <<tree, resumable, detached>>
    BY DEF FanEnds
  <2>2. CASE UNCHANGED run /\ fan' = [fan EXCEPT ![f].at = "reporting"]
    BY <2>1, <2>2 DEF TypeInv, RunsFit, Fit, TreeGiven, Active, FansFit, FanTypes
  <2>3. ASSUME NEW x \in Slots, run[x].at = "fanout", fan' = [fan EXCEPT ![f].at = "over"],
               run' = [run EXCEPT ![x].at = "loop", ![x].fan = None, ![x].heard = @ \cup {f}]
        PROVE  RunsFit' /\ TreeGiven' /\ FansFit'
    <3> DEFINE r == [run[x] EXCEPT !.at = "loop", !.fan = None, !.heard = @ \cup {f}]
    <3>1. run[x] \in RunType /\ x \in Active
      BY <2>3, SlotFits
    <3>2. r \in RunType /\ r.at = "loop"
      BY <3>1 DEF RunType, Items
    <3>3. Fit(r) /\ run' = [run EXCEPT ![x] = r]
      BY <2>3, <3>2 DEF Fit
    <3> HIDE DEF r
    <3>4. RunsFit' /\ TreeGiven'
      BY <2>1, <3>1, <3>3, RunGoesOn
    <3>5. FansFit'
      BY <2>1, <2>3 DEF TypeInv, FansFit, FanTypes
    <3> QED
      BY <3>4, <3>5
  <2> QED
    BY <2>2, <2>3 DEF FanEnds
<1>2. EventsTyped'
  BY DEF FanEnds, Completed, TypeInv, EventsTyped, QueueTypes
<1>3. ControlTyped' /\ CountTyped' /\ HeldTyped' /\ MailTyped'
  BY DEF FanEnds, TypeInv, ControlTyped, CountTyped, HeldTyped, MailTyped, attaching, mail
<1> QED
  BY <1>1, <1>2, <1>3 DEF TypeInv

LEMMA ReportTypes ==
  ASSUME TypeInv, NEW f \in Fanouts, Report(f) \/ Leave(f)
  PROVE  TypeInv'
<1>1. RunsFit' /\ TreeGiven' /\ ControlTyped' /\ MailTyped' /\ CountTyped'
  BY DEF Report, Leave, TypeInv, RunsFit, Fit, TreeGiven, Active, ControlTyped, MailTyped, attaching, CountTyped,
         control, mail
<1>2. FansFit'
  BY DEF Report, Leave, TypeInv, FansFit, FanTypes
<1>3. EventsTyped'
  BY DEF Report, Leave, TypeInv, EventsTyped, QueueTypes, data, wakes
<1>4. HeldTyped'
  BY DEF Report, Leave, TypeInv, HeldTyped, control, data, Items
<1> QED
  BY <1>1, <1>2, <1>3, <1>4 DEF TypeInv

LEMMA FireTypes ==
  ASSUME TypeInv, NEW e \in Monitors, Fire(e)
  PROVE  TypeInv'
<1>1. RunsFit' /\ TreeGiven' /\ ControlTyped' /\ MailTyped' /\ FansFit' /\ HeldTyped'
  BY DEF Fire, TypeInv, RunsFit, Fit, TreeGiven, Active, ControlTyped, MailTyped, attaching, FansFit, HeldTyped,
         control, mail, fans
<1>2. EventsTyped'
  BY DEF Fire, TypeInv, EventsTyped, QueueTypes
<1>3. CountTyped'
  BY DEF Fire, TypeInv, CountTyped
<1> QED
  BY <1>1, <1>2, <1>3 DEF TypeInv

LEMMA WakeTypes ==
  ASSUME TypeInv, MaybeWake
  PROVE  TypeInv'
<1>1. EventsTyped'
  <2>1. NoEvents \in QueueTypes
    BY DEF NoEvents, QueueTypes
  <2>2. flag' \in BOOLEAN /\ due' \in {"no", "once", "twice"}
    BY DEF MaybeWake, TypeInv, EventsTyped
  <2>3. queue' \in QueueTypes /\ waking' \in BOOLEAN
    BY <2>1 DEF MaybeWake, TypeInv, EventsTyped
  <2> QED
    BY <2>2, <2>3 DEF EventsTyped
<1>2. MailTyped' /\ CountTyped'
  BY DEF MaybeWake, TypeInv, MailTyped, attaching, CountTyped, mail
<1>3. Events(queue) \in SUBSET Items /\ Results(queue) \in SUBSET Fanouts
  BY EventItems DEF TypeInv
<1>4. HeldTyped'
  BY <1>3 DEF MaybeWake, TypeInv, HeldTyped
<1>5. RunsFit' /\ TreeGiven' /\ FansFit' /\ ControlTyped'
  <2>1. CASE Wakes /\ queue # NoEvents
    <3>1. IdleSlot \in Slots /\ 1 \in 1 .. MaxAttempts
      BY <2>1, IdleSlotIsIdle, BoundsAssumption DEF MaybeWake
    <3>2. Begin(IdleSlot, "wake", Events(queue), 1) /\ UNCHANGED <<brake, fan, detached>>
      BY <2>1 DEF MaybeWake
    <3> QED
      BY <1>3, <3>1, <3>2, BeginTypes DEF TypeInv, ControlTyped
  <2>2. CASE ~(Wakes /\ queue # NoEvents)
    <3>1. UNCHANGED <<phase, tree, root, run, hardStopped, brake, resumable, fan, detached>>
      BY <2>2 DEF MaybeWake
    <3> QED
      BY <3>1 DEF TypeInv, RunsFit, Fit, TreeGiven, Active, FansFit, ControlTyped
  <2> QED
    BY <2>1, <2>2
<1> QED
  BY <1>1, <1>2, <1>4, <1>5 DEF TypeInv

\* The owner's stop.
LEMMA StopTypes ==
  ASSUME TypeInv, Interrupt \/ CancelAll
  PROVE  TypeInv'
<1>1. Demote /\ Brake /\ hardStopped' \in BOOLEAN
  BY DEF Interrupt, CancelAll, TypeInv, ControlTyped
<1>2. MailTyped'
  <2>1. Deferred \in Seq(Messages) /\ ToSet(tui) \in SUBSET Messages
    BY Joined, QueuedItems DEF TypeInv, MailTyped, Deferred
  <2> QED
    BY <1>1, <2>1, NothingTyped DEF Demote, TypeInv, MailTyped, attaching
<1>3. FansFit' /\ HeldTyped' /\ EventsTyped'
  BY <1>1 DEF Brake, TypeInv, FansFit, HeldTyped, EventsTyped, data, wakes
<1>4. ControlTyped'
  BY <1>1 DEF Brake, TypeInv, ControlTyped
<1>5. CountTyped'
  <2>1. count.stops < MaxStops /\ count' = [count EXCEPT !.stops = @ + 1]
    BY <1>1 DEF Brake
  <2> QED
    BY <2>1, BoundsAssumption DEF TypeInv, CountTyped
<1>6. ASSUME NEW x \in Slots PROVE run'[x].at = run[x].at /\ Fit(run'[x])
  <2> DEFINE b == run[x].stopped \/ (run[x].at # "off" /\ (run[x].tree = tree \/ x = brake))
             r == [run[x] EXCEPT !.stopped = b]
  <2>1. run'[x] = r
    BY <1>1 DEF Brake
  <2>2. Fit(run[x]) /\ run[x] \in RunType
    BY SlotFits
  <2>3. b \in BOOLEAN
    BY <2>2 DEF RunType
  <2> HIDE DEF b
  <2>4. r \in RunType /\ r.at = run[x].at /\ r.attempt = run[x].attempt /\ r.fan = run[x].fan
    BY <2>2, <2>3 DEF RunType
  <2> QED
    BY <2>1, <2>2, <2>4 DEF Fit
<1>7. RunsFit' /\ Active' = Active
  <2>1. run' = [x \in Slots |-> run'[x]] /\ DOMAIN run' = Slots
    BY <1>1 DEF Brake
  <2> QED
    BY <1>6, <2>1 DEF RunsFit, Fit, Active
<1>8. TreeGiven'
  BY <1>1, <1>7 DEF Brake, TypeInv, TreeGiven
<1> QED
  BY <1>2, <1>3, <1>4, <1>5, <1>7, <1>8 DEF TypeInv

\* The owner's messages.
LEMMA InjectTypes ==
  ASSUME MailTyped, NEW m \in Messages, NewMessage(m), NEW mine \in SUBSET Messages, Inject(m, mine),
         UNCHANGED tui
  PROVE  MailTyped'
<1>1. Append(live, m) \in Seq(Messages)
  BY Appended DEF MailTyped
<1> QED
  BY <1>1 DEF MailTyped, attaching, NewMessage, Inject

\* A line that is submitted, or whose mentions are looked at first.
LEMMA SubmitLineTypes ==
  ASSUME TypeInv, NEW m \in Messages, SubmitLine(m), tui' \in Seq(Messages), sent' \in SUBSET Messages
  PROVE  TypeInv'
<1>1. CASE m \in Mentions
  <2>1. MailTyped'
    BY <1>1 DEF SubmitLine, TypeInv, MailTyped
  <2>2. UNCHANGED <<control, data, wakes, fans, count>>
    BY <1>1 DEF SubmitLine
  <2> QED
    BY <2>1, <2>2, AsideTypes
<1>2. CASE m \notin Mentions
  <2>1. Submit(m) /\ resolving' \in SUBSET Mentions /\ acked' \in Mentions \cup {None} /\ crossed' \in Nat
    BY <1>2 DEF SubmitLine, attaching, TypeInv, MailTyped
  <2> QED
    BY <2>1, SubmitTypes
<1> QED
  BY <1>1, <1>2

LEMMA TypedTypes ==
  ASSUME TypeInv, NEW m \in Composer,
         TypeAtRest(m) \/ TypeIntoTurn(m) \/ TypeAhead(m) \/ TypeToNobody(m)
  PROVE  TypeInv'
<1>1. m \in Messages
  BY DEF Messages
<1>2. CASE TypeAtRest(m)
  <2>1. SubmitLine(m) /\ tui' \in Seq(Messages) /\ sent' \in SUBSET Messages
    BY <1>1, <1>2 DEF TypeAtRest, NewMessage, TypeInv, MailTyped
  <2> QED
    BY <1>1, <2>1, SubmitLineTypes
<1>3. CASE TypeIntoTurn(m) \/ TypeAhead(m) \/ TypeToNobody(m)
  <2>1. MailTyped'
    <3>1. CASE TypeIntoTurn(m)
      BY <1>1, <3>1, InjectTypes DEF TypeIntoTurn, TypeInv
    <3>2. CASE TypeAhead(m)
      <4>1. Append(tui, m) \in Seq(Messages)
        BY <1>1, Appended DEF TypeInv, MailTyped
      <4> QED
        BY <1>1, <3>2, <4>1 DEF TypeAhead, Enqueue, NewMessage, TypeInv, MailTyped, attaching
    <3>3. CASE TypeToNobody(m)
      BY <1>1, <3>3 DEF TypeToNobody, NewMessage, TypeInv, MailTyped, attaching
    <3> QED
      BY <1>3, <3>1, <3>2, <3>3
  <2>2. UNCHANGED <<control, data, wakes, fans, count>>
    BY <1>3 DEF TypeIntoTurn, TypeAhead, TypeToNobody
  <2> QED
    BY <2>1, <2>2, AsideTypes
<1> QED
  BY <1>2, <1>3

LEMMA CrossingType ==
  ASSUME TypeInv
  PROVE  Crossing \in Nat
BY DEF TypeInv, MailTyped, Crossing

LEMMA ReceiveTypes ==
  ASSUME TypeInv, NEW m \in Connector, Receive(m)
  PROVE  TypeInv'
<1>1. m \in Messages
  BY DEF Messages
<1>2. CASE root # "live" /\ Submit(m) /\ crossed' = Crossing /\ UNCHANGED <<tui, resolving, acked>>
  <2>1. /\ tui' \in Seq(Messages) /\ sent' \in SUBSET Messages
        /\ resolving' \in SUBSET Mentions /\ acked' \in Mentions \cup {None} /\ crossed' \in Nat
    BY <1>1, <1>2, CrossingType DEF Receive, NewMessage, TypeInv, MailTyped
  <2> QED
    BY <1>1, <1>2, <2>1, SubmitTypes
<1>3. CASE /\ Inject(m, {}) /\ queue' = [queue EXCEPT !.others = @ \cup {Hint}] /\ due' = "once"
           /\ UNCHANGED <<control, tui, seed, transit, waking, flag, fans, count>>
  <2>1. MailTyped'
    BY <1>1, <1>3, InjectTypes DEF Receive, TypeInv
  <2>2. EventsTyped'
    BY <1>3 DEF TypeInv, EventsTyped, QueueTypes
  <2>3. RunsFit' /\ TreeGiven' /\ ControlTyped' /\ FansFit' /\ HeldTyped' /\ CountTyped'
    BY <1>3 DEF TypeInv, RunsFit, Fit, TreeGiven, Active, ControlTyped, FansFit, HeldTyped,
                CountTyped, control, fans
  <2> QED
    BY <2>1, <2>2, <2>3 DEF TypeInv
<1> QED
  BY <1>2, <1>3 DEF Receive

\* r, Esc at an error, [c].
LEMMA AgainTypes ==
  ASSUME TypeInv, Retry \/ Dismiss \/ Continue
  PROVE  TypeInv'
<1>1. MailTyped' /\ FansFit' /\ EventsTyped'
  BY DEF Retry, Dismiss, Continue, TypeInv, MailTyped, attaching, FansFit, EventsTyped, mail, data, wakes, fans
<1>2. CountTyped'
  <2>1. CASE Retry
    BY <2>1, BoundsAssumption DEF Retry, TypeInv, CountTyped
  <2>2. CASE Dismiss
    BY <2>2, BoundsAssumption DEF Dismiss, TypeInv, CountTyped
  <2>3. CASE Continue
    BY <2>3, BoundsAssumption DEF Continue, TypeInv, CountTyped
  <2> QED
    BY <2>1, <2>2, <2>3
<1>3. HeldTyped'
  BY DEF Retry, Dismiss, Continue, TypeInv, HeldTyped, data
<1>4. RunsFit' /\ TreeGiven' /\ ControlTyped'
  <2>1. CASE Retry
    <3>1. IdleSlot \in Slots /\ 1 \in 1 .. MaxAttempts /\ last \in SUBSET Items
      BY <2>1, IdleSlotIsIdle, BoundsAssumption DEF Retry, TypeInv, HeldTyped
    <3>2. Begin(IdleSlot, "turn", last, 1) /\ UNCHANGED <<brake, fan, detached>>
      BY <2>1 DEF Retry
    <3> QED
      BY <3>1, <3>2, BeginTypes DEF TypeInv, ControlTyped
  <2>2. CASE Dismiss
    BY <2>2 DEF Dismiss, fans, TypeInv, RunsFit, Fit, TreeGiven, Active, ControlTyped, Rest
  <2>3. CASE Continue
    <3> DEFINE r == [NoRun EXCEPT !.at = "loop", !.kind = "resume", !.heard = resumable]
    <3>1. IdleSlot \in Slots
      BY <2>3, IdleSlotIsIdle DEF Continue
    <3>2. NoRun \in RunType /\ resumable \in SUBSET Items
      BY BoundsAssumption DEF NoRun, RunType, TypeInv, HeldTyped
    <3>3. r \in RunType /\ r.at = "loop"
      <4>1. r.at = "loop"
        BY DEF NoRun
      <4> QED
        BY <3>2, <4>1 DEF RunType
    <3>4. Fit(r) /\ run' = [run EXCEPT ![IdleSlot] = r]
      BY <2>3, <3>3 DEF Fit, Continue
    <3> HIDE DEF r
    <3>5. RunsFit'
      BY <3>1, <3>4, Refits DEF TypeInv
    <3>6. TreeGiven' /\ ControlTyped'
      BY <2>3, <3>1 DEF Continue, fans, TypeInv, TreeGiven, ControlTyped, Working
    <3> QED
      BY <3>5, <3>6
  <2> QED
    BY <2>1, <2>2, <2>3
<1> QED
  BY <1>1, <1>2, <1>3, <1>4 DEF TypeInv

\* A queue's two parts.
LEMMA Parts ==
  ASSUME NEW s \in Seq(Messages), NEW n \in 1 .. Len(s)
  PROVE  SubSeq(s, 1, n) \in Seq(Messages) /\ SubSeq(s, n + 1, Len(s)) \in Seq(Messages)
<1>1. Len(s) \in Nat /\ \A i \in 1 .. Len(s) : s[i] \in Messages
  BY LenProperties
<1>2. \A i \in 1 .. n : s[i] \in Messages
  BY <1>1
<1>3. \A i \in n + 1 .. Len(s) : s[i] \in Messages
  BY <1>1
<1>4. 1 \in Int /\ n \in Int /\ n + 1 \in Int /\ Len(s) \in Int
  BY <1>1
<1> QED
  BY <1>2, <1>3, <1>4, SubSeqProperties

LEMMA TerminalTypes ==
  ASSUME TypeInv, TerminalStep
  PROVE  TypeInv'
<1>0. ToSet(tui) \in SUBSET Messages /\ ToSet(pending) \in SUBSET Messages
  BY QueuedItems DEF TypeInv, MailTyped
<1>1. CASE SubmitHead
  <2>1. Head(tui) \in Messages /\ Tail(tui) \in Seq(Messages)
    BY <1>1, HeadTailProperties DEF SubmitHead, TypeInv, MailTyped
  <2>2. SubmitLine(Head(tui)) /\ tui' \in Seq(Messages) /\ sent' \in SUBSET Messages
    BY <1>1, <2>1 DEF SubmitHead, TypeInv, MailTyped
  <2> QED
    BY <2>1, <2>2, SubmitLineTypes
<1>2. CASE FeedTurn \/ TakeOrphans
  <2>1. MailTyped'
    <3>1. CASE FeedTurn
      <4>1. PICK n \in 1 .. Len(tui) :
              /\ live' = live \o SubSeq(tui, 1, n) /\ tui' = SubSeq(tui, n + 1, Len(tui))
              /\ returnable' = returnable \cup ToSet(SubSeq(tui, 1, n))
        BY <3>1 DEF FeedTurn
      <4>2. tui \in Seq(Messages) /\ live \in Seq(Messages)
        BY DEF TypeInv, MailTyped
      <4>3. SubSeq(tui, 1, n) \in Seq(Messages) /\ SubSeq(tui, n + 1, Len(tui)) \in Seq(Messages)
        BY <4>2, Parts
      <4>4. live \o SubSeq(tui, 1, n) \in Seq(Messages) /\ ToSet(SubSeq(tui, 1, n)) \in SUBSET Messages
        BY <4>2, <4>3, Joined, QueuedItems
      <4> QED
        BY <3>1, <4>1, <4>3, <4>4 DEF FeedTurn, TypeInv, MailTyped, attaching
    <3>2. CASE TakeOrphans
      <4>1. Filtered(pending, returnable) \in Seq(Messages)
            /\ Filtered(pending, Messages \ returnable) \in Seq(Messages)
        BY FilteredMembers DEF TypeInv, MailTyped
      <4>2. Filtered(pending, returnable) \o tui \in Seq(Messages)
        BY <4>1, Joined DEF TypeInv, MailTyped
      <4> QED
        BY <3>2, <4>1, <4>2 DEF TakeOrphans, StillPending, TypeInv, MailTyped, attaching
    <3> QED
      BY <1>2, <3>1, <3>2
  <2>2. UNCHANGED <<control, data, wakes, fans, count>>
    BY <1>2 DEF FeedTurn, TakeOrphans
  <2> QED
    BY <2>1, <2>2, AsideTypes
<1>3. ASSUME NEW m \in Mentions, Resolved(m) PROVE TypeInv'
  <2>1. /\ m \in Messages /\ Submit(m) /\ tui' \in Seq(Messages) /\ sent' \in SUBSET Messages
        /\ resolving' \in SUBSET Mentions /\ acked' \in Mentions \cup {None} /\ crossed' \in Nat
    BY <1>3, CrossingType, KindsAssumption DEF Resolved, TypeInv, MailTyped, Messages
  <2> QED
    BY <2>1, SubmitTypes
<1>4. ASSUME NEW m \in Mentions, Refused(m) PROVE TypeInv'
  <2>1. MailTyped'
    BY <1>4 DEF Refused, TypeInv, MailTyped
  <2> QED
    BY <1>4, <2>1, AsideTypes DEF Refused
<1> QED
  BY <1>1, <1>2, <1>3, <1>4 DEF TerminalStep

LEMMA NextTypes == TypeInv /\ [Next]_vars => TypeInv'
<1> SUFFICES ASSUME TypeInv, [Next]_vars PROVE TypeInv'
  OBVIOUS
<1>1. CASE UNCHANGED vars
  <2>1. UNCHANGED <<control, mail, data, wakes, fans, count>>
    BY <1>1 DEF vars
  <2> QED
    BY <2>1 DEF TypeInv, RunsFit, Fit, TreeGiven, Active, ControlTyped, FansFit, HeldTyped, EventsTyped,
                MailTyped, attaching, CountTyped, control, mail, data, wakes, fans
<1>2. ASSUME NEW x \in Slots, RunStep(x) PROVE TypeInv'
  BY <1>2, DrainTypes, EndTypes, AttemptTypes, FanoutTypes DEF RunStep, RunEnds
<1>3. ASSUME OwnerStep PROVE TypeInv'
  BY <1>3, TypedTypes, ReceiveTypes, StopTypes, AgainTypes DEF OwnerStep
<1> QED
  BY <1>1, <1>2, <1>3, FanEndsTypes, ReportTypes, FireTypes, WakeTypes, TerminalTypes DEF Next, Handler

\* The state has its types: in particular, whatever fails and whoever sends messages meanwhile, no
\* turn makes more than MaxAttempts attempts.
THEOREM TypesHold == Spec => []TypeOK
BY InitTypes, NextTypes, TypeInvTypes, PTL DEF Spec

-----------------------------------------------------------------------------
(* The trees *)

\* The fan-out a run waits for is attached, to that run alone; one that has not left its turn has
\* no tree of its own, and a tree with a detached fan-out is one that a fan-out has left.
FanoutsHeld ==
  /\ \A x \in Slots : run[x].at = "fanout" => fan[run[x].fan].at = "attached"
  /\ \A x, y \in Slots :
       run[x].at = "fanout" /\ run[y].at = "fanout" /\ run[x].fan = run[y].fan => x = y
  /\ \A f \in Fanouts : fan[f].at \in {"new", "attached"} => fan[f].tree = NoTree
  /\ \A t \in detached : \E f \in Fanouts : fan[f].tree = t

LEMMA InitHeld == Init => FanoutsHeld
BY DEF Init, FanoutsHeld, NoRun

LEMMA FanoutsKept ==
  ASSUME FanoutsHeld, UNCHANGED <<fan, detached>>,
         \A x \in Slots : run'[x].at = "fanout" => run[x].at = "fanout" /\ run'[x].fan = run[x].fan
  PROVE  FanoutsHeld'
<1>1. \A x \in Slots : run'[x].at = "fanout" => fan'[run'[x].fan].at = "attached"
  BY DEF FanoutsHeld
<1>2. \A x, y \in Slots :
        run'[x].at = "fanout" /\ run'[y].at = "fanout" /\ run'[x].fan = run'[y].fan => x = y
  BY DEF FanoutsHeld
<1> QED
  BY <1>1, <1>2 DEF FanoutsHeld

LEMMA TypesShape == TypeInv => Shape
BY DEF TypeInv, RunsFit, RunType, Shape, Fields

\* A slot's run that does not come to wait for a fan-out.
LEMMA ElsewhereHeld ==
  ASSUME TypeInv, FanoutsHeld, NEW x \in Slots, NEW r, run' = [run EXCEPT ![x] = r], r.at # "fanout",
         UNCHANGED <<fan, detached>>
  PROVE  FanoutsHeld'
<1>1. DOMAIN run = Slots
  BY DEF TypeInv, RunsFit
<1>2. \A y \in Slots : run'[y].at = "fanout" => run[y].at = "fanout" /\ run'[y].fan = run[y].fan
  BY <1>1
<1> QED
  BY <1>2, FanoutsKept

LEMMA BeginHeld ==
  ASSUME TypeInv, FanoutsHeld, NEW x \in Slots, NEW kind, NEW items, NEW attempt,
         Begin(x, kind, items, attempt), UNCHANGED <<fan, detached>>
  PROVE  FanoutsHeld'
<1>1. run'[x].at = "loop" /\ \A y \in Slots \ {x} : run'[y] = run[y]
  BY Begins, TypesShape
<1>2. \A y \in Slots : run'[y].at = "fanout" => run[y].at = "fanout" /\ run'[y].fan = run[y].fan
  BY <1>1
<1> QED
  BY <1>2, FanoutsKept

LEMMA RunHeld ==
  ASSUME TypeInv, FanoutsHeld, NEW x \in Slots, RunStep(x)
  PROVE  FanoutsHeld'
<1>1. DOMAIN run = Slots /\ run[x] \in RunType /\ Fit(run[x]) /\ fan \in [Fanouts -> FanTypes]
  BY SlotFits DEF TypeInv, RunsFit, FansFit
<1>2. CASE TopOfIteration(x) \/ BetweenTools(x) \/ Pump(x)
  <2>1. UNCHANGED <<fan, detached>>
    BY <1>2 DEF TopOfIteration, BetweenTools, Pump, fans
  <2>2. \A y \in Slots : run'[y].at = "fanout" => run[y].at = "fanout" /\ run'[y].fan = run[y].fan
    BY <1>1, <1>2 DEF TopOfIteration, BetweenTools, Pump, control, RunType
  <2> QED
    BY <2>1, <2>2, FanoutsKept
<1>3. CASE Finishes(x) \/ HitsLimit(x) \/ Cut(x) \/ Fails(x) \/ BackoffCut(x)
  <2>1. PICK p : Over(x, p)
    BY <1>3 DEF Finishes, HitsLimit, Cut, Fails, BackoffCut
  <2>2. NoRun.at # "fanout"
    BY DEF NoRun
  <2> QED
    BY <2>1, <2>2, ElsewhereHeld DEF Over, fans
<1>4. CASE BacksOff(x)
  <2> DEFINE r == [run[x] EXCEPT !.at = "backoff"]
  <2>1. r.at # "fanout" /\ run' = [run EXCEPT ![x] = r]
    BY <1>1, <1>4 DEF BacksOff, RunType
  <2> HIDE DEF r
  <2> QED
    BY <1>4, <2>1, ElsewhereHeld DEF BacksOff, fans
<1>5. CASE TriesAgain(x)
  BY <1>5, BeginHeld DEF TriesAgain
<1>6. CASE LeaveFanout(x)
  <2> DEFINE f == run[x].fan
  <2>1. /\ run[x].at = "fanout" /\ f \in Fanouts /\ fan[f].at = "attached" /\ fan[f].tree = NoTree
    BY <1>1, <1>6 DEF LeaveFanout, Fit, FanoutsHeld
  <2>2. /\ fan' = [fan EXCEPT ![f] = [at |-> "detached", tree |-> tree]] /\ detached' = detached \cup {tree}
        /\ run'[x].at = "loop" /\ \A y \in Slots \ {x} : run'[y] = run[y]
    BY <1>1, <1>6 DEF LeaveFanout, Detach, RunType
  <2> HIDE DEF f
  <2>3. fan'[f].at = "detached" /\ fan'[f].tree = tree /\ \A g \in Fanouts \ {f} : fan'[g] = fan[g]
    BY <1>1, <2>1, <2>2
  <2>4. \A y \in Slots \ {x} : run[y].at = "fanout" => run[y].fan # f /\ run[y].fan \in Fanouts
    BY <2>1, SlotFits DEF FanoutsHeld, Fit, f
  <2>5. \A t \in detached : t \in Trees
    BY DEF TypeInv, FansFit
  <2>6. \A t \in detached' : \E g \in Fanouts : fan'[g].tree = t
    BY <2>1, <2>2, <2>3, <2>5 DEF FanoutsHeld, NoTree, Trees
  <2>7. \A y \in Slots : run'[y].at = "fanout" => y # x /\ run'[y] = run[y] /\ fan'[run'[y].fan].at = "attached"
    BY <2>2, <2>3, <2>4 DEF FanoutsHeld
  <2>8. \A g \in Fanouts : fan'[g].at \in {"new", "attached"} => fan'[g].tree = NoTree
    BY <2>3 DEF FanoutsHeld
  <2> QED
    BY <2>6, <2>7, <2>8 DEF FanoutsHeld
<1>7. ASSUME NEW f \in Fanouts, Dispatch(x, f) PROVE FanoutsHeld'
  <2>1. /\ fan[f].at = "new" /\ fan' = [fan EXCEPT ![f] = [at |-> "detached", tree |-> tree]]
        /\ detached' = detached \cup {tree} /\ run' = run
    BY <1>7 DEF Dispatch, Detach, control
  <2>2. fan'[f].at = "detached" /\ fan'[f].tree = tree /\ \A g \in Fanouts \ {f} : fan'[g] = fan[g]
    BY <1>1, <2>1
  <2>3. fan[f].tree = NoTree /\ detached \subseteq Trees
    BY <2>1 DEF FanoutsHeld, TypeInv, FansFit
  <2>4. \A t \in detached' : \E g \in Fanouts : fan'[g].tree = t
    BY <2>1, <2>2, <2>3 DEF FanoutsHeld, NoTree, Trees
  <2>5. \A y \in Slots : run[y].at = "fanout" => run[y].fan # f /\ run[y].fan \in Fanouts
    BY <2>1, SlotFits DEF FanoutsHeld, Fit
  <2> QED
    BY <2>1, <2>2, <2>4, <2>5 DEF FanoutsHeld
<1>8. ASSUME NEW f \in Fanouts, Spawn(x, f) PROVE FanoutsHeld'
  <2>1. fan[f].at = "new" /\ fan' = [fan EXCEPT ![f].at = "attached"] /\ UNCHANGED detached
    BY <1>8 DEF Spawn
  <2>2. /\ run'[x].at = "fanout" /\ run'[x].fan = f /\ \A y \in Slots \ {x} : run'[y] = run[y]
    BY <1>1, <1>8 DEF Spawn, RunType
  <2>3. fan'[f].at = "attached" /\ fan'[f].tree = fan[f].tree /\ \A g \in Fanouts \ {f} : fan'[g] = fan[g]
    BY <1>1, <2>1 DEF FanTypes
  <2>4. \A t \in detached' : \E g \in Fanouts : fan'[g].tree = t
    BY <2>1, <2>3 DEF FanoutsHeld
  <2>5. \A y \in Slots : run[y].at = "fanout" => run[y].fan # f /\ run[y].fan \in Fanouts
    BY <2>1, SlotFits DEF FanoutsHeld, Fit
  <2>6. \A y \in Slots : run'[y].at = "fanout" => fan'[run'[y].fan].at = "attached"
    BY <2>2, <2>3, <2>5 DEF FanoutsHeld
  <2>7. \A y, z \in Slots :
          run'[y].at = "fanout" /\ run'[z].at = "fanout" /\ run'[y].fan = run'[z].fan => y = z
    BY <2>2, <2>5 DEF FanoutsHeld
  <2>8. \A g \in Fanouts : fan'[g].at \in {"new", "attached"} => fan'[g].tree = NoTree
    BY <2>1, <2>3 DEF FanoutsHeld
  <2> QED
    BY <2>4, <2>6, <2>7, <2>8 DEF FanoutsHeld
<1> QED
  BY <1>2, <1>3, <1>4, <1>5, <1>6, <1>7, <1>8 DEF RunStep, RunEnds

\* A fan-out that ends, reports and leaves.
LEMMA FanHeld ==
  ASSUME TypeInv, FanoutsHeld, NEW f \in Fanouts, FanEnds(f) \/ Report(f) \/ Leave(f)
  PROVE  FanoutsHeld'
<1>1. DOMAIN run = Slots /\ fan \in [Fanouts -> FanTypes] /\ run \in [Slots -> RunType]
  BY DEF TypeInv, RunsFit, FansFit
<1>2. /\ fan'[f].at \notin {"new", "attached"} /\ fan[f].at \notin {"new"}
      /\ \A g \in Fanouts \ {f} : fan'[g] = fan[g]
  <2>1. fan[f] \in FanTypes
    BY <1>1
  <2>2. CASE FanEnds(f)
    <3>1. fan[f].at \in {"detached", "attached"}
      BY <2>2 DEF FanEnds, FanoutsHeld
    <3>2. PICK p \in {"reporting", "over"} : fan' = [fan EXCEPT ![f].at = p]
      BY <2>2 DEF FanEnds
    <3> QED
      BY <1>1, <2>1, <3>1, <3>2 DEF FanTypes
  <2>3. CASE Report(f)
    BY <1>1, <2>1, <2>3 DEF Report, FanTypes
  <2>4. CASE Leave(f)
    BY <1>1, <2>1, <2>4 DEF Leave, FanTypes
  <2> QED
    BY <2>2, <2>3, <2>4
<1>3. \A t \in detached' : \E g \in Fanouts : fan'[g].tree = t
  <2>1. CASE FanEnds(f) \/ Report(f)
    <3>1. fan'[f].tree = fan[f].tree /\ detached' = detached
      <4>1. fan[f] \in FanTypes
        BY <1>1
      <4>2. PICK p : fan' = [fan EXCEPT ![f].at = p]
        BY <2>1 DEF FanEnds, Report
      <4>3. fan'[f].tree = fan[f].tree
        BY <1>1, <4>1, <4>2 DEF FanTypes
      <4>4. detached' = detached
        BY <2>1 DEF FanEnds, Report
      <4> QED
        BY <4>3, <4>4
    <3> QED
      BY <1>2, <3>1 DEF FanoutsHeld
  <2>2. CASE Leave(f)
    <3>1. detached' = detached \ {fan[f].tree}
      BY <2>2 DEF Leave
    <3> QED
      BY <1>2, <3>1 DEF FanoutsHeld
  <2> QED
    BY <2>1, <2>2
<1>4. \A y \in Slots : run'[y].at = "fanout" =>
        run[y].at = "fanout" /\ run'[y].fan = run[y].fan /\ run[y].fan \in Fanouts \ {f}
  <2>1. CASE fan[f].at # "attached" /\ run' = run
    BY <2>1, SlotFits DEF FanoutsHeld, Fit
  <2>2. ASSUME NEW x \in Slots, run[x].at = "fanout", run[x].fan = f,
               run' = [run EXCEPT ![x].at = "loop", ![x].fan = None, ![x].heard = @ \cup {f}]
        PROVE  \A y \in Slots : run'[y].at = "fanout" =>
                 run[y].at = "fanout" /\ run'[y].fan = run[y].fan /\ run[y].fan \in Fanouts \ {f}
    <3>1. run'[x].at = "loop" /\ \A y \in Slots \ {x} : run'[y] = run[y]
      BY <1>1, <2>2 DEF RunType
    <3> QED
      <4>1. \A y \in Slots \ {x} : run[y].at = "fanout" => run[y].fan # f
        BY <2>2 DEF FanoutsHeld
      <4>2. \A y \in Slots : run[y].at = "fanout" => run[y].fan \in Fanouts
        BY SlotFits DEF Fit
      <4> QED
        BY <3>1, <4>1, <4>2
  <2> QED
    BY <2>1, <2>2 DEF FanEnds, Report, Leave, control
<1>5. \A g \in Fanouts : fan'[g].at \in {"new", "attached"} => fan'[g].tree = NoTree
  BY <1>2 DEF FanoutsHeld
<1>6. \A y \in Slots : run'[y].at = "fanout" => fan'[run'[y].fan].at = "attached"
  BY <1>2, <1>4 DEF FanoutsHeld
<1>7. \A y, z \in Slots :
        run'[y].at = "fanout" /\ run'[z].at = "fanout" /\ run'[y].fan = run'[z].fan => y = z
  BY <1>4 DEF FanoutsHeld
<1> QED
  BY <1>3, <1>5, <1>6, <1>7 DEF FanoutsHeld

LEMMA NextHeld ==
  ASSUME TypeInv, FanoutsHeld, [Next]_vars
  PROVE  FanoutsHeld'
<1>1. CASE UNCHANGED vars
  BY <1>1 DEF vars, control, fans, FanoutsHeld
<1>2. CASE MaybeWake
  <2>1. CASE Wakes /\ queue # NoEvents
    BY <1>2, <2>1, IdleSlotIsIdle, BeginHeld DEF MaybeWake
  <2>2. CASE ~(Wakes /\ queue # NoEvents)
    BY <1>2, <2>2, FanoutsKept DEF MaybeWake
  <2> QED
    BY <2>1, <2>2
<1>3. ASSUME NEW m, Submit(m) PROVE FanoutsHeld'
  BY <1>3, IdleSlotIsIdle, BeginHeld DEF Submit
<1>4. CASE Interrupt \/ CancelAll
  <2>1. Brake
    BY <1>4 DEF Interrupt, CancelAll
  <2>2. UNCHANGED <<fan, detached>>
    BY <2>1 DEF Brake
  <2>3. \A x \in Slots : run'[x].at = run[x].at /\ run'[x].fan = run[x].fan
    <3> TAKE x \in Slots
    <3> DEFINE b == run[x].stopped \/ (run[x].at # "off" /\ (run[x].tree = tree \/ x = brake))
    <3>1. run'[x] = [run[x] EXCEPT !.stopped = b]
      BY <2>1 DEF Brake
    <3> HIDE DEF b
    <3>2. run[x] \in RunType
      BY SlotFits
    <3> QED
      BY <3>1, <3>2 DEF RunType
  <2> QED
    BY <2>2, <2>3, FanoutsKept
<1>5. CASE Retry
  BY <1>5, IdleSlotIsIdle, BeginHeld DEF Retry
<1>6. CASE Continue
  <2> DEFINE r == [NoRun EXCEPT !.at = "loop", !.kind = "resume", !.heard = resumable]
  <2>1. r.at # "fanout" /\ run' = [run EXCEPT ![IdleSlot] = r] /\ IdleSlot \in Slots
    BY <1>6, IdleSlotIsIdle DEF Continue, NoRun
  <2> HIDE DEF r
  <2> QED
    BY <1>6, <2>1, ElsewhereHeld DEF Continue, fans
<1>7. ASSUME UNCHANGED <<run, fan, detached>> PROVE FanoutsHeld'
  BY <1>7, FanoutsKept
<1>8. CASE OwnerStep
  <2>1. ASSUME NEW m \in Composer, TypeAtRest(m) \/ TypeIntoTurn(m) \/ TypeAhead(m) \/ TypeToNobody(m)
        PROVE  FanoutsHeld'
    BY <1>3, <1>7, <2>1 DEF TypeAtRest, SubmitLine, TypeIntoTurn, TypeAhead, TypeToNobody, control, fans
  <2>2. ASSUME NEW m \in Connector, Receive(m) PROVE FanoutsHeld'
    BY <1>3, <1>7, <2>2 DEF Receive, control, fans
  <2>3. CASE Dismiss
    BY <1>7, <2>3 DEF Dismiss, fans
  <2> QED
    BY <1>4, <1>5, <1>6, <1>8, <2>1, <2>2, <2>3 DEF OwnerStep
<1>9. CASE TerminalStep
  BY <1>3, <1>7, <1>9
     DEF TerminalStep, SubmitHead, SubmitLine, FeedTurn, TakeOrphans, Resolved, Refused, control, fans
<1>10. ASSUME NEW e \in Monitors, Fire(e) PROVE FanoutsHeld'
  BY <1>7, <1>10 DEF Fire, control, fans
<1> QED
  BY <1>1, <1>2, <1>8, <1>9, <1>10, RunHeld, FanHeld DEF Next, Handler

\* Fewer trees are in use than the model has.
LEMMA TreesLeft ==
  ASSUME TypeInv, FanoutsHeld
  PROVE  Trees \ UsedTrees # {}
<1> DEFINE R == {run[x].tree : x \in Slots}
           F == {fan[f].tree : f \in Fanouts}
           s == Cardinality(Slots)
           k == Cardinality(Fanouts)
<1>1. IsFiniteSet(R) /\ Cardinality(R) <= s
  <2> DEFINE g == [x \in Slots |-> run[x].tree]
  <2>1. g \in Surjection(Slots, R)
    BY DEF Surjection
  <2> QED
    BY <2>1, FS_Surjection, FinitenessAssumption
<1>2. IsFiniteSet(F) /\ Cardinality(F) <= k
  <2> DEFINE g == [f \in Fanouts |-> fan[f].tree]
  <2>1. g \in Surjection(Fanouts, F)
    BY DEF Surjection
  <2> QED
    BY <2>1, FS_Surjection, FinitenessAssumption
<1>3. s \in Nat /\ k \in Nat
  BY FS_CardinalityType, FinitenessAssumption
<1>4. UsedTrees = (R \cup F) \cup {tree}
  BY DEF UsedTrees, FanoutsHeld
<1> HIDE DEF R, F
<1>5. Cardinality(R) \in Nat /\ Cardinality(F) \in Nat /\ Cardinality(R \cap F) \in Nat
  BY <1>1, <1>2, FS_CardinalityType, FS_Intersection
<1>6. IsFiniteSet(R \cup F) /\ Cardinality(R \cup F) = Cardinality(R) + Cardinality(F) - Cardinality(R \cap F)
  BY <1>1, <1>2, FS_Union
<1>7. IsFiniteSet(UsedTrees) /\ Cardinality(UsedTrees) <= Cardinality(R \cup F) + 1
      /\ Cardinality(R \cup F) \in Nat
  <2> DEFINE U == R \cup F
  <2>1. IsFiniteSet(U) /\ UsedTrees = U \cup {tree}
    BY <1>4, <1>6
  <2> HIDE DEF U
  <2>2. Cardinality(U) \in Nat
    BY <2>1, FS_CardinalityType
  <2>3. /\ IsFiniteSet(U \cup {tree})
        /\ Cardinality(U \cup {tree}) = IF tree \in U THEN Cardinality(U) ELSE Cardinality(U) + 1
    BY <2>1, FS_AddElement
  <2>4. Cardinality(UsedTrees) <= Cardinality(U) + 1
    BY <2>1, <2>2, <2>3
  <2> QED
    BY <2>1, <2>2, <2>3, <2>4 DEF U
<1>8. Cardinality(UsedTrees) \in Nat
  BY <1>7, FS_CardinalityType
<1>9. Cardinality(UsedTrees) <= s + k + 1
  <2> HIDE DEF s, k
  <2> QED
    BY <1>1, <1>2, <1>3, <1>5, <1>6, <1>7, <1>8
<1>10. Cardinality(Trees) = s + k + 2
  <2> HIDE DEF s, k
  <2>1. Trees = 1 .. (s + k + 2)
    BY DEF Trees, s, k
  <2>2. 1 \in Int /\ s + k + 2 \in Int /\ ~(1 > s + k + 2) /\ (s + k + 2) - 1 + 1 = s + k + 2
    BY <1>3
  <2> QED
    BY <2>1, <2>2, FS_Interval
<1>11. ~(Cardinality(Trees) <= Cardinality(UsedTrees))
  <2> HIDE DEF s, k
  <2> QED
    BY <1>3, <1>8, <1>9, <1>10
<1> QED
  BY <1>7, <1>11, FS_Subset

\* A new turn always finds a tree: what is counted for it (one per run, one per fan-out, the
\* current one) is enough, whatever has been detached, so the bound holds back no turn.
THEOREM TurnFindsTree == Spec => [](Trees \ UsedTrees # {})
<1>1. TypeInv /\ FanoutsHeld /\ [Next]_vars => FanoutsHeld'
  BY NextHeld
<1>2. TypeInv /\ FanoutsHeld => Trees \ UsedTrees # {}
  BY TreesLeft
<1> QED
  BY <1>1, <1>2, InitTypes, NextTypes, InitHeld, PTL DEF Spec

-----------------------------------------------------------------------------
(* What the kind of the run tells *)

\* No turn is under way that could take messages in: a run resumed with [c] takes none.
NoTurn == \A x \in Active : run[x].kind = "resume"

\* The latch of the wake-up is that of a wake-up turn under way; a live root is a turn's; a
\* resumed run makes no second attempt.
KindInv ==
  /\ waking => \E x \in Active : run[x].kind = "wake"
  /\ root = "live" => ~NoTurn
  /\ \A x \in Active : run[x].at = "backoff" => run[x].kind # "resume"

\* A turn that settles its messages as it ends.
TurnEnds ==
  \E x \in Active : /\ run[x].kind # "resume"
                    /\ Finishes(x) \/ HitsLimit(x) \/ Cut(x) \/ Fails(x) \/ BackoffCut(x)

KindGood == KindInv' /\ ((NoTurn' => NoTurn) \/ TurnEnds)

LEMMA KindStarts ==
  ASSUME SessionInv, KindInv, phase \notin Working, NEW x \in Slots, NEW kind, kind # "resume",
         NEW items, NEW attempt, Begin(x, kind, items, attempt), waking' = waking \/ kind = "wake"
  PROVE  KindGood
<1>1. Active = {} /\ Shape
  BY DEF SessionInv, TurnInv, Agrees
<1>2. Active' = {x} /\ run'[x].kind = kind /\ run'[x].at = "loop"
  BY <1>1, Begins
<1> QED
  BY <1>1, <1>2 DEF KindGood, KindInv, NoTurn

LEMMA KindGoesOn ==
  ASSUME SessionInv, KindInv, NEW x \in Active, NEW r, DOMAIN r = Fields, run' = [run EXCEPT ![x] = r],
         r.at # "off", r.kind = run[x].kind, r.at = "backoff" => r.kind # "resume",
         UNCHANGED <<root, waking>>
  PROVE  KindGood
<1>1. Active' = Active /\ run'[x] = r
  BY StaysActive DEF SessionInv, TurnInv
<1>2. Active = {x}
  BY DEF SessionInv, TurnInv, AtOne
<1> QED
  BY <1>1, <1>2 DEF KindGood, KindInv, NoTurn

LEMMA KindEnds ==
  ASSUME SessionInv, KindInv, NEW x \in Active, NEW p, Over(x, p)
  PROVE  KindInv' /\ Active = {x} /\ Active' = {}
<1>1. Active = {x} /\ Active' = {}
  <2>1. Active = {x} /\ Shape /\ x \in Slots
    BY DEF SessionInv, TurnInv, AtOne, Active
  <2> QED
    BY <2>1, Leaves DEF Over
<1>2. root' # "live" /\ ~waking'
  BY <1>1 DEF Over, KindInv
<1> QED
  BY <1>1, <1>2 DEF KindInv

LEMMA KindElsewhere ==
  ASSUME KindInv, UNCHANGED <<root, run, waking>>
  PROVE  KindGood
BY DEF KindGood, KindInv, NoTurn, Active

LEMMA KindBrakes ==
  ASSUME SessionInv, KindInv, Brake
  PROVE  KindGood
<1>1. /\ Active' = Active
      /\ \A y \in Slots : run'[y].at = run[y].at /\ run'[y].kind = run[y].kind
  BY Brakes DEF SessionInv, TurnInv
<1>2. root' # "live" /\ waking' = waking
  BY DEF Brake, wakes
<1> QED
  BY <1>1, <1>2 DEF KindGood, KindInv, NoTurn, Active

LEMMA RunKinds ==
  ASSUME SessionInv, KindInv, TypeInv, NEW x \in Slots, RunStep(x)
  PROVE  KindGood
<1>1. Shape /\ (run[x].at # "off" => x \in Active) /\ DOMAIN run[x] = Fields /\ run[x] \in RunType
  BY SlotFits DEF SessionInv, TurnInv, Active, Shape
<1>2. ASSUME UNCHANGED <<root, run, waking>> PROVE KindGood
  BY <1>2, KindElsewhere
<1>3. ASSUME TopOfIteration(x) \/ BetweenTools(x) PROVE KindGood
  <2>1. PICK h : run' = [run EXCEPT ![x].heard = h]
    BY <1>3 DEF TopOfIteration, BetweenTools
  <2> DEFINE r == [run[x] EXCEPT !.heard = h]
  <2>2. run' = [run EXCEPT ![x] = r] /\ DOMAIN r = Fields /\ r.at = run[x].at /\ r.kind = run[x].kind
    BY <1>1, <2>1 DEF Fields
  <2>3. run[x].at = "loop" /\ UNCHANGED <<root, waking>>
    BY <1>3 DEF TopOfIteration, BetweenTools, wakes
  <2> HIDE DEF r
  <2> QED
    BY <1>1, <2>2, <2>3, KindGoesOn
<1>4. ASSUME Finishes(x) \/ HitsLimit(x) \/ Cut(x) \/ Fails(x) \/ BackoffCut(x) PROVE KindGood
  <2>1. x \in Active
    BY <1>1, <1>4 DEF Finishes, HitsLimit, Cut, Fails, BackoffCut
  <2>2. PICK p : Over(x, p)
    BY <1>4 DEF Finishes, HitsLimit, Cut, Fails, BackoffCut
  <2>3. KindInv' /\ Active = {x} /\ Active' = {}
    BY <2>1, <2>2, KindEnds
  <2> QED
    BY <1>4, <2>3 DEF KindGood, TurnEnds, NoTurn
<1>5. ASSUME BacksOff(x) PROVE KindGood
  <2> DEFINE r == [run[x] EXCEPT !.at = "backoff"]
  <2>1. run' = [run EXCEPT ![x] = r] /\ DOMAIN r = Fields /\ r.at = "backoff" /\ r.kind = run[x].kind
    BY <1>1, <1>5 DEF BacksOff, Fields
  <2>2. run[x].at = "loop" /\ run[x].kind # "resume" /\ UNCHANGED <<root, waking>>
    BY <1>5 DEF BacksOff, MayRetry, wakes
  <2> HIDE DEF r
  <2> QED
    BY <1>1, <2>1, <2>2, KindGoesOn
<1>6. ASSUME TriesAgain(x) PROVE KindGood
  <2>1. run[x].at = "backoff" /\ waking' = waking /\ x \in Active /\ Active = {x}
    BY <1>1, <1>6 DEF TriesAgain, wakes, SessionInv, TurnInv, AtOne
  <2>2. run[x].kind # "resume"
    BY <2>1 DEF KindInv
  <2>3. PICK kind, items, attempt : Begin(x, kind, items, attempt) /\ kind = run[x].kind
    BY <1>6 DEF TriesAgain
  <2>4. Active' = {x} /\ run'[x].kind = kind /\ run'[x].at = "loop"
    BY <1>1, <2>1, <2>3, Begins
  <2> QED
    BY <2>1, <2>2, <2>3, <2>4 DEF KindGood, KindInv, NoTurn
<1>7. ASSUME Pump(x) PROVE KindGood
  BY <1>2, <1>7 DEF Pump, control, wakes
<1>8. ASSUME LeaveFanout(x) PROVE KindGood
  <2> DEFINE r == [run[x] EXCEPT !.at = "loop", !.fan = None]
  <2>1. run' = [run EXCEPT ![x] = r] /\ DOMAIN r = Fields /\ r.at = "loop" /\ r.kind = run[x].kind
    BY <1>1, <1>8 DEF LeaveFanout, Fields
  <2>2. run[x].at = "fanout" /\ UNCHANGED <<root, waking>>
    BY <1>8 DEF LeaveFanout, wakes
  <2> HIDE DEF r
  <2> QED
    BY <1>1, <2>1, <2>2, KindGoesOn
<1>9. ASSUME NEW f \in Fanouts, Dispatch(x, f) PROVE KindGood
  BY <1>2, <1>9 DEF Dispatch, control, wakes
<1>10. ASSUME NEW f \in Fanouts, Spawn(x, f) PROVE KindGood
  <2> DEFINE r == [run[x] EXCEPT !.at = "fanout", !.fan = f]
  <2>1. run' = [run EXCEPT ![x] = r] /\ DOMAIN r = Fields /\ r.at = "fanout" /\ r.kind = run[x].kind
    BY <1>1, <1>10 DEF Spawn, Fields
  <2>2. run[x].at = "loop" /\ UNCHANGED <<root, waking>>
    BY <1>10 DEF Spawn, wakes
  <2> HIDE DEF r
  <2> QED
    BY <1>1, <2>1, <2>2, KindGoesOn
<1> QED
  BY <1>3, <1>4, <1>5, <1>6, <1>7, <1>8, <1>9, <1>10 DEF RunStep, RunEnds

LEMMA FanKinds ==
  ASSUME SessionInv, KindInv, TypeInv, NEW f \in Fanouts, FanEnds(f) \/ Report(f) \/ Leave(f)
  PROVE  KindGood
<1>1. UNCHANGED <<root, waking>>
  BY DEF FanEnds, Report, Leave, control, wakes
<1>2. CASE run' = run
  BY <1>1, <1>2, KindElsewhere
<1>3. CASE run' # run
  <2>1. PICK x \in Slots :
          /\ run[x].at = "fanout"
          /\ run' = [run EXCEPT ![x].at = "loop", ![x].fan = None, ![x].heard = @ \cup {f}]
    BY <1>3 DEF FanEnds, Report, Leave, control
  <2>2. x \in Active /\ DOMAIN run[x] = Fields
    BY <2>1 DEF Active, SessionInv, TurnInv, Shape
  <2> DEFINE r == [run[x] EXCEPT !.at = "loop", !.fan = None, !.heard = @ \cup {f}]
  <2>3. DOMAIN run = Slots
    BY DEF SessionInv, TurnInv, Shape
  <2>4. run' = [run EXCEPT ![x] = r] /\ DOMAIN r = Fields /\ r.at = "loop" /\ r.kind = run[x].kind
    BY <2>1, <2>2, <2>3 DEF Fields
  <2> HIDE DEF r
  <2> QED
    BY <1>1, <2>2, <2>4, KindGoesOn
<1> QED
  BY <1>2, <1>3

\* A message that is submitted late, but over no turn, is submitted behind a phase that is not working.
LEMMA NotCrossing ==
  ASSUME crossed = 0, Crossing = 0
  PROVE  phase \notin Working
BY DEF Crossing

LEMMA OwnerKinds ==
  ASSUME SessionInv, KindInv, crossed = 0, crossed' = 0, OwnerStep \/ TerminalStep
  PROVE  KindGood
<1>1. ASSUME NEW m, Submit(m), phase \notin Working PROVE KindGood
  BY <1>1, IdleSlotIsIdle, KindStarts DEF Submit, wakes
<1>2. ASSUME UNCHANGED <<root, run, waking>> PROVE KindGood
  BY <1>2, KindElsewhere
<1>3. ASSUME NEW m \in Composer, TypeAtRest(m) \/ TypeIntoTurn(m) \/ TypeAhead(m) \/ TypeToNobody(m)
      PROVE  KindGood
  BY <1>1, <1>2, <1>3
     DEF TypeAtRest, SubmitLine, TypeIntoTurn, TypeAhead, TypeToNobody, control, wakes, Rest, Working
<1>4. CASE Interrupt \/ CancelAll
  BY <1>4, KindBrakes DEF Interrupt, CancelAll
<1>5. CASE Retry
  BY <1>5, IdleSlotIsIdle, KindStarts DEF Retry, wakes, Working, data
<1>6. CASE Dismiss
  BY <1>2, <1>6 DEF Dismiss, wakes
<1>7. CASE Continue
  <2> DEFINE r == [NoRun EXCEPT !.at = "loop", !.kind = "resume", !.heard = resumable]
  <2>1. /\ IdleSlot \in Slots /\ run' = [run EXCEPT ![IdleSlot] = r]
        /\ phase \notin Working /\ UNCHANGED <<root, waking>> /\ Shape
    BY <1>7, IdleSlotIsIdle DEF Continue, wakes, Working, SessionInv, TurnInv
  <2>2. r.at = "loop" /\ r.kind = "resume"
    BY DEF NoRun
  <2> HIDE DEF r
  <2>3. Active = {}
    BY <2>1 DEF SessionInv, TurnInv, Agrees
  <2>4. Active' = {IdleSlot} /\ run'[IdleSlot] = r
    BY <2>1, <2>2, <2>3 DEF Shape, Active
  <2>5. root # "live" /\ ~waking
    BY <2>3 DEF KindInv, NoTurn
  <2> QED
    BY <2>1, <2>2, <2>3, <2>4, <2>5 DEF KindGood, KindInv, NoTurn
<1>8. CASE SubmitHead
  BY <1>1, <1>2, <1>8 DEF SubmitHead, SubmitLine, control, wakes, Rest, Working
<1>9. CASE FeedTurn \/ TakeOrphans
  BY <1>2, <1>9 DEF FeedTurn, TakeOrphans, control, wakes
<1>10. ASSUME NEW m \in Connector, Receive(m) PROVE KindGood
  BY <1>1, <1>2, <1>10, NotCrossing DEF Receive, control
<1>11. ASSUME NEW m \in Mentions, Resolved(m) \/ Refused(m) PROVE KindGood
  BY <1>1, <1>2, <1>11, NotCrossing DEF Resolved, Refused, control, wakes
<1> QED
  BY <1>3, <1>4, <1>5, <1>6, <1>7, <1>8, <1>9, <1>10, <1>11 DEF OwnerStep, TerminalStep

LEMMA NextKinds ==
  ASSUME SessionInv, KindInv, TypeInv, crossed = 0, crossed' = 0, [Next]_vars
  PROVE  KindGood
<1>1. CASE MaybeWake
  <2>1. CASE Wakes /\ queue # NoEvents
    BY <1>1, <2>1, IdleSlotIsIdle, KindStarts DEF MaybeWake, Wakes, Rest, Working
  <2>2. CASE ~(Wakes /\ queue # NoEvents)
    BY <1>1, <2>2, KindElsewhere DEF MaybeWake
  <2> QED
    BY <2>1, <2>2
<1>2. ASSUME NEW e \in Monitors, Fire(e) PROVE KindGood
  BY <1>2, KindElsewhere DEF Fire, control
<1>3. CASE UNCHANGED vars
  BY <1>3, KindElsewhere DEF vars, control, wakes
<1> QED
  BY <1>1, <1>2, <1>3, RunKinds, FanKinds, OwnerKinds DEF Next, Handler

LEMMA InitKinds == Init => KindInv
BY DEF Init, KindInv, Active, NoRun

-----------------------------------------------------------------------------
(* No typed message is left behind *)

\* Until the owner stops something, what waits in the controller is the composer's; what a turn did
\* not take in does not stay in the turn's queue; and what waits for a next turn has been announced,
\* so that the terminal takes it back.
LeftInv ==
  /\ count.stops = 0 => ToSet(live) \cup ToSet(pending) \subseteq returnable
  /\ NoTurn => live = <<>>
  /\ NoTurn /\ count.stops = 0 /\ pending # <<>> => orphans

LEMMA SomeMember == \A s \in Seq(Messages) : s # <<>> => ToSet(s) # {}
<1> TAKE s \in Seq(Messages)
<1> HAVE s # <<>>
<1>1. 1 \in DOMAIN s
  BY EmptySeq, LenProperties
<1> QED
  BY <1>1 DEF ToSet

LEMMA LeftSettled ==
  ASSUME MailInv, LeftInv, Settle, count' = count
  PROVE  LeftInv'
<1>1. /\ Deferred \in Seq(Messages) /\ ToSet(Deferred) = ToSet(pending) \cup ToSet(live)
      /\ live' = <<>> /\ pending' = Deferred /\ returnable' = returnable
  BY Joined DEF MailInv, Apart, Tidy, Deferred, Settle
<1>2. count.stops = 0 => ToSet(live') \cup ToSet(pending') \subseteq returnable'
  BY <1>1, NothingQueued DEF LeftInv
<1>3. ASSUME count.stops = 0, pending' # <<>> PROVE orphans'
  <2>1. PICK m : m \in ToSet(Deferred)
    BY <1>1, <1>3, SomeMember
  <2>2. m \in returnable
    BY <1>1, <1>3, <2>1 DEF LeftInv
  <2> QED
    BY <2>1, <2>2 DEF Settle, Published, Deferred
<1> QED
  BY <1>1, <1>2, <1>3 DEF LeftInv

LEMMA LeftAsIs ==
  ASSUME LeftInv, NoTurn' => NoTurn, UNCHANGED <<live, pending, returnable, orphans>>,
         count'.stops = 0 => count.stops = 0
  PROVE  LeftInv'
BY DEF LeftInv

LEMMA LeftDrained ==
  ASSUME MailInv, LeftInv, NoTurn' => NoTurn, live' = <<>>, returnable' = returnable \ ToSet(live),
         UNCHANGED <<pending, orphans, count>>
  PROVE  LeftInv'
<1>1. ToSet(live) \cap ToSet(pending) = {} /\ ToSet(live') = {}
  BY NothingQueued DEF MailInv, Apart
<1> QED
  BY <1>1 DEF LeftInv

\* The queue of the turn goes to the next turn's: at rest there is nothing in it.
LEMMA LeftDeferred ==
  ASSUME MailInv, LeftInv, NoTurn' => NoTurn, live' = <<>>, pending' = Deferred,
         UNCHANGED <<returnable, orphans, count>>
  PROVE  LeftInv'
<1>1. ToSet(Deferred) = ToSet(pending) \cup ToSet(live) /\ ToSet(live') = {}
  BY Joined, NothingQueued DEF MailInv, Apart, Tidy, Deferred
<1>2. live = <<>> => Deferred = pending
  BY ConcatEmptySeq DEF MailInv, Apart, Tidy, Deferred
<1> QED
  BY <1>1, <1>2 DEF LeftInv

LEMMA LeftSubmitted ==
  ASSUME SessionInv, LeftInv, phase \notin Working, NEW m, Submit(m)
  PROVE  LeftInv'
<1>1. NoTurn
  BY DEF SessionInv, TurnInv, Agrees, NoTurn
<1>2. live' = <<>> /\ pending' = <<>>
  BY <1>1 DEF Submit, LeftInv
<1> QED
  BY <1>2, NothingQueued DEF LeftInv

\* Messages go into a turn that is live.
LEMMA LeftInjected ==
  ASSUME KindInv, LeftInv, NEW S, root = "live", ToSet(live') = ToSet(live) \cup S,
         returnable' = returnable \cup S, UNCHANGED <<run, pending, orphans, count>>
  PROVE  LeftInv'
<1>1. ~NoTurn /\ NoTurn' = NoTurn
  BY DEF KindInv, NoTurn, Active
<1> QED
  BY <1>1 DEF LeftInv

LEMMA LeftHandedBack ==
  ASSUME MailInv, LeftInv, NoTurn' => NoTurn, TakeOrphans
  PROVE  LeftInv'
<1>1. pending \in Seq(Messages) /\ IsInjective(pending) /\ ToSet(pending) \subseteq Messages
  BY QueuedAreMessages DEF MailInv, Apart, Tidy
<1>2. /\ pending' = Filtered(pending, Messages \ returnable) /\ returnable' = returnable \ ToSet(pending)
      /\ UNCHANGED <<live, count>>
  BY DEF TakeOrphans, StillPending
<1>3. pending' \in Seq(Messages) /\ ToSet(pending') = ToSet(pending) \ returnable
  BY <1>1, <1>2, FilteredMembers
<1>4. count.stops = 0 => pending' = <<>>
  BY <1>3, SomeMember DEF LeftInv
<1>5. ToSet(live) \cap ToSet(pending) = {}
  BY DEF MailInv, Apart
<1> QED
  BY <1>2, <1>4, <1>5, NothingQueued DEF LeftInv

LEMMA LeftRun ==
  ASSUME MailInv, LeftInv, NoTurn' => NoTurn, NEW x \in Slots, RunStep(x), ~TurnEnds
  PROVE  LeftInv'
<1>1. CASE TopOfIteration(x) \/ BetweenTools(x)
  BY <1>1, LeftDrained DEF TopOfIteration, BetweenTools
<1>2. CASE Pump(x)
  BY <1>2, LeftDeferred DEF Pump
<1>3. CASE TriesAgain(x)
  BY <1>3, LeftSettled DEF TriesAgain
<1>4. ASSUME UNCHANGED <<mail, count>> PROVE LeftInv'
  BY <1>4, LeftAsIs DEF mail
<1>5. CASE BacksOff(x) \/ LeaveFanout(x) \/ \E f \in Fanouts : Dispatch(x, f) \/ Spawn(x, f)
  BY <1>4, <1>5 DEF BacksOff, LeaveFanout, Dispatch, Spawn
<1>6. ASSUME Finishes(x) \/ HitsLimit(x) \/ Cut(x) \/ Fails(x) \/ BackoffCut(x) PROVE LeftInv'
  <2>1. (Settle \/ UNCHANGED mail) /\ count' = count
    BY <1>6 DEF Finishes, HitsLimit, Cut, Fails, BackoffCut, Over
  <2> QED
    BY <1>4, <2>1, LeftSettled
<1> QED
  BY <1>1, <1>2, <1>3, <1>5, <1>6 DEF RunStep, RunEnds

LEMMA LeftTurnEnds ==
  ASSUME MailInv, LeftInv, TurnEnds
  PROVE  LeftInv'
<1>1. PICK x \in Active : /\ run[x].kind # "resume"
                          /\ Finishes(x) \/ HitsLimit(x) \/ Cut(x) \/ Fails(x) \/ BackoffCut(x)
  BY DEF TurnEnds
<1>2. Settle /\ count' = count
  BY <1>1 DEF Finishes, HitsLimit, Cut, Fails, BackoffCut, Over
<1> QED
  BY <1>2, LeftSettled

LEMMA LeftOwner ==
  ASSUME SessionInv, TypeInv, MailInv, KindInv, LeftInv, Connector = {}, crossed = 0, crossed' = 0,
         NoTurn' => NoTurn, OwnerStep \/ TerminalStep
  PROVE  LeftInv'
<1>1. count.stops \in Nat /\ DOMAIN count = {"retries", "dismissals", "continues", "stops", "fired"}
  BY DEF TypeInv, CountTyped
<1>2. ASSUME UNCHANGED <<live, pending, returnable, orphans>>, count'.stops = count.stops
      PROVE  LeftInv'
  BY <1>2, LeftAsIs
<1>3. ASSUME NEW m \in Composer, TypeAtRest(m) PROVE LeftInv'
  BY <1>2, <1>3, LeftSubmitted DEF TypeAtRest, SubmitLine, Rest, Working
<1>4. ASSUME NEW m \in Composer, TypeIntoTurn(m) PROVE LeftInv'
  <2>1. ToSet(live') = ToSet(live) \cup {m} /\ returnable' = returnable \cup {m}
    BY <1>4, Appended DEF TypeIntoTurn, Inject, MailInv, Apart, Tidy, Messages
  <2> QED
    BY <1>4, <2>1, LeftInjected DEF TypeIntoTurn, Inject, control
<1>5. ASSUME NEW m \in Composer, TypeAhead(m) \/ TypeToNobody(m) PROVE LeftInv'
  BY <1>2, <1>5 DEF TypeAhead, TypeToNobody, Enqueue
<1>6. CASE Interrupt \/ CancelAll
  <2>1. count'.stops = count.stops + 1 /\ live' = <<>>
    BY <1>1, <1>6 DEF Interrupt, CancelAll, Brake, Demote
  <2>2. count'.stops # 0
    BY <1>1, <2>1
  <2> QED
    BY <2>1, <2>2 DEF LeftInv
<1>7. CASE Retry \/ Dismiss \/ Continue
  BY <1>1, <1>2, <1>7 DEF Retry, Dismiss, Continue, mail
<1>8. CASE SubmitHead
  BY <1>2, <1>8, LeftSubmitted DEF SubmitHead, SubmitLine, Rest, Working
<1>9. CASE FeedTurn
  <2>1. PICK n \in 1 .. Len(tui) :
          live' = live \o SubSeq(tui, 1, n) /\ returnable' = returnable \cup ToSet(SubSeq(tui, 1, n))
    BY <1>9 DEF FeedTurn
  <2>2. SubSeq(tui, 1, n) \in Seq(Messages) /\ live \in Seq(Messages)
    BY Splits DEF MailInv, Apart, Tidy
  <2>3. ToSet(live') = ToSet(live) \cup ToSet(SubSeq(tui, 1, n))
    BY <2>1, <2>2, Joined
  <2> QED
    BY <1>9, <2>1, <2>3, LeftInjected DEF FeedTurn, control
<1>10. ASSUME NEW m \in Mentions, Resolved(m) \/ Refused(m) PROVE LeftInv'
  BY <1>2, <1>10, LeftSubmitted, NotCrossing DEF Resolved, Refused
<1> QED
  BY <1>3, <1>4, <1>5, <1>6, <1>7, <1>8, <1>9, <1>10, LeftHandedBack DEF OwnerStep, TerminalStep

LEMMA NextLeft ==
  ASSUME SessionInv, TypeInv, MailInv, KindInv, LeftInv, Connector = {}, crossed = 0, crossed' = 0,
         [Next]_vars
  PROVE  LeftInv'
<1>1. (NoTurn' => NoTurn) \/ TurnEnds
  BY NextKinds DEF KindGood
<1>2. CASE TurnEnds
  BY <1>2, LeftTurnEnds
<1>3. CASE ~TurnEnds
  <2>1. NoTurn' => NoTurn
    BY <1>1, <1>3
  <2>2. ASSUME UNCHANGED mail, count'.stops = count.stops PROVE LeftInv'
    BY <2>1, <2>2, LeftAsIs DEF mail
  <2>3. CASE MaybeWake \/ UNCHANGED vars \/ \E f \in Fanouts : Report(f) \/ Leave(f) \/ FanEnds(f)
    BY <2>2, <2>3 DEF MaybeWake, vars, Report, Leave, FanEnds
  <2>4. ASSUME NEW e \in Monitors, Fire(e) PROVE LeftInv'
    BY <2>2, <2>4 DEF Fire, TypeInv, CountTyped
  <2> QED
    BY <1>3, <2>1, <2>3, <2>4, LeftRun, LeftOwner DEF Next, Handler
<1> QED
  BY <1>2, <1>3

LEMMA InitLeft == Init => LeftInv
BY NothingQueued DEF Init, LeftInv

\* endTurnInjects, the finally of a turn, the pump of a fan-out and takeOrphanInjects move what the owner
\* typed between three queues.  With the owner at the terminal, and as long as nothing is stopped and
\* no message has been submitted over a turn, whenever no turn is at work the queue of the turn is
\* empty, and what waits for the next turn is marked as an orphan: nothing the owner typed can wait in
\* the controller for another message.
THEOREM NothingLeftBehind ==
  ASSUME Connector = {}
  PROVE  Spec => [](phase \notin Working /\ count.stops = 0 /\ crossed = 0
                      => live = <<>> /\ (pending # <<>> => orphans))
<1> DEFINE Inv == Uncrossed /\ TypeInv /\ MailInv /\ (crossed = 0 => KindInv /\ LeftInv)
<1>1. Init => Inv
  BY InitUncrossed, InitTypes, InitMail, InitKinds, InitLeft
<1>2. Inv /\ [Next]_vars => Inv'
  BY NextUncrossed, NextTypes, NextMail, NextKinds, NextLeft DEF Uncrossed, MailGood, KindGood
<1>3. Inv => (phase \notin Working /\ count.stops = 0 /\ crossed = 0
                => live = <<>> /\ (pending # <<>> => orphans))
  BY DEF LeftInv, NoTurn, Uncrossed, SessionInv, TurnInv, Agrees
<1> QED
  BY <1>1, <1>2, <1>3, PTL DEF Spec

-----------------------------------------------------------------------------
(* No wake-up is lost *)

\* The owner stopped something, or dismissed an error: what rests then may go unasked.
Excused == count.stops > 0 \/ count.dismissals > 0

\* A fan-out whose sub-agents work on without a turn, or that has yet to report: it will ask for a
\* wake-up itself.
WillAsk(f) == fan[f].at \in {"detached", "reporting"}

\* The queue is not left at rest with nobody to ask.  It rests on this: what keeps a wake-up from
\* happening at rest is a tree that a fan-out left, and a fan-out that has reported, but not left
\* its tree, has set the flag.
WakeInv ==
  /\ hardStopped => count.stops > 0
  /\ \A f, g \in Fanouts : Settling(f) /\ Settling(g) => f = g
  /\ \A f \in Fanouts : fan[f].at = "leaving" /\ due = "once" /\ phase \in Rest => flag \/ Excused
  /\ \A f \in Fanouts : fan[f].at = "over" => fan[f].tree = NoTree
  /\ queue # NoEvents /\ phase \in Rest /\ due = "no" => Excused \/ \E f \in Fanouts : WillAsk(f)

LEMMA WakeAtWork ==
  ASSUME WakeInv, phase' \notin Rest, fan' = fan, hardStopped' => hardStopped,
         count'.stops = count.stops
  PROVE  WakeInv'
BY DEF WakeInv, Settling

LEMMA WakeAsIs ==
  ASSUME WakeInv, UNCHANGED <<phase, queue, flag, due, fan, hardStopped, count>>
  PROVE  WakeInv'
BY DEF WakeInv, Settling, Excused, WillAsk

LEMMA WakeExcused ==
  ASSUME WakeInv, fan' = fan, Excused', hardStopped' => count'.stops > 0
  PROVE  WakeInv'
BY DEF WakeInv, Settling

\* Something asks for a wake-up while no fan-out is about to report or to leave.
LEMMA WakeAsked ==
  ASSUME WakeInv, Quiet, fan' = fan, UNCHANGED hardStopped, count'.stops = count.stops, due' # "no"
  PROVE  WakeInv'
BY DEF WakeInv, Settling, Quiet

LEMMA WakeOver ==
  ASSUME WakeInv, Quiet, NEW x, NEW p, Over(x, p)
  PROVE  WakeInv'
<1>1. CASE p \in Rest
  BY <1>1, WakeAsked DEF Over, DueAfter, fans
<1>2. CASE p \notin Rest
  BY <1>2, WakeAtWork DEF Over, fans
<1> QED
  BY <1>1, <1>2

LEMMA WakeRun ==
  ASSUME SessionInv, TypeInv, WakeInv, Quiet, NEW x \in Slots, RunStep(x)
  PROVE  WakeInv'
<1>1. (run[x].at # "off" => phase \notin Rest) /\ DOMAIN fan = Fanouts
  BY DEF SessionInv, TurnInv, Agrees, Active, Rest, Working, TypeInv, FansFit
<1>2. ASSUME TopOfIteration(x) \/ BetweenTools(x) \/ Pump(x) PROVE WakeInv'
  BY <1>1, <1>2, WakeAtWork DEF TopOfIteration, BetweenTools, Pump, fans, control
<1>3. ASSUME Finishes(x) \/ HitsLimit(x) \/ Cut(x) \/ Fails(x) \/ BackoffCut(x) PROVE WakeInv'
  BY <1>3, WakeOver DEF Finishes, HitsLimit, Cut, Fails, BackoffCut
<1>4. ASSUME BacksOff(x) PROVE WakeInv'
  BY <1>4, WakeAtWork DEF BacksOff, fans, Rest
<1>5. ASSUME TriesAgain(x) PROVE WakeInv'
  BY <1>5, WakeAtWork DEF TriesAgain, Begin, Rest
<1>6. ASSUME LeaveFanout(x) PROVE WakeInv'
  <2> DEFINE g == run[x].fan
  <2>1. phase' \notin Rest /\ UNCHANGED <<hardStopped, count>>
    BY <1>1, <1>6 DEF LeaveFanout
  <2>2. fan' = [fan EXCEPT ![g] = [at |-> "detached", tree |-> tree]]
    BY <1>6 DEF LeaveFanout, Detach
  <2> HIDE DEF g
  <2>3. \A f \in Fanouts : fan'[f] = fan[f] \/ fan'[f].at = "detached"
    BY <1>1, <2>2
  <2> QED
    BY <2>1, <2>3 DEF WakeInv, Settling
<1>7. ASSUME NEW g \in Fanouts, Dispatch(x, g) PROVE WakeInv'
  <2>1. phase' \notin Rest /\ UNCHANGED <<hardStopped, count>>
    BY <1>1, <1>7 DEF Dispatch, control
  <2>2. \A f \in Fanouts : fan'[f] = fan[f] \/ fan'[f].at = "detached"
    BY <1>1, <1>7 DEF Dispatch, Detach
  <2> QED
    BY <2>1, <2>2 DEF WakeInv, Settling
<1>8. ASSUME NEW g \in Fanouts, Spawn(x, g) PROVE WakeInv'
  <2>1. phase' \notin Rest /\ UNCHANGED <<hardStopped, count>>
    BY <1>1, <1>8 DEF Spawn
  <2>2. DOMAIN fan[g] = {"at", "tree"}
    BY DEF TypeInv, FansFit, FanTypes
  <2>3. \A f \in Fanouts : fan'[f] = fan[f] \/ fan'[f].at = "attached"
    BY <1>1, <1>8, <2>2 DEF Spawn
  <2> QED
    BY <2>1, <2>3 DEF WakeInv, Settling
<1> QED
  BY <1>2, <1>3, <1>4, <1>5, <1>6, <1>7, <1>8 DEF RunStep, RunEnds

LEMMA WakeFans ==
  ASSUME SessionInv, TypeInv, FanoutsHeld, KindInv, WakeInv, NEW f \in Fanouts,
         (Quiet /\ FanEnds(f)) \/ (due = "no" /\ (Report(f) \/ Leave(f)))
  PROVE  WakeInv'
<1>1. /\ DOMAIN fan = Fanouts /\ \A g \in Fanouts : DOMAIN fan[g] = {"at", "tree"}
      /\ UNCHANGED <<phase, flag, hardStopped, count>> /\ due = "no"
  BY DEF TypeInv, FansFit, FanTypes, FanEnds, Report, Leave, control, wakes, Quiet
<1>2. Excused' = Excused
  BY <1>1 DEF Excused
<1>3. CASE Quiet /\ FanEnds(f)
  <2>1. \A g \in Fanouts : ~Settling(g)
    BY <1>3 DEF Quiet
  <2>2. /\ \A g \in Fanouts \ {f} : fan'[g] = fan[g]
        /\ \/ fan'[f].at = "reporting"
           \/ /\ fan'[f].at = "over" /\ fan'[f].tree = fan[f].tree
              /\ \E x \in Slots : run[x].at = "fanout" /\ run[x].fan = f
    BY <1>1, <1>3 DEF FanEnds
  <2>3. fan'[f].at = "over" => fan'[f].tree = NoTree
    BY <2>2 DEF FanoutsHeld
  <2>4. \A g \in Fanouts : fan'[g].at # "leaving"
    BY <2>1, <2>2 DEF Settling
  <2>5. \A g, h \in Fanouts : Settling(g)' /\ Settling(h)' => g = h
    BY <2>1, <2>2 DEF Settling
  <2>6. hardStopped \/ due' # "no"
    BY <1>3 DEF FanEnds, Completed
  <2>7. due' = "no" => Excused'
    BY <1>2, <2>6 DEF WakeInv, Excused
  <2>8. \A g \in Fanouts : fan'[g].at = "over" => fan'[g].tree = NoTree
    BY <2>2, <2>3 DEF WakeInv
  <2>9. hardStopped' => count'.stops > 0
    BY <1>1 DEF WakeInv
  <2> QED
    BY <2>4, <2>5, <2>7, <2>8, <2>9 DEF WakeInv
<1>4. CASE Report(f)
  <2>1. /\ \A g \in Fanouts \ {f} : fan'[g] = fan[g]
        /\ fan[f].at = "reporting" /\ fan'[f].at = "leaving" /\ fan'[f].tree = fan[f].tree
    BY <1>1, <1>4 DEF Report
  <2>2. \A g \in Fanouts : fan[g].at = "leaving" => g = f
    BY <2>1 DEF WakeInv, Settling
  <2>3. \A g, h \in Fanouts : Settling(g)' /\ Settling(h)' => g = h
    BY <2>1 DEF WakeInv, Settling
  <2>4. hardStopped => Excused'
    BY <1>2 DEF WakeInv, Excused
  <2>5. root = "live" => phase \notin Rest
    BY DEF KindInv, NoTurn, SessionInv, TurnInv, Agrees, Rest, Working
  <2>6. hardStopped \/ due' = "twice" \/ (due' = "once" /\ phase' \notin Rest)
    BY <1>1, <1>4, <2>5 DEF Report
  <2>7. \A g \in Fanouts : fan'[g].at = "over" => fan'[g].tree = NoTree
    BY <2>1 DEF WakeInv
  <2>8. hardStopped' => count'.stops > 0
    BY <1>1 DEF WakeInv
  <2> QED
    BY <2>3, <2>4, <2>6, <2>7, <2>8 DEF WakeInv
<1>5. CASE Leave(f)
  <2>1. /\ \A g \in Fanouts \ {f} : fan'[g] = fan[g]
        /\ fan[f].at = "leaving" /\ fan'[f].at = "over" /\ fan'[f].tree = NoTree
        /\ UNCHANGED <<queue, due>>
    BY <1>1, <1>5 DEF Leave, data, wakes
  <2>2. \A g \in Fanouts : WillAsk(g) => WillAsk(g)'
    BY <2>1 DEF WillAsk
  <2>3. \A g, h \in Fanouts : Settling(g)' /\ Settling(h)' => g = h
    BY <2>1 DEF WakeInv, Settling
  <2>4. \A g \in Fanouts : fan'[g].at = "over" => fan'[g].tree = NoTree
    BY <2>1 DEF WakeInv
  <2>5. hardStopped' => count'.stops > 0
    BY <1>1 DEF WakeInv
  <2>6. due' = "no"
    BY <1>1, <2>1
  <2>7. queue' # NoEvents /\ phase' \in Rest => Excused' \/ \E g \in Fanouts : WillAsk(g)'
    BY <1>1, <1>2, <2>1, <2>2 DEF WakeInv
  <2> QED
    BY <2>3, <2>4, <2>5, <2>6, <2>7 DEF WakeInv
<1> QED
  BY <1>3, <1>4, <1>5

LEMMA WakeOwner ==
  ASSUME SessionInv, TypeInv, WakeInv, Quiet, OwnerStep \/ TerminalStep
  PROVE  WakeInv'
<1>1. ASSUME NEW m, Submit(m) PROVE WakeInv'
  BY <1>1, WakeAtWork DEF Submit, Begin, Rest
<1>2. ASSUME NEW m \in Composer, TypeAtRest(m) \/ TypeIntoTurn(m) \/ TypeAhead(m) \/ TypeToNobody(m)
      PROVE  WakeInv'
  BY <1>1, <1>2, WakeAsIs
     DEF TypeAtRest, SubmitLine, TypeIntoTurn, TypeAhead, TypeToNobody, control, data, wakes, fans
<1>3. count.stops \in Nat /\ count.dismissals \in Nat /\ DOMAIN count = {"retries", "dismissals", "continues", "stops", "fired"}
  BY DEF TypeInv, CountTyped
<1>4. CASE Interrupt \/ CancelAll
  <2>1. fan' = fan /\ count'.stops = count.stops + 1
    BY <1>3, <1>4 DEF Interrupt, CancelAll, Brake
  <2>2. count'.stops > 0
    BY <1>3, <2>1
  <2> QED
    BY <2>1, <2>2, WakeExcused DEF Excused
<1>5. CASE Retry
  BY <1>3, <1>5, WakeAtWork DEF Retry, Begin, Rest
<1>6. CASE Dismiss
  <2>1. UNCHANGED fans /\ count'.dismissals = count.dismissals + 1 /\ count'.stops = count.stops
    BY <1>3, <1>6 DEF Dismiss
  <2>2. count'.dismissals > 0
    BY <1>3, <2>1
  <2> QED
    BY <2>1, <2>2, WakeExcused DEF Excused, fans, WakeInv
<1>7. CASE Continue
  BY <1>3, <1>7, WakeAtWork DEF Continue, Rest, fans
<1>8. CASE SubmitHead
  BY <1>1, <1>8, WakeAsIs DEF SubmitHead, SubmitLine, control, data, wakes, fans
<1>9. CASE FeedTurn \/ TakeOrphans
  BY <1>9, WakeAsIs DEF FeedTurn, TakeOrphans, control, data, wakes, fans
<1>10. ASSUME NEW m \in Mentions, Resolved(m) \/ Refused(m) PROVE WakeInv'
  BY <1>1, <1>10, WakeAsIs DEF Resolved, Refused, control, data, wakes, fans
<1>11. ASSUME NEW m \in Connector, Receive(m) PROVE WakeInv'
  BY <1>1, <1>11, WakeAsked DEF Receive, fans
<1> QED
  BY <1>2, <1>4, <1>5, <1>6, <1>7, <1>8, <1>9, <1>10, <1>11 DEF OwnerStep, TerminalStep

\* The step it is all about: at rest, a wake-up that is asked for and does not happen, though there
\* are events, leaves a fan-out that will ask again.
LEMMA WakeTried ==
  ASSUME SessionInv, TypeInv, FanoutsHeld, KindInv, WakeInv, MaybeWake
  PROVE  WakeInv'
<1>1. CASE Wakes /\ queue # NoEvents
  BY <1>1, WakeAtWork DEF MaybeWake, Begin, Rest
<1>2. CASE ~(Wakes /\ queue # NoEvents)
  <2>1. /\ UNCHANGED <<phase, queue, fan, hardStopped, count>>
        /\ due' = IF due = "twice" THEN "once" ELSE "no"
        /\ flag' = (due = "twice" \/ (flag /\ ~Wakes)) /\ due \in {"once", "twice"}
    BY <1>2 DEF MaybeWake, TypeInv, EventsTyped
  <2>2. due' = "once" => flag'
    BY <2>1
  <2>3. ASSUME queue # NoEvents, phase \in Rest, due = "once"
        PROVE  Excused \/ \E f \in Fanouts : WillAsk(f)
    <3>1. ~waking
      BY <2>3 DEF KindInv, SessionInv, TurnInv, Agrees, Rest, Working
    <3>2. detached # {} /\ ~flag
      BY <1>2, <2>3, <3>1 DEF Wakes
    <3>3. PICK t \in detached, f \in Fanouts : fan[f].tree = t
      BY <3>2 DEF FanoutsHeld
    <3>4. fan[f].tree # NoTree
      BY <3>3 DEF TypeInv, FansFit, Trees, NoTree
    <3>5. fan[f].at \in {"detached", "reporting", "leaving"}
      BY <3>4 DEF TypeInv, FansFit, FanTypes, FanoutsHeld, WakeInv
    <3>6. fan[f].at = "leaving" => Excused
      BY <2>3, <3>2 DEF WakeInv
    <3> QED
      BY <3>5, <3>6 DEF WillAsk
  <2>4. Excused' = Excused /\ \A f \in Fanouts : WillAsk(f)' = WillAsk(f) /\ Settling(f)' = Settling(f)
    BY <2>1 DEF Excused, WillAsk, Settling
  <2>5. queue' # NoEvents /\ phase' \in Rest /\ due' = "no" => Excused' \/ \E f \in Fanouts : WillAsk(f)'
    BY <2>1, <2>3, <2>4
  <2> QED
    BY <2>1, <2>2, <2>4, <2>5 DEF WakeInv
<1> QED
  BY <1>1, <1>2

LEMMA NextWakes ==
  ASSUME SessionInv, TypeInv, FanoutsHeld, KindInv, WakeInv, [Next]_vars
  PROVE  WakeInv'
<1>1. ASSUME NEW e \in Monitors, Fire(e), Quiet PROVE WakeInv'
  <2>1. count'.stops = count.stops /\ due' # "no" /\ UNCHANGED <<fan, hardStopped>>
    BY <1>1 DEF Fire, fans, TypeInv, CountTyped
  <2> QED
    BY <1>1, <2>1, WakeAsked
<1>2. CASE UNCHANGED vars
  BY <1>2, WakeAsIs DEF vars, control, data, wakes, fans
<1> QED
  BY <1>1, <1>2, WakeTried, WakeRun, WakeFans, WakeOwner DEF Next, Handler

LEMMA InitWakes == Init => WakeInv
BY DEF Init, WakeInv, Settling

\* maybeWakeForMonitor is not asked by a timer, only by what happens: an event, a rest, a fan-out that
\* ends.  As long as no message has been submitted over a turn, no event stays in the queue at rest,
\* with no wake-up due, unless a fan-out is still to end or to report, and will ask; the owner stopped
\* something (what ends then asks no more); or the owner dismissed an error, which rests without asking.
THEOREM NoWakeUpLost ==
  Spec => [](queue # NoEvents /\ phase \in Rest /\ due = "no" /\ crossed = 0
               => \/ \E f \in Fanouts : fan[f].at \in {"detached", "reporting"}
                  \/ count.stops > 0 \/ count.dismissals > 0)
<1> DEFINE Inv == Uncrossed /\ TypeInv /\ FanoutsHeld /\ (crossed = 0 => KindInv /\ WakeInv)
<1>1. Init => Inv
  BY InitUncrossed, InitTypes, InitHeld, InitKinds, InitWakes
<1>2. Inv /\ [Next]_vars => Inv'
  BY NextUncrossed, NextTypes, NextHeld, NextKinds, NextWakes DEF Uncrossed, KindGood
<1>3. Inv => (queue # NoEvents /\ phase \in Rest /\ due = "no" /\ crossed = 0
                => \/ \E f \in Fanouts : fan[f].at \in {"detached", "reporting"}
                   \/ count.stops > 0 \/ count.dismissals > 0)
  BY DEF WakeInv, Excused, WillAsk
<1> QED
  BY <1>1, <1>2, <1>3, PTL DEF Spec
=============================================================================
