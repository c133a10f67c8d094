------------------------- MODULE EditJournal_proofs -------------------------
(***************************************************************************)
(* Proofs about EditJournal: the types, the line /undo and /redo move      *)
(* along, that the journal's edits and the store's blobs match, and what   *)
(* a rewind gives back.                                                    *)
(***************************************************************************)
EXTENDS EditJournal, Filtering_proofs, SequenceTheorems, FiniteSetTheorems, TLAPS

-----------------------------------------------------------------------------
(* Types *)

LEMMA NoneFacts ==
  /\ Rest \in [at : {"idle", "read", "sealed", "retain", "effect"},
               path : Paths \cup {None}, before : Files, after : Contents]
  /\ Edit(0, Rest) \in Entries
  /\ NoUndo \in [entry : Entries, at : Nat, go : BOOLEAN]
  /\ NoRewind \in [point : Nat, todo : SUBSET Entries]
  /\ NoUndo.at = 0
BY JournalAssumption DEF Rest, Edit, NoUndo, NoRewind, Entries, Contents, Files

LEMMA ContentsFacts ==
  /\ 0 \in Contents /\ 1 \in Contents
  /\ \A v \in Contents : v \in Nat /\ v \in Files /\ (v < MaxVersions => v + 1 \in Contents)
  /\ \A v \in Files : AsRead(v) \in Files
BY JournalAssumption DEF Contents, Files, AsRead

\* Disturbed points are points.
LEMMA DisturbType ==
  ASSUME TypeOK, NEW p, NEW C, Disturb(p, C)
  PROVE  points' \in Seq(Points)
<1>1. points \in Seq(Points) /\ Len(points) \in Nat /\ DOMAIN points = 1..Len(points)
      /\ \A c \in 1..Len(points) : points[c] \in Points
  BY LenProperties, ElementOfSeq DEF TypeOK
<1> DEFINE Less(r) == [r EXCEPT !.at = Restrict(@, DOMAIN @ \ {p})]
<1>2. \A r \in Points : Less(r) \in Points
  <2> SUFFICES ASSUME NEW r \in Points PROVE Less(r) \in Points
    OBVIOUS
  <2>1. PICK P \in SUBSET Paths : r.at \in [P -> Files]
    BY DEF Points
  <2>2. Restrict(r.at, DOMAIN r.at \ {p}) \in [P \ {p} -> Files]
    BY <2>1 DEF Restrict
  <2>3. Restrict(r.at, DOMAIN r.at \ {p}) \in UNION {[Q -> Files] : Q \in SUBSET Paths}
    BY <2>2
  <2> QED
    BY <2>3 DEF Points
<1> DEFINE e(c) == IF c \in C THEN Less(points[c]) ELSE points[c]
<1>3. points' = [c \in 1..Len(points) |-> e(c)]
  BY <1>1 DEF Disturb
<1>4. \A c \in 1..Len(points) : e(c) \in Points
  BY <1>1, <1>2
<1> HIDE DEF e
<1>5. [c \in 1..Len(points) |-> e(c)] \in Seq(Points)
  BY <1>1, <1>4, IsASeq
<1> QED
  BY <1>3, <1>5

LEMMA EntriesFacts ==
  ASSUME TypeOK
  PROVE  /\ Len(entries) \in Nat /\ DOMAIN entries = 1..Len(entries)
         /\ \A i \in DOMAIN entries : entries[i] \in Entries
         /\ Edits \subseteq Entries
         /\ Len(redoStack) \in Nat /\ DOMAIN redoStack = 1..Len(redoStack)
         /\ \A i \in DOMAIN redoStack : redoStack[i] \in Entries
<1>1. entries \in Seq(Entries) /\ redoStack \in Seq(Entries)
  BY DEF TypeOK
<1>2. /\ Len(entries) \in Nat /\ DOMAIN entries = 1..Len(entries)
      /\ Len(redoStack) \in Nat /\ DOMAIN redoStack = 1..Len(redoStack)
  BY <1>1, LenProperties
<1>3. /\ \A i \in DOMAIN entries : entries[i] \in Entries
      /\ \A i \in DOMAIN redoStack : redoStack[i] \in Entries
  BY <1>1, <1>2, ElementOfSeq
<1> QED
  BY <1>2, <1>3 DEF Edits, Range

\* What Evict leaves: all but entry i, in order.
LEMMA RemoveFacts ==
  ASSUME TypeOK, NEW i \in DOMAIN entries
  PROVE  LET r == RemoveAt(entries, i) IN
         /\ r \in Seq(Entries) /\ DOMAIN r = 1..(Len(entries) - 1)
         /\ \A k \in DOMAIN r : r[k] = IF k < i THEN entries[k] ELSE entries[k + 1]
<1> DEFINE n == Len(entries)
           s == SubSeq(entries, 1, i - 1)
           t == SubSeq(entries, i + 1, n)
<1>1. n \in Nat /\ i \in 1..n /\ \A k \in 1..n : entries[k] \in Entries
  BY EntriesFacts
<1>2. s \in Seq(Entries) /\ Len(s) = i - 1 /\ \A k \in 1..(i - 1) : s[k] = entries[k]
  <2>1. \A k \in 1..(i - 1) : entries[k] \in Entries
    BY <1>1
  <2>2. s \in Seq(Entries) /\ Len(s) = (IF 1 <= i - 1 THEN (i - 1) - 1 + 1 ELSE 0)
        /\ \A k \in 1..((i - 1) - 1 + 1) : s[k] = entries[1 + k - 1]
    BY <1>1, <2>1, SubSeqProperties
  <2> HIDE DEF s
  <2> QED
    BY <2>2, <1>1
<1>3. t \in Seq(Entries) /\ Len(t) = n - i /\ \A k \in 1..(n - i) : t[k] = entries[i + k]
  <2>1. \A k \in (i + 1)..n : entries[k] \in Entries
    BY <1>1
  <2>2. t \in Seq(Entries) /\ Len(t) = (IF i + 1 <= n THEN n - (i + 1) + 1 ELSE 0)
        /\ \A k \in 1..(n - (i + 1) + 1) : t[k] = entries[(i + 1) + k - 1]
    BY <1>1, <2>1, SubSeqProperties
  <2> HIDE DEF t, n
  <2> QED
    BY <2>2, <1>1
<1>4. /\ s \o t \in Seq(Entries) /\ Len(s \o t) = Len(s) + Len(t)
      /\ \A k \in 1..(Len(s) + Len(t)) :
           (s \o t)[k] = IF k <= Len(s) THEN s[k] ELSE t[k - Len(s)]
  <2> HIDE DEF s, t
  <2> QED
    BY <1>2, <1>3, ConcatProperties
<1>5. RemoveAt(entries, i) = s \o t
  BY DEF RemoveAt
<1>6. DOMAIN (s \o t) = 1..(n - 1)
  <2> HIDE DEF s, t
  <2>1. DOMAIN (s \o t) = 1..Len(s \o t)
    BY <1>4, LenProperties
  <2> HIDE DEF n
  <2> QED
    BY <2>1, <1>1, <1>2, <1>3, <1>4
<1>7. \A k \in 1..(n - 1) : (s \o t)[k] = IF k < i THEN entries[k] ELSE entries[k + 1]
  <2> HIDE DEF s, t, n
  <2> TAKE k \in 1..(n - 1)
  <2>1. (s \o t)[k] = IF k <= i - 1 THEN s[k] ELSE t[k - (i - 1)]
    BY <1>1, <1>2, <1>3, <1>4
  <2>2. CASE k < i
    BY <2>1, <2>2, <1>1, <1>2
  <2>3. CASE ~(k < i)
    <3>1. k - (i - 1) \in 1..(n - i) /\ i + (k - (i - 1)) = k + 1
      BY <2>3, <1>1
    <3> QED
      BY <2>1, <2>3, <3>1, <1>1, <1>3
  <2> QED
    BY <2>2, <2>3
<1> QED
  BY <1>4, <1>5, <1>6, <1>7

LEMMA KeptFacts ==
  ASSUME TypeOK
  PROVE  Kept \subseteq DOMAIN entries /\ Cardinality(Kept) \in Nat
<1>1. Kept \subseteq 1..Len(entries) /\ Len(entries) \in Nat
  BY EntriesFacts DEF Kept
<1>2. IsFiniteSet(1..Len(entries))
  BY <1>1, FS_Interval
<1>3. IsFiniteSet(Kept)
  BY <1>1, <1>2, FS_Subset
<1> QED
  BY <1>1, <1>3, EntriesFacts, FS_CardinalityType

LEMMA TypeInit == Init => TypeOK
<1> SUFFICES ASSUME Init PROVE TypeOK
  OBVIOUS
<1>1. <<>> \in Seq(Entries) /\ <<>> \in Seq(Points)
  BY EmptySeq
<1>2. disk \in [Paths -> Files]
  BY ContentsFacts DEF Init
<1>3. tool \in [Agents -> [at : {"idle", "read", "sealed", "retain", "effect"},
                           path : Paths \cup {None}, before : Files, after : Contents]]
  BY NoneFacts DEF Init
<1> QED
  BY <1>1, <1>2, <1>3, ContentsFacts, NoneFacts DEF Init, TypeOK

LEMMA GotoType ==
  ASSUME TypeOK, NEW a \in Agents, NEW q \in {"sealed", "retain", "effect"}, Goto(a, q)
  PROVE  tool' \in [Agents -> [at : {"idle", "read", "sealed", "retain", "effect"},
                      path : Paths \cup {None}, before : Files, after : Contents]]
BY DEF Goto, TypeOK

LEMMA ToolType ==
  ASSUME TypeOK, NEW a \in Agents, ToolStep(a)
  PROVE  TypeOK'
<1> DEFINE T == [at : {"idle", "read", "sealed", "retain", "effect"},
                 path : Paths \cup {None}, before : Files, after : Contents]
<1>0. tool[a] \in T /\ disk \in [Paths -> Files] /\ version \in Contents
  BY DEF TypeOK
<1>1. ASSUME NEW p \in Paths, ReadForEdit(a, p) PROVE TypeOK'
  <2>1. version' \in Contents /\ version + 1 \in Contents /\ disk[p] \in Files
    BY <1>0, <1>1, ContentsFacts DEF ReadForEdit
  <2>3. AsRead(disk[p]) \in Files
    BY <2>1, ContentsFacts
  <2>2. tool' \in [Agents -> T]
    BY <2>1, <2>3, <1>0, <1>1 DEF ReadForEdit, TypeOK
  <2> QED
    BY <2>1, <2>2, <1>1 DEF ReadForEdit, TypeOK, journalVars, undoVars, countVars, ghostVars
<1>2. CASE StartCommand(a)
  <2>1. tool' \in [Agents -> T]
    BY <1>2, NoneFacts DEF StartCommand, TypeOK, Rest
  <2> QED
    BY <2>1, <1>2 DEF StartCommand, TypeOK, journalVars, undoVars, ghostVars
<1>3. CASE PutBlob(a)
  <2>1. tool' \in [Agents -> T]
    BY <1>3, GotoType DEF PutBlob
  <2>2. commands' \in Nat /\ failures' \in Nat
    BY <1>3 DEF PutBlob, Fails, countVars, TypeOK
  <2>3. blobs' \subseteq Contents
    BY <1>0, <1>3 DEF PutBlob, TypeOK
  <2> QED
    BY <2>1, <2>2, <2>3, <1>3 DEF PutBlob, TypeOK, undoVars, ghostVars
<1>4. CASE Push(a)
  <2>1. tool' \in [Agents -> T]
    BY <1>4, GotoType DEF Push
  <2>2. commands' \in Nat /\ failures' \in Nat
    BY <1>4 DEF Push, Fails, countVars, TypeOK
  <2>3. Edit(seq, tool[a]) \in Entries
    BY <1>0 DEF Edit, Entries, TypeOK
  <2>4. entries' \in Seq(Entries)
    BY <2>3, <1>4, AppendProperties DEF Push, TypeOK
  <2>5. moved' \in BOOLEAN /\ swept' \in Contents /\ seq' \in Nat
    BY <1>4 DEF Push, EntriesMoved, TypeOK
  <2> QED
    BY <2>1, <2>2, <2>4, <2>5, <1>4 DEF Push, TypeOK, undoVars
<1>5. CASE Evict(a)
  <2>1. PICK i \in DOMAIN entries :
          /\ entries' = RemoveAt(entries, i) /\ DeleteBlob(entries[i])
          /\ Disturb(entries[i].path, PointsUpTo(entries[i].seq))
    BY <1>5 DEF Evict
  <2>2. entries' \in Seq(Entries)
    BY <2>1, RemoveFacts
  <2>3. points' \in Seq(Points)
    BY <2>1, DisturbType
  <2>4. blobs' \subseteq Contents
    BY <2>1 DEF DeleteBlob, TypeOK
  <2>5. moved' \in BOOLEAN /\ swept' \in Contents
    BY <1>5 DEF Evict, EntriesMoved, TypeOK
  <2> QED
    BY <2>2, <2>3, <2>4, <2>5, <1>5 DEF Evict, TypeOK, undoVars, countVars
<1>6. CASE Retain(a)
  <2>1. tool' \in [Agents -> T]
    BY <1>6, GotoType DEF Retain
  <2>2. PICK kept \in [1..Cardinality(Kept) -> Kept] :
          entries' = [i \in DOMAIN kept |-> entries[kept[i]]]
    BY <1>6 DEF Retain
  <2>3. entries' \in Seq(Entries)
    <3> DEFINE e(i) == entries[kept[i]]
               n == Cardinality(Kept)
    <3>1. n \in Nat /\ \A i \in 1..n : e(i) \in Entries
      BY <2>2, KeptFacts, EntriesFacts
    <3>2. entries' = [i \in 1..n |-> e(i)]
      BY <2>2
    <3> HIDE DEF e, n
    <3>3. [i \in 1..n |-> e(i)] \in Seq(Entries)
      BY <3>1, IsASeq
    <3> QED
      BY <3>2, <3>3
  <2>4. moved' \in BOOLEAN /\ swept' \in Contents
    BY <1>6 DEF Retain, EntriesMoved, ghostVars, TypeOK
  <2> QED
    BY <2>1, <2>3, <2>4, <1>6 DEF Retain, TypeOK, undoVars, countVars
<1>7. CASE Effect(a)
  <2>1. tool' \in [Agents -> T]
    BY <1>7, NoneFacts DEF Effect, TypeOK
  <2>2. disk' \in [Paths -> Files] /\ version' \in Contents
    BY <1>0, <1>7, ContentsFacts DEF Effect, TypeOK
  <2>3. points' \in Seq(Points)
    BY <1>7, DisturbType DEF Effect, TypeOK
  <2> QED
    BY <2>1, <2>2, <2>3, <1>7 DEF Effect, TypeOK, journalVars, undoVars, countVars, ghostVars
<1> QED
  BY <1>1, <1>2, <1>3, <1>4, <1>5, <1>6, <1>7 DEF ToolStep

\* Taking an edit back, with success or without.
LEMMA RestoreType ==
  ASSUME TypeOK, NEW e \in Entries, (Restore(e) /\ UNCHANGED countVars) \/ RestoreFails(e)
  PROVE  /\ disk' \in [Paths -> Files] /\ points' \in Seq(Points)
         /\ commands' \in Nat /\ failures' \in Nat
<1>1. CASE Restore(e) /\ UNCHANGED countVars
  <2>1. disk' \in [Paths -> Files]
    BY <1>1 DEF Restore, TypeOK, Entries
  <2>2. points' \in Seq(Points)
    BY <1>1, DisturbType DEF Restore
  <2> QED
    BY <2>1, <2>2, <1>1 DEF countVars, TypeOK
<1>2. CASE RestoreFails(e)
  BY <1>2 DEF RestoreFails, Fails, countVars, TypeOK
<1> QED
  BY <1>1, <1>2

LEMMA OwnerType ==
  ASSUME TypeOK, OwnerStep
  PROVE  TypeOK'
<1>1. CASE MarkPrompt
  <2> DEFINE P == IF \A a \in Agents : At(a, "idle") THEN Paths ELSE {}
             r == [seq |-> seq, at |-> Restrict(disk, P)]
  <2>1. P \in SUBSET Paths /\ Restrict(disk, P) \in [P -> Files]
    BY DEF Restrict, TypeOK
  <2>2. r \in Points
    <3> HIDE DEF P
    <3> QED
      BY <2>1 DEF Points, TypeOK
  <2>3. points' = Append(points, r)
    BY <1>1 DEF MarkPrompt
  <2>4. points' \in Seq(Points)
    <3> HIDE DEF r
    <3> QED
      BY <2>2, <2>3, AppendProperties DEF TypeOK
  <2> QED
    BY <2>4, <1>1 DEF MarkPrompt, TypeOK, journalVars, undoVars, countVars, ghostVars
<1>2. CASE Undo
  <2>1. PICK pos \in 0..Synced :
          /\ cursor' = pos + 1
          /\ undoing' = IF pos = 0 THEN NoUndo
                        ELSE [entry |-> entries[pos], at |-> pos,
                              go |-> armed \/ disk[entries[pos].path] = entries[pos].after]
    BY <1>2 DEF Undo
  <2>2. Synced \in Nat /\ Synced <= Len(entries)
    BY EntriesFacts DEF Synced, TypeOK
  <2>3. pos \in Nat /\ (pos # 0 => entries[pos] \in Entries)
    BY <2>1, <2>2, EntriesFacts
  <2>4. undoing' \in [entry : Entries, at : Nat, go : BOOLEAN]
    BY <2>1, <2>3, NoneFacts DEF TypeOK
  <2>5. cursor' \in Nat
    BY <2>1, <2>3
  <2>6. armed' \in BOOLEAN
    BY <1>2 DEF Undo
  <2> QED
    BY <2>4, <2>5, <2>6, <1>2 DEF Undo, TypeOK, journalVars, countVars, ghostVars
<1>3. CASE UndoEnds
  <2> DEFINE e == undoing.entry
  <2>1. e \in Entries /\ undoing.at \in Nat /\ undoing' \in [entry : Entries, at : Nat, go : BOOLEAN]
    BY <1>3, NoneFacts DEF UndoEnds, TypeOK
  <2>2. /\ disk' \in [Paths -> Files] /\ points' \in Seq(Points)
        /\ commands' \in Nat /\ failures' \in Nat
    <3>1. CASE UNCHANGED <<disk, points, cursor, redoStack, countVars>>
      BY <3>1 DEF TypeOK, countVars
    <3>2. CASE (Restore(e) /\ UNCHANGED countVars) \/ RestoreFails(e)
      <4> HIDE DEF e
      <4> QED
        BY <3>2, <2>1, RestoreType
    <3> QED
      BY <3>1, <3>2, <1>3 DEF UndoEnds
  <2>3. Append(redoStack, e) \in Seq(Entries)
    BY <2>1, AppendProperties DEF TypeOK
  <2>4. redoStack' \in Seq(Entries) /\ cursor' \in Nat /\ armed' \in BOOLEAN
    BY <2>1, <2>3, <1>3 DEF UndoEnds, TypeOK
  <2> HIDE DEF e
  <2> QED
    BY <2>1, <2>2, <2>4, <1>3 DEF UndoEnds, TypeOK, journalVars, ghostVars
<1>4. CASE Redo
  <2>1. CASE Redoable /\ Redo
    <3> DEFINE e == Last(redoStack)
    <3>1. e \in Entries /\ redoStack # <<>>
      BY <2>1, EntriesFacts DEF Redoable
    <3>2. Front(redoStack) \in Seq(Entries)
      <4>1. \A i \in 1..(Len(redoStack) - 1) : redoStack[i] \in Entries
        BY EntriesFacts
      <4> QED
        BY <4>1, EntriesFacts, SubSeqProperties DEF Front
    <3>3. /\ disk' \in [Paths -> Files] /\ points' \in Seq(Points)
      <4>1. CASE disk' = [disk EXCEPT ![e.path] = e.after] /\ Disturb(e.path, PointsAfter(e.seq))
        <5>1. disk' \in [Paths -> Files]
          BY <3>1, <4>1, ContentsFacts DEF TypeOK, Entries
        <5> QED
          BY <4>1, <5>1, DisturbType
      <4>2. CASE UNCHANGED <<disk, points>>
        BY <4>2 DEF TypeOK
      <4> QED
        BY <4>1, <4>2, <2>1 DEF Redo
    <3>4. redoStack' \in Seq(Entries)
      BY <2>1, <3>2 DEF Redo, TypeOK
    <3>5. cursor' \in Nat
      BY <2>1 DEF Redo, CursorForward, TypeOK
    <3>6. armed' \in BOOLEAN
      BY <2>1 DEF Redo
    <3>7. commands' \in Nat /\ failures' \in Nat
      BY <2>1 DEF Redo, Fails, countVars, TypeOK
    <3> HIDE DEF e
    <3> QED
      BY <3>3, <3>4, <3>5, <3>6, <3>7, <2>1 DEF Redo, TypeOK, journalVars, ghostVars
  <2>2. CASE ~Redoable /\ Redo
    BY <2>2 DEF Redo, TypeOK, journalVars, countVars, ghostVars
  <2> QED
    BY <1>4, <2>1, <2>2
<1>5. ASSUME NEW c \in DOMAIN points, Rewind(c) PROVE TypeOK'
  <2>1. FirstEdits(points[c].seq) \subseteq Entries
    BY EntriesFacts DEF FirstEdits
  <2>2. c \in Nat
    BY LenProperties DEF TypeOK
  <2> QED
    BY <2>1, <2>2, <1>5
      DEF Rewind, TypeOK, journalVars, undoVars, countVars, ghostVars
<1>6. CASE RewindFile
  <2>1. PICK e \in rewinding.todo :
          /\ rewinding' = IF rewinding.todo = {e} THEN NoRewind
                          ELSE [rewinding EXCEPT !.todo = @ \ {e}]
          /\ (Restore(e) /\ UNCHANGED countVars) \/ RestoreFails(e)
    BY <1>6 DEF RewindFile
  <2>2. e \in Entries /\ rewinding' \in [point : Nat, todo : SUBSET Entries]
    BY <2>1, NoneFacts DEF TypeOK
  <2>3. /\ disk' \in [Paths -> Files] /\ points' \in Seq(Points)
        /\ commands' \in Nat /\ failures' \in Nat
    BY <2>1, <2>2, RestoreType
  <2> QED
    BY <2>2, <2>3, <1>6 DEF RewindFile, TypeOK, journalVars, undoVars, ghostVars
<1>7. ASSUME NEW p \in Paths, OutsideWrite(p) PROVE TypeOK'
  <2>1. version' \in Contents
    BY <1>7, ContentsFacts DEF OutsideWrite, TypeOK
  <2>2. disk' \in [Paths -> Files]
    BY <1>7, <2>1, ContentsFacts DEF OutsideWrite, TypeOK
  <2>3. points' \in Seq(Points)
    BY <1>7, DisturbType DEF OutsideWrite
  <2> QED
    BY <2>1, <2>2, <2>3, <1>7 DEF OutsideWrite, TypeOK, journalVars, undoVars, countVars, ghostVars
<1>8. CASE SweptByOther
  BY <1>8 DEF SweptByOther, Fails, TypeOK, undoVars
<1> QED
  BY <1>1, <1>2, <1>3, <1>4, <1>5, <1>6, <1>7, <1>8 DEF OwnerStep

LEMMA TypeStep == TypeOK /\ [Next]_vars => TypeOK'
<1> SUFFICES ASSUME TypeOK, [Next]_vars PROVE TypeOK'
  OBVIOUS
<1>1. CASE UNCHANGED vars
  BY <1>1 DEF vars, TypeOK, journalVars, undoVars, countVars, ghostVars
<1> QED
  BY <1>1, ToolType, OwnerType DEF Next

\* Every state of EditJournal is of its types.
THEOREM TypesHold == Spec => []TypeOK
BY TypeInit, TypeStep, PTL DEF Spec
-----------------------------------------------------------------------------
(* The line of /undo and /redo *)

\* Before the first /undo nothing is undone. While the line holds, an /undo between its check
\* and its write is at the edit below the cursor.
StackInv ==
  /\ cursor = 0 => redoStack = <<>> /\ undoing = NoUndo
  /\ undoing # NoUndo => undoing.at # 0
  /\ cursor # 0 /\ ~moved /\ AllEdits =>
       /\ cursor - 1 + Len(redoStack) = Len(entries)
       /\ \A i \in DOMAIN redoStack : redoStack[i] = entries[Len(entries) + 1 - i]
       /\ undoing # NoUndo => undoing.at = cursor - 1 /\ undoing.entry = entries[undoing.at]

\* Nothing entered or left the journal, or the line is not spoken of.
LEMMA LineKept ==
  ASSUME StackInv, UNCHANGED undoVars,
         (UNCHANGED <<entries, moved>>) \/ (moved' = (moved \/ cursor # 0))
  PROVE  StackInv'
<1>1. CASE UNCHANGED <<entries, moved>>
  BY <1>1 DEF StackInv, AllEdits, undoVars
<1>2. CASE moved' = (moved \/ cursor # 0)
  BY <1>2 DEF StackInv, undoVars
<1> QED
  BY <1>1, <1>2

LEMMA StackInit == Init => StackInv
BY DEF Init, StackInv

LEMMA StackTool ==
  ASSUME StackInv, NEW a \in Agents, ToolStep(a)
  PROVE  StackInv'
<1>1. UNCHANGED undoVars
  BY DEF ToolStep, ReadForEdit, StartCommand, PutBlob, Push, Evict, Retain, Effect
<1>2. (UNCHANGED <<entries, moved>>) \/ (moved' = (moved \/ cursor # 0))
  BY DEF ToolStep, ReadForEdit, StartCommand, PutBlob, Push, Evict, Retain, Effect,
         journalVars, ghostVars, EntriesMoved
<1> QED
  BY <1>1, <1>2, LineKept

LEMMA StackUndo ==
  ASSUME TypeOK, StackInv, Undo
  PROVE  StackInv'
<1>1. PICK pos \in 0..Synced :
        /\ pos # 0 => IsEdit(entries[pos])
        /\ \A i \in (pos + 1)..Synced : ~IsEdit(entries[i])
        /\ cursor' = pos + 1
        /\ undoing' = IF pos = 0 THEN NoUndo
                      ELSE [entry |-> entries[pos], at |-> pos,
                            go |-> armed \/ disk[entries[pos].path] = entries[pos].after]
  BY DEF Undo
<1>2. Synced \in Nat /\ Synced <= Len(entries) /\ Len(entries) \in Nat /\ pos \in Nat
      /\ DOMAIN entries = 1..Len(entries)
  BY <1>1, EntriesFacts DEF Synced, TypeOK
<1>3. undoing' # NoUndo => undoing'.at = pos /\ undoing'.entry = entries[pos] /\ pos # 0
  BY <1>1
<1>4. UNCHANGED <<redoStack, entries, moved>> /\ undoing = NoUndo
  BY DEF Undo, journalVars, ghostVars, OwnerFree
<1>5. cursor' # 0 /\ cursor' - 1 = pos
  BY <1>1, <1>2
<1>6. ASSUME ~moved, AllEdits
      PROVE  /\ pos + Len(redoStack) = Len(entries)
             /\ \A i \in DOMAIN redoStack : redoStack[i] = entries[Len(entries) + 1 - i]
  <2>1. pos = Synced
    <3>1. SUFFICES ASSUME pos # Synced PROVE FALSE
      OBVIOUS
    <3>2. Synced \in (pos + 1)..Synced /\ Synced \in DOMAIN entries
      BY <1>1, <1>2, <3>1
    <3> QED
      BY <3>2, <1>1, <1>6 DEF AllEdits
  <2>2. CASE cursor = 0
    <3>1. redoStack = <<>> /\ Len(redoStack) = 0 /\ DOMAIN redoStack = {}
      BY <2>2 DEF StackInv
    <3> QED
      BY <2>1, <2>2, <3>1, <1>2 DEF Synced
  <2>3. CASE cursor # 0
    <3>1. /\ cursor - 1 + Len(redoStack) = Len(entries)
          /\ \A i \in DOMAIN redoStack : redoStack[i] = entries[Len(entries) + 1 - i]
      BY <2>3, <1>6 DEF StackInv
    <3>2. Synced = cursor - 1
      BY <2>3, <3>1, EntriesFacts DEF Synced, TypeOK
    <3> QED
      BY <2>1, <3>1, <3>2
  <2> QED
    BY <2>2, <2>3
<1>7. AllEdits' = AllEdits
  BY <1>4 DEF AllEdits
<1> QED
  BY <1>3, <1>4, <1>5, <1>6, <1>7 DEF StackInv

LEMMA StackUndoEnds ==
  ASSUME TypeOK, StackInv, UndoEnds
  PROVE  StackInv'
<1>1. UNCHANGED <<entries, moved>> /\ undoing' = NoUndo /\ undoing # NoUndo
  BY DEF UndoEnds, journalVars, ghostVars
<1>2. AllEdits' = AllEdits
  BY <1>1 DEF AllEdits
<1>3. CASE UNCHANGED <<cursor, redoStack>>
  BY <1>1, <1>2, <1>3 DEF StackInv
<1>4. CASE redoStack' = Append(redoStack, undoing.entry) /\ cursor' = undoing.at
  <2>1. undoing.at # 0 /\ cursor # 0 /\ undoing.entry \in Entries /\ undoing.at \in Nat
    BY <1>1 DEF StackInv, TypeOK
  <2>2. /\ Len(redoStack') = Len(redoStack) + 1 /\ DOMAIN redoStack' = 1..(Len(redoStack) + 1)
        /\ \A i \in 1..Len(redoStack) : redoStack'[i] = redoStack[i]
        /\ redoStack'[Len(redoStack) + 1] = undoing.entry
    BY <1>4, <2>1, AppendProperties, LenProperties DEF TypeOK
  <2>3. ASSUME ~moved, AllEdits
        PROVE  /\ cursor' - 1 + Len(redoStack') = Len(entries)
               /\ \A i \in DOMAIN redoStack' : redoStack'[i] = entries[Len(entries) + 1 - i]
    <3>1. /\ cursor - 1 + Len(redoStack) = Len(entries)
          /\ \A i \in DOMAIN redoStack : redoStack[i] = entries[Len(entries) + 1 - i]
          /\ undoing.at = cursor - 1 /\ undoing.entry = entries[undoing.at]
      BY <2>1, <2>3, <1>1 DEF StackInv
    <3> DEFINE n == Len(entries)
               k == Len(redoStack)
    <3>a. n \in Nat /\ k \in Nat /\ cursor \in Nat
      BY EntriesFacts DEF TypeOK
    <3>b. cursor' = cursor - 1 /\ Len(redoStack') = k + 1
      BY <1>4, <2>2, <3>1
    <3>2. cursor' - 1 + Len(redoStack') = n
      <4> HIDE DEF n, k
      <4> QED
        BY <3>a, <3>b, <3>1 DEF n, k
    <3>3. n + 1 - (k + 1) = undoing.at
      <4>1. cursor - 1 + k = n /\ undoing.at = cursor - 1
        BY <3>1
      <4> HIDE DEF n, k
      <4> QED
        BY <3>a, <4>1
    <3>4. \A i \in DOMAIN redoStack' : redoStack'[i] = entries[Len(entries) + 1 - i]
      <4> TAKE i \in DOMAIN redoStack'
      <4>1. CASE i = Len(redoStack) + 1
        BY <4>1, <3>3, <3>1, <2>2
      <4>2. CASE i # Len(redoStack) + 1
        <5>1. i \in 1..Len(redoStack) /\ i \in DOMAIN redoStack
          BY <4>2, <2>2, EntriesFacts
        <5> QED
          BY <5>1, <3>1, <2>2
      <4> QED
        BY <4>1, <4>2
    <3> QED
      BY <3>2, <3>4
  <2> QED
    BY <1>1, <1>2, <1>4, <2>1, <2>3 DEF StackInv
<1> QED
  BY <1>3, <1>4 DEF UndoEnds

LEMMA StackRedo ==
  ASSUME TypeOK, StackInv, Redo
  PROVE  StackInv'
<1>1. UNCHANGED <<entries, moved, undoing>> /\ undoing = NoUndo
  BY DEF Redo, journalVars, ghostVars, OwnerFree
<1>2. AllEdits' = AllEdits
  BY <1>1 DEF AllEdits
<1>3. CASE UNCHANGED <<cursor, redoStack>>
  BY <1>1, <1>2, <1>3 DEF StackInv
<1>4. CASE redoStack # <<>> /\ redoStack' = Front(redoStack) /\ CursorForward
  <2>1. cursor # 0 /\ cursor \in Nat /\ cursor' = cursor + 1
    BY <1>4 DEF StackInv, CursorForward, TypeOK
  <2>2. Len(redoStack) \in Nat \ {0}
    BY <1>4, EmptySeq DEF TypeOK
  <2>3. /\ Len(redoStack') = Len(redoStack) - 1 /\ DOMAIN redoStack' = 1..(Len(redoStack) - 1)
        /\ \A i \in 1..(Len(redoStack) - 1) : redoStack'[i] = redoStack[i]
    <3>1. \A i \in 1..(Len(redoStack) - 1) : redoStack[i] \in Entries
      BY EntriesFacts
    <3> DEFINE n == Len(redoStack) - 1
    <3>2. n \in Int /\ n >= 0
      BY <2>2
    <3>3. redoStack' = SubSeq(redoStack, 1, n)
      BY <1>4 DEF Front
    <3>4. /\ redoStack' \in Seq(Entries) /\ Len(redoStack') = (IF 1 <= n THEN n - 1 + 1 ELSE 0)
          /\ \A i \in 1..(n - 1 + 1) : redoStack'[i] = redoStack[1 + i - 1]
      <4> HIDE DEF n
      <4>1. \A i \in 1..n : redoStack[i] \in Entries
        BY <3>1 DEF n
      <4> QED
        BY <3>2, <3>3, <4>1, SubSeqProperties
    <3>5. Len(redoStack') = n /\ \A i \in 1..n : redoStack'[i] = redoStack[i]
      <4> HIDE DEF n
      <4> QED
        BY <3>2, <3>4
    <3>6. DOMAIN redoStack' = 1..Len(redoStack')
      BY <3>4, LenProperties
    <3> QED
      BY <3>5, <3>6
  <2>4. ASSUME ~moved, AllEdits
        PROVE  /\ cursor' - 1 + Len(redoStack') = Len(entries)
               /\ \A i \in DOMAIN redoStack' : redoStack'[i] = entries[Len(entries) + 1 - i]
    <3>1. /\ cursor - 1 + Len(redoStack) = Len(entries)
          /\ \A i \in DOMAIN redoStack : redoStack[i] = entries[Len(entries) + 1 - i]
      BY <2>1, <2>4 DEF StackInv
    <3>2. \A i \in DOMAIN redoStack' : i \in DOMAIN redoStack /\ redoStack'[i] = redoStack[i]
      BY <2>2, <2>3, EntriesFacts
    <3>3. cursor' - 1 + Len(redoStack') = Len(entries)
      BY <2>1, <2>2, <2>3, <3>1
    <3> QED
      BY <3>1, <3>2, <3>3
  <2>5. cursor' # 0
    BY <2>1
  <2> QED
    BY <1>1, <1>2, <2>4, <2>5 DEF StackInv
<1> QED
  BY <1>3, <1>4 DEF Redo, Redoable

LEMMA StackStep == TypeOK /\ StackInv /\ [Next]_vars => StackInv'
<1> SUFFICES ASSUME TypeOK, StackInv, [Next]_vars PROVE StackInv'
  OBVIOUS
<1>1. CASE UNCHANGED vars
  BY <1>1, LineKept DEF vars, journalVars, ghostVars
<1>2. ASSUME NEW a \in Agents, ToolStep(a) PROVE StackInv'
  BY <1>2, StackTool
<1>3. CASE OwnerStep
  <2>1. CASE MarkPrompt \/ (\E c \in DOMAIN points : Rewind(c)) \/ RewindFile
             \/ (\E p \in Paths : OutsideWrite(p)) \/ SweptByOther
    <3>1. UNCHANGED undoVars /\ UNCHANGED <<entries, moved>>
      BY <2>1 DEF MarkPrompt, Rewind, RewindFile, OutsideWrite, SweptByOther,
                  journalVars, ghostVars
    <3> QED
      BY <3>1, LineKept
  <2> QED
    BY <2>1, <1>3, StackUndo, StackUndoEnds, StackRedo DEF OwnerStep
<1> QED
  BY <1>1, <1>2, <1>3 DEF Next

\* While nothing enters or leaves the journal after the first /undo and no barrier is in it,
\* the redo stack is what lies above the cursor, the lowest last: undo and redo move along
\* one line, however many edits there are and whatever fails, asks or is forced.
THEOREM StackInStepHolds == Spec => []StackInStep
<1>1. Init => TypeOK /\ StackInv
  BY TypeInit, StackInit
<1>2. TypeOK /\ StackInv /\ [Next]_vars => (TypeOK /\ StackInv)'
  BY TypeStep, StackStep
<1>3. TypeOK /\ StackInv => StackInStep
  BY DEF StackInv, StackInStep
<1> QED
  BY <1>1, <1>2, <1>3, PTL DEF Spec
-----------------------------------------------------------------------------
(* Edits and blobs *)

\* A capture that has read its file and has no entry yet.
Pending(a) == tool[a].at \in {"read", "sealed"} /\ tool[a].path # None

\* The contents made are all different and none is from the future, so that the blob one edit
\* takes with it is no other's; a capture that is sealed has its blob.
BlobInv ==
  /\ \A i \in DOMAIN entries : entries[i].after <= version
  /\ \A a \in Agents : tool[a].after <= version /\ (At(a, "read") => tool[a].path # None)
  /\ \A i, j \in DOMAIN entries :
       IsEdit(entries[i]) /\ IsEdit(entries[j]) /\ entries[i].after = entries[j].after => i = j
  /\ \A a \in Agents : Pending(a) =>
       /\ \A i \in DOMAIN entries : IsEdit(entries[i]) => entries[i].after # tool[a].after
       /\ \A b \in Agents : Pending(b) /\ tool[b].after = tool[a].after => b = a
  /\ \A i \in DOMAIN entries :
       IsEdit(entries[i]) /\ entries[i].after > swept => entries[i].after \in blobs
  /\ \A a \in Agents : At(a, "sealed") /\ Pending(a) /\ tool[a].after > swept
                         => tool[a].after \in blobs
  /\ \A b \in blobs :
       \/ \E i \in DOMAIN entries : IsEdit(entries[i]) /\ entries[i].after = b
       \/ \E a \in Agents : At(a, "sealed") /\ Pending(a) /\ tool[a].after = b

LEMMA BlobInit == Init => BlobInv
<1> SUFFICES ASSUME Init PROVE BlobInv
  OBVIOUS
<1>1. entries = <<>> /\ DOMAIN entries = {} /\ blobs = {} /\ version = 1
  BY DEF Init
<1>2. \A a \in Agents : tool[a] = Rest
  BY DEF Init
<1>3. Rest.at = "idle" /\ Rest.after = 0
  BY DEF Rest
<1> QED
  BY <1>1, <1>2, <1>3 DEF BlobInv, At, Pending

\* The contents' numbers, as numbers.
LEMMA AfterFacts ==
  ASSUME TypeOK
  PROVE  /\ \A a \in Agents : tool[a].after \in Nat
         /\ \A i \in DOMAIN entries : entries[i].after \in Nat
         /\ version \in Nat /\ swept \in Nat
BY EntriesFacts DEF TypeOK, Entries, Contents

\* The steps that leave journal, store and tools alone.
LEMMA BlobSame ==
  ASSUME TypeOK, BlobInv, UNCHANGED <<entries, tool, blobs, swept>>,
         version' \in Nat, version <= version'
  PROVE  BlobInv'
<1>1. \A i \in DOMAIN entries : entries[i].after <= version'
  BY AfterFacts DEF BlobInv
<1>2. \A a \in Agents : tool[a].after <= version' /\ (At(a, "read") => tool[a].path # None)
  BY AfterFacts DEF BlobInv
<1> QED
  BY <1>1, <1>2 DEF BlobInv, At, Pending

\* A tool goes on where it has no capture pending: it rests, or its entry is made.
LEMMA BlobOn ==
  ASSUME TypeOK, BlobInv, NEW a \in Agents, UNCHANGED <<entries, blobs, swept>>,
         version' \in Nat, version <= version',
         NEW t, tool' = [tool EXCEPT ![a] = t], t.after \in Nat, t.after <= version,
         t.at \in {"idle", "effect"} \/ (t.at = "sealed" /\ t.path = None),
         At(a, "sealed") => tool[a].path = None
  PROVE  BlobInv'
<1>1. \A b \in Agents : tool'[b] = IF b = a THEN t ELSE tool[b]
  BY DEF TypeOK
<1>2. \A b \in Agents : Pending(b)' => b # a /\ Pending(b) /\ tool'[b] = tool[b]
  BY <1>1 DEF Pending
<1>3. \A b \in Agents : At(b, "sealed") /\ Pending(b) => At(b, "sealed")' /\ Pending(b)'
                          /\ tool'[b] = tool[b]
  BY <1>1 DEF Pending, At
<1>4. \A b \in Agents : tool'[b].after <= version'
  BY <1>1, AfterFacts DEF BlobInv
<1>5. \A b \in Agents : At(b, "read")' => tool'[b].path # None
  BY <1>1 DEF At, BlobInv
<1>6. \A i \in DOMAIN entries : entries[i].after <= version'
  BY AfterFacts DEF BlobInv
<1>7. \A b \in Agents : At(b, "sealed")' /\ Pending(b)' /\ tool'[b].after > swept
                          => tool'[b].after \in blobs
  BY <1>1, <1>2 DEF BlobInv, At
<1>8. \A b \in Agents : Pending(b)' =>
        /\ \A i \in DOMAIN entries : IsEdit(entries[i]) => entries[i].after # tool'[b].after
        /\ \A c \in Agents : Pending(c)' /\ tool'[c].after = tool'[b].after => c = b
  BY <1>2 DEF BlobInv
<1>9. \A b \in blobs :
        \/ \E i \in DOMAIN entries : IsEdit(entries[i]) /\ entries[i].after = b
        \/ \E c \in Agents : At(c, "sealed")' /\ Pending(c)' /\ tool'[c].after = b
  BY <1>3 DEF BlobInv
<1>10. /\ \A i, j \in DOMAIN entries :
            IsEdit(entries[i]) /\ IsEdit(entries[j]) /\ entries[i].after = entries[j].after => i = j
       /\ \A i \in DOMAIN entries :
            IsEdit(entries[i]) /\ entries[i].after > swept => entries[i].after \in blobs
  BY DEF BlobInv
<1> QED
  BY <1>4, <1>5, <1>6, <1>7, <1>8, <1>9, <1>10 DEF BlobInv

LEMMA BlobRead ==
  ASSUME TypeOK, BlobInv, NEW a \in Agents, NEW p \in Paths, ReadForEdit(a, p)
  PROVE  BlobInv'
<1>1. \A b \in Agents : tool'[b] = IF b = a THEN [at |-> "read", path |-> p,
                          before |-> AsRead(disk[p]), after |-> version + 1] ELSE tool[b]
  BY DEF ReadForEdit, TypeOK
<1>2. UNCHANGED <<entries, blobs, swept>> /\ version' = version + 1 /\ At(a, "idle") /\ p # None
  BY JournalAssumption DEF ReadForEdit, journalVars, ghostVars
<1>3. /\ tool'[a].at = "read" /\ tool'[a].path # None /\ tool'[a].after = version + 1
      /\ \A b \in Agents \ {a} : tool'[b] = tool[b]
  BY <1>1, <1>2
<1>4. \A i \in DOMAIN entries : entries[i].after <= version /\ entries[i].after \in Nat
  BY AfterFacts DEF BlobInv
<1>5. \A b \in Agents : tool[b].after <= version /\ tool[b].after \in Nat
  BY AfterFacts DEF BlobInv
<1>6. version \in Nat
  BY AfterFacts
<1>7. \A b \in Agents : tool'[b].after <= version'
  BY <1>2, <1>3, <1>5, <1>6
<1>8. \A i \in DOMAIN entries : entries[i].after <= version'
  BY <1>2, <1>4, <1>6
<1>9. \A b \in Agents : At(b, "read")' => tool'[b].path # None
  BY <1>3 DEF At, BlobInv
<1>10. \A b \in Agents : At(b, "sealed")' /\ Pending(b)' =>
         b # a /\ At(b, "sealed") /\ Pending(b) /\ tool'[b] = tool[b]
  BY <1>3 DEF At, Pending
<1>11. \A b \in Agents : At(b, "sealed") /\ Pending(b) => At(b, "sealed")' /\ Pending(b)'
                           /\ tool'[b] = tool[b]
  BY <1>2, <1>3 DEF At, Pending
<1>12. \A b \in Agents : Pending(b)' =>
         /\ \A i \in DOMAIN entries : IsEdit(entries[i]) => entries[i].after # tool'[b].after
         /\ \A c \in Agents : Pending(c)' /\ tool'[c].after = tool'[b].after => c = b
  <2>1. \A b \in Agents \ {a} : Pending(b)' => Pending(b)
    BY <1>3 DEF Pending
  <2>2. \A i \in DOMAIN entries : entries[i].after # tool'[a].after
    BY <1>3, <1>4, <1>6
  <2>3. \A b \in Agents \ {a} : tool'[b].after # tool'[a].after
    BY <1>3, <1>5, <1>6
  <2>4. \A b, c \in Agents \ {a} : Pending(b)' /\ Pending(c)' /\ tool'[c].after = tool'[b].after
                                     => c = b
    BY <2>1, <1>3 DEF BlobInv
  <2>5. \A b \in Agents \ {a} : Pending(b)' => \A i \in DOMAIN entries :
                                  IsEdit(entries[i]) => entries[i].after # tool'[b].after
    BY <2>1, <1>3 DEF BlobInv
  <2> QED
    BY <2>2, <2>3, <2>4, <2>5
<1>13. \A b \in blobs :
         \/ \E i \in DOMAIN entries : IsEdit(entries[i]) /\ entries[i].after = b
         \/ \E c \in Agents : At(c, "sealed")' /\ Pending(c)' /\ tool'[c].after = b
  BY <1>11 DEF BlobInv
<1>14. \A b \in Agents : At(b, "sealed")' /\ Pending(b)' /\ tool'[b].after > swept
                           => tool'[b].after \in blobs
  BY <1>10 DEF BlobInv
<1>15. /\ \A i, j \in DOMAIN entries :
            IsEdit(entries[i]) /\ IsEdit(entries[j]) /\ entries[i].after = entries[j].after => i = j
       /\ \A i \in DOMAIN entries :
            IsEdit(entries[i]) /\ entries[i].after > swept => entries[i].after \in blobs
  BY DEF BlobInv
<1> QED
  BY <1>2, <1>7, <1>8, <1>9, <1>12, <1>13, <1>14, <1>15 DEF BlobInv

LEMMA BlobSealed ==
  ASSUME TypeOK, BlobInv, NEW a \in Agents, At(a, "read"), Goto(a, "sealed"),
         blobs' = blobs \cup {tool[a].after}, UNCHANGED <<version, entries, swept>>
  PROVE  BlobInv'
<1>1. /\ tool'[a].at = "sealed" /\ tool'[a].path = tool[a].path /\ tool'[a].after = tool[a].after
      /\ \A b \in Agents \ {a} : tool'[b] = tool[b]
  BY DEF Goto, TypeOK
<1>2. Pending(a) /\ Pending(a)' /\ At(a, "sealed")' /\ ~At(a, "sealed")
  BY <1>1 DEF At, Pending, BlobInv
<1>3. \A b \in Agents : /\ Pending(b)' = Pending(b) /\ tool'[b].after = tool[b].after
                        /\ At(b, "read")' => At(b, "read")
                        /\ tool'[b].path = tool[b].path
  BY <1>1, <1>2 DEF At, Pending
<1>4. \A b \in Agents \ {a} : At(b, "sealed")' = At(b, "sealed")
  BY <1>1 DEF At
<1>5. \A b \in Agents : At(b, "sealed") => At(b, "sealed")'
  BY <1>2, <1>4
<1>6. \A b \in blobs' :
        \/ \E i \in DOMAIN entries : IsEdit(entries[i]) /\ entries[i].after = b
        \/ \E c \in Agents : At(c, "sealed")' /\ Pending(c)' /\ tool'[c].after = b
  BY <1>2, <1>3, <1>5 DEF BlobInv
<1>7. \A b \in Agents : At(b, "sealed")' /\ Pending(b)' /\ tool'[b].after > swept
                          => tool'[b].after \in blobs'
  BY <1>1, <1>3, <1>4 DEF BlobInv
<1>8. \A i \in DOMAIN entries :
        IsEdit(entries[i]) /\ entries[i].after > swept => entries[i].after \in blobs'
  BY DEF BlobInv
<1>9. \A b \in Agents : tool'[b].after <= version /\ (At(b, "read")' => tool'[b].path # None)
  BY <1>3 DEF BlobInv
<1>10. \A b \in Agents : Pending(b)' =>
         /\ \A i \in DOMAIN entries : IsEdit(entries[i]) => entries[i].after # tool'[b].after
         /\ \A c \in Agents : Pending(c)' /\ tool'[c].after = tool'[b].after => c = b
  BY <1>3 DEF BlobInv
<1> QED
  BY <1>6, <1>7, <1>8, <1>9, <1>10 DEF BlobInv

\* The entry takes over the blob of its capture.
LEMMA BlobPush ==
  ASSUME TypeOK, BlobInv, NEW a \in Agents, Push(a)
  PROVE  BlobInv'
<1> DEFINE n == Len(entries)
           e == Edit(seq, tool[a])
<1>1. e \in Entries /\ e.after = tool[a].after /\ e.path = tool[a].path
  BY DEF Edit, Entries, TypeOK
<1>2. n \in Nat /\ DOMAIN entries = 1..n /\ DOMAIN entries' = 1..(n + 1)
      /\ (\A i \in 1..n : entries'[i] = entries[i]) /\ entries'[n + 1] = e
  <2>1. entries \in Seq(Entries) /\ entries' = Append(entries, e)
    BY DEF TypeOK, Push
  <2>2. /\ entries' \in Seq(Entries) /\ Len(entries') = Len(entries) + 1
        /\ (\A i \in 1..Len(entries) : entries'[i] = entries[i])
        /\ entries'[Len(entries) + 1] = e
    <3> HIDE DEF e
    <3> QED
      BY <1>1, <2>1, AppendProperties
  <2> QED
    BY <2>1, <2>2, LenProperties
<1> HIDE DEF n, e
<1>3. UNCHANGED <<blobs, swept, version>> /\ At(a, "sealed")
  BY DEF Push, EntriesMoved
<1>4. \E q \in {"retain", "effect"} : Goto(a, q)
  BY DEF Push
<1>5. /\ tool'[a].at \in {"retain", "effect"} /\ tool'[a].after = tool[a].after
      /\ \A b \in Agents \ {a} : tool'[b] = tool[b]
  BY <1>4 DEF Goto, TypeOK
<1>6. \A b \in Agents : Pending(b)' => b # a /\ Pending(b) /\ tool'[b] = tool[b]
  BY <1>5 DEF Pending
<1>7. IsEdit(e) => Pending(a) /\ e.after = tool[a].after
  BY <1>1, <1>3 DEF Pending, At, IsEdit
<1>8. \A i \in 1..(n + 1) : i \in 1..n \/ i = n + 1
  BY <1>2
<1>9. \A i \in DOMAIN entries' : entries'[i].after <= version
  BY <1>1, <1>2, <1>8 DEF BlobInv
<1>10. \A b \in Agents : tool'[b].after <= version /\ (At(b, "read")' => tool'[b].path # None)
  BY <1>5 DEF BlobInv, At
<1>11. \A i, j \in DOMAIN entries' :
         IsEdit(entries'[i]) /\ IsEdit(entries'[j]) /\ entries'[i].after = entries'[j].after => i = j
  <2>1. \A i, j \in 1..n :
          IsEdit(entries[i]) /\ IsEdit(entries[j]) /\ entries[i].after = entries[j].after => i = j
    BY <1>2 DEF BlobInv
  <2>2. \A i \in 1..n : IsEdit(entries[i]) /\ IsEdit(e) => entries[i].after # e.after
    BY <1>2, <1>7 DEF BlobInv
  <2> QED
    BY <2>1, <2>2, <1>2, <1>8
<1>12. \A b \in Agents : Pending(b)' =>
         /\ \A i \in DOMAIN entries' : IsEdit(entries'[i]) => entries'[i].after # tool'[b].after
         /\ \A c \in Agents : Pending(c)' /\ tool'[c].after = tool'[b].after => c = b
  <2> SUFFICES ASSUME NEW b \in Agents, Pending(b)'
               PROVE  /\ \A i \in DOMAIN entries' : IsEdit(entries'[i])
                                                    => entries'[i].after # tool'[b].after
                      /\ \A c \in Agents : Pending(c)' /\ tool'[c].after = tool'[b].after => c = b
    OBVIOUS
  <2>1. b # a /\ Pending(b) /\ tool'[b] = tool[b]
    BY <1>6
  <2>2. \A i \in 1..n : IsEdit(entries[i]) => entries[i].after # tool[b].after
    BY <2>1, <1>2 DEF BlobInv
  <2>3. IsEdit(e) => e.after # tool[b].after
    BY <2>1, <1>7 DEF BlobInv
  <2>4. \A c \in Agents : Pending(c)' /\ tool'[c].after = tool'[b].after => c = b
    BY <2>1, <1>6 DEF BlobInv
  <2> QED
    BY <2>1, <2>2, <2>3, <2>4, <1>2, <1>8
<1>13. \A i \in DOMAIN entries' :
         IsEdit(entries'[i]) /\ entries'[i].after > swept => entries'[i].after \in blobs
  <2>1. \A i \in 1..n : IsEdit(entries[i]) /\ entries[i].after > swept => entries[i].after \in blobs
    BY <1>2 DEF BlobInv
  <2>2. IsEdit(e) /\ e.after > swept => e.after \in blobs
    BY <1>3, <1>7 DEF BlobInv
  <2> QED
    BY <2>1, <2>2, <1>2, <1>8
<1>14. \A b \in Agents : At(b, "sealed")' /\ Pending(b)' /\ tool'[b].after > swept
                           => tool'[b].after \in blobs
  BY <1>6 DEF BlobInv, At
<1>15. \A b \in blobs :
         \/ \E i \in DOMAIN entries' : IsEdit(entries'[i]) /\ entries'[i].after = b
         \/ \E c \in Agents : At(c, "sealed")' /\ Pending(c)' /\ tool'[c].after = b
  <2> SUFFICES ASSUME NEW b \in blobs
               PROVE  \/ \E i \in DOMAIN entries' : IsEdit(entries'[i]) /\ entries'[i].after = b
                      \/ \E c \in Agents : At(c, "sealed")' /\ Pending(c)' /\ tool'[c].after = b
    OBVIOUS
  <2>1. CASE \E i \in DOMAIN entries : IsEdit(entries[i]) /\ entries[i].after = b
    <3>1. PICK i \in 1..n : IsEdit(entries[i]) /\ entries[i].after = b
      BY <2>1, <1>2
    <3>2. i \in DOMAIN entries' /\ entries'[i] = entries[i]
      BY <3>1, <1>2
    <3> QED
      BY <3>1, <3>2
  <2>2. CASE \E c \in Agents : At(c, "sealed") /\ Pending(c) /\ tool[c].after = b
    <3>1. PICK c \in Agents : At(c, "sealed") /\ Pending(c) /\ tool[c].after = b
      BY <2>2
    <3>2. CASE c = a
      <4>1. IsEdit(e) /\ e.after = b
        BY <3>1, <3>2, <1>1 DEF Pending, IsEdit
      <4> QED
        BY <4>1, <1>2
    <3>3. CASE c # a
      BY <3>1, <3>3, <1>5 DEF At, Pending
    <3> QED
      BY <3>2, <3>3
  <2> QED
    BY <2>1, <2>2 DEF BlobInv
<1> QED
  BY <1>3, <1>9, <1>10, <1>11, <1>12, <1>13, <1>14, <1>15 DEF BlobInv

\* Retention keeps some entries; the blobs of the edits it does not keep go, no others.
LEMMA BlobSelect ==
  ASSUME TypeOK, BlobInv, NEW D, DOMAIN entries' = D, NEW g \in [D -> DOMAIN entries],
         \A k, l \in D : g[k] = g[l] => k = l,
         \A k \in D : entries'[k] = entries[g[k]],
         \A b \in Agents : /\ Pending(b)' = Pending(b) /\ tool'[b].after = tool[b].after
                           /\ At(b, "sealed")' = At(b, "sealed")
                           /\ tool'[b].path = tool[b].path /\ (At(b, "read")' => At(b, "read")),
         UNCHANGED <<version, swept>>,
         blobs' = blobs \ {entries[i].after : i \in {j \in DOMAIN entries :
                             IsEdit(entries[j]) /\ \A k \in D : g[k] # j}}
  PROVE  BlobInv'
<1> DEFINE Gone == {j \in DOMAIN entries : IsEdit(entries[j]) /\ \A k \in D : g[k] # j}
<1>1. \A k \in D : g[k] \in DOMAIN entries /\ g[k] \notin Gone
  OBVIOUS
<1>2. \A i \in Gone : i \in DOMAIN entries /\ IsEdit(entries[i])
  OBVIOUS
<1>3. \A i \in DOMAIN entries : IsEdit(entries[i]) /\ i \notin Gone => \E k \in D : g[k] = i
  OBVIOUS
<1>4. \A b : b \in blobs' <=> b \in blobs /\ \A i \in Gone : entries[i].after # b
  OBVIOUS
<1> HIDE DEF Gone
<1>5. \A k \in D : entries'[k].after <= version
  BY <1>1 DEF BlobInv
<1>6. \A b \in Agents : tool'[b].after <= version /\ (At(b, "read")' => tool'[b].path # None)
  BY DEF BlobInv
<1>7. \A k, l \in D :
        IsEdit(entries'[k]) /\ IsEdit(entries'[l]) /\ entries'[k].after = entries'[l].after => k = l
  <2> SUFFICES ASSUME NEW k \in D, NEW l \in D, IsEdit(entries'[k]), IsEdit(entries'[l]),
                      entries'[k].after = entries'[l].after
               PROVE  k = l
    OBVIOUS
  <2>1. g[k] = g[l]
    BY <1>1 DEF BlobInv
  <2> QED
    BY <2>1
<1>8. \A b \in Agents : Pending(b)' =>
        /\ \A k \in D : IsEdit(entries'[k]) => entries'[k].after # tool'[b].after
        /\ \A c \in Agents : Pending(c)' /\ tool'[c].after = tool'[b].after => c = b
  BY <1>1 DEF BlobInv
<1>9. \A k \in D : IsEdit(entries'[k]) /\ entries'[k].after > swept => entries'[k].after \in blobs'
  <2> SUFFICES ASSUME NEW k \in D, IsEdit(entries'[k]), entries'[k].after > swept
               PROVE  entries'[k].after \in blobs'
    OBVIOUS
  <2>1. entries[g[k]].after \in blobs /\ IsEdit(entries[g[k]])
    BY <1>1 DEF BlobInv
  <2>2. \A i \in Gone : entries[i].after # entries[g[k]].after
    BY <1>1, <1>2, <2>1 DEF BlobInv
  <2> QED
    BY <1>4, <2>1, <2>2
<1>10. \A b \in Agents : At(b, "sealed")' /\ Pending(b)' /\ tool'[b].after > swept
                           => tool'[b].after \in blobs'
  <2> SUFFICES ASSUME NEW b \in Agents, At(b, "sealed")', Pending(b)', tool'[b].after > swept
               PROVE  tool'[b].after \in blobs'
    OBVIOUS
  <2>1. At(b, "sealed") /\ Pending(b) /\ tool[b].after > swept /\ tool'[b].after = tool[b].after
    OBVIOUS
  <2>2. tool[b].after \in blobs /\ \A i \in Gone : entries[i].after # tool[b].after
    BY <1>2, <2>1 DEF BlobInv
  <2> QED
    BY <1>4, <2>1, <2>2
<1>11. \A b \in blobs' :
         \/ \E k \in D : IsEdit(entries'[k]) /\ entries'[k].after = b
         \/ \E c \in Agents : At(c, "sealed")' /\ Pending(c)' /\ tool'[c].after = b
  <2> SUFFICES ASSUME NEW b \in blobs'
               PROVE  \/ \E k \in D : IsEdit(entries'[k]) /\ entries'[k].after = b
                      \/ \E c \in Agents : At(c, "sealed")' /\ Pending(c)' /\ tool'[c].after = b
    OBVIOUS
  <2>1. b \in blobs /\ \A i \in Gone : entries[i].after # b
    BY <1>4
  <2>2. CASE \E i \in DOMAIN entries : IsEdit(entries[i]) /\ entries[i].after = b
    <3>1. PICK i \in DOMAIN entries : IsEdit(entries[i]) /\ entries[i].after = b
      BY <2>2
    <3>2. PICK k \in D : g[k] = i
      BY <1>3, <2>1, <3>1
    <3> QED
      BY <3>1, <3>2
  <2>3. CASE \E c \in Agents : At(c, "sealed") /\ Pending(c) /\ tool[c].after = b
    BY <2>3
  <2> QED
    BY <2>1, <2>2, <2>3 DEF BlobInv
<1> QED
  BY <1>5, <1>6, <1>7, <1>8, <1>9, <1>10, <1>11 DEF BlobInv

LEMMA BlobEvict ==
  ASSUME TypeOK, BlobInv, NEW a \in Agents, Evict(a)
  PROVE  BlobInv'
<1>1. PICK i \in DOMAIN entries :
        /\ IsEdit(entries[i]) /\ entries' = RemoveAt(entries, i) /\ DeleteBlob(entries[i])
  BY DEF Evict
<1> DEFINE n == Len(entries)
           D == 1..(n - 1)
           g == [k \in D |-> IF k < i THEN k ELSE k + 1]
<1>2. n \in Nat /\ DOMAIN entries = 1..n /\ i \in 1..n
  BY EntriesFacts
<1>3. DOMAIN entries' = D /\ \A k \in D : entries'[k] = IF k < i THEN entries[k] ELSE entries[k + 1]
  BY <1>1, RemoveFacts
<1> HIDE DEF n
<1>4. g \in [D -> DOMAIN entries] /\ \A k \in D : g[k] = IF k < i THEN k ELSE k + 1
  BY <1>2
<1>5. \A k, l \in D : g[k] = g[l] => k = l
  BY <1>2
<1>6. \A j \in DOMAIN entries : (\A k \in D : g[k] # j) <=> j = i
  <2> SUFFICES ASSUME NEW j \in 1..n PROVE (\A k \in D : g[k] # j) <=> j = i
    BY <1>2
  <2>1. CASE j < i
    <3>1. j \in D /\ g[j] = j
      BY <1>2, <2>1
    <3> QED
      BY <1>2, <2>1, <3>1
  <2>2. CASE j > i
    <3>1. j - 1 \in D /\ g[j - 1] = j
      BY <1>2, <2>2
    <3> QED
      BY <1>2, <2>2, <3>1
  <2>3. CASE j = i
    BY <1>2, <2>3
  <2> QED
    BY <1>2, <2>1, <2>2, <2>3
<1> HIDE DEF D, g
<1>7. \A k \in D : entries'[k] = entries[g[k]]
  BY <1>3, <1>4
<1>8. {entries[j].after : j \in {j \in DOMAIN entries : IsEdit(entries[j]) /\ \A k \in D : g[k] # j}}
        = {entries[i].after}
  BY <1>1, <1>6
<1>9. blobs' = blobs \ {entries[j].after : j \in {j \in DOMAIN entries :
                          IsEdit(entries[j]) /\ \A k \in D : g[k] # j}}
  BY <1>1, <1>8 DEF DeleteBlob
<1>10. UNCHANGED <<tool, version, swept>>
  BY DEF Evict, EntriesMoved
<1>11. \A b \in Agents : /\ Pending(b)' = Pending(b) /\ tool'[b].after = tool[b].after
                         /\ At(b, "sealed")' = At(b, "sealed")
                         /\ tool'[b].path = tool[b].path /\ (At(b, "read")' => At(b, "read"))
  BY <1>10 DEF Pending, At
<1> QED
  BY <1>3, <1>4, <1>5, <1>7, <1>9, <1>10, <1>11, BlobSelect

LEMMA BlobRetain ==
  ASSUME TypeOK, BlobInv, NEW a \in Agents, Retain(a)
  PROVE  BlobInv'
<1>1. PICK kept \in [1..Cardinality(Kept) -> Kept] :
        /\ Range(kept) = Kept /\ \A i, j \in DOMAIN kept : i < j => kept[i] < kept[j]
        /\ entries' = [i \in DOMAIN kept |-> entries[kept[i]]]
  BY DEF Retain
<1> DEFINE D == 1..Cardinality(Kept)
<1>2. Kept \subseteq DOMAIN entries /\ Cardinality(Kept) \in Nat /\ DOMAIN entries = 1..Len(entries)
      /\ Len(entries) \in Nat
  BY KeptFacts, EntriesFacts
<1>3. DOMAIN entries' = D /\ kept \in [D -> DOMAIN entries]
      /\ \A k \in D : entries'[k] = entries[kept[k]]
  BY <1>1, <1>2
<1>4. \A k, l \in D : kept[k] = kept[l] => k = l
  <2> SUFFICES ASSUME NEW k \in D, NEW l \in D, k # l PROVE kept[k] # kept[l]
    OBVIOUS
  <2>1. k \in Nat /\ l \in Nat /\ kept[k] \in Nat /\ kept[l] \in Nat /\ D = DOMAIN kept
    BY <1>1, <1>2
  <2>2. CASE k < l
    BY <1>1, <2>1, <2>2
  <2>3. CASE l < k
    BY <1>1, <2>1, <2>3
  <2> QED
    BY <2>1, <2>2, <2>3
<1>5. {j \in DOMAIN entries : IsEdit(entries[j]) /\ \A k \in D : kept[k] # j} = {}
  <2> SUFFICES ASSUME NEW j \in DOMAIN entries, IsEdit(entries[j]) PROVE \E k \in D : kept[k] = j
    OBVIOUS
  <2>1. j \in Range(kept)
    BY <1>1 DEF Kept
  <2> QED
    BY <2>1, <1>1 DEF Range
<1>6. UNCHANGED <<blobs, version, swept>> /\ At(a, "retain") /\ Goto(a, "effect")
  BY DEF Retain, EntriesMoved, ghostVars
<1>7. /\ tool'[a].at = "effect" /\ tool'[a].after = tool[a].after /\ tool'[a].path = tool[a].path
      /\ \A b \in Agents \ {a} : tool'[b] = tool[b]
  BY <1>6 DEF Goto, TypeOK
<1>8. \A b \in Agents : /\ Pending(b)' = Pending(b) /\ tool'[b].after = tool[b].after
                        /\ At(b, "sealed")' = At(b, "sealed")
                        /\ tool'[b].path = tool[b].path /\ (At(b, "read")' => At(b, "read"))
  BY <1>6, <1>7 DEF Pending, At
<1> HIDE DEF D
<1>9. blobs' = blobs \ {entries[i].after : i \in {j \in DOMAIN entries :
                          IsEdit(entries[j]) /\ \A k \in D : kept[k] # j}}
  BY <1>5, <1>6
<1>10. UNCHANGED <<version, swept>>
  BY <1>6
<1> DEFINE g == kept
<1>11. g \in [D -> DOMAIN entries] /\ \A k \in D : entries'[k] = entries[g[k]]
  BY <1>3
<1>12. \A k, l \in D : g[k] = g[l] => k = l
  BY <1>4
<1>13. blobs' = blobs \ {entries[i].after : i \in {j \in DOMAIN entries :
                           IsEdit(entries[j]) /\ \A k \in D : g[k] # j}}
  BY <1>9
<1>14. DOMAIN entries' = D
  BY <1>3
<1> HIDE DEF g
<1> QED
  BY <1>8, <1>10, <1>11, <1>12, <1>13, <1>14, BlobSelect

LEMMA BlobTool ==
  ASSUME TypeOK, BlobInv, NEW a \in Agents, ToolStep(a)
  PROVE  BlobInv'
<1>0. version \in Nat /\ tool[a].after \in Nat /\ tool[a].after <= version
  BY AfterFacts DEF BlobInv
<1>1. ASSUME NEW p \in Paths, ReadForEdit(a, p) PROVE BlobInv'
  BY <1>1, BlobRead
<1>2. CASE StartCommand(a)
  <2> DEFINE t == [Rest EXCEPT !.at = "sealed"]
  <2>1. t.at = "sealed" /\ t.path = None /\ t.after = 0
    BY DEF Rest
  <2>2. tool' = [tool EXCEPT ![a] = t] /\ UNCHANGED <<entries, blobs, swept, version>>
        /\ ~At(a, "sealed")
    BY <1>2 DEF StartCommand, journalVars, ghostVars, At
  <2> HIDE DEF t
  <2>3. t.after \in Nat /\ t.after <= version /\ version' \in Nat /\ version <= version'
    BY <2>1, <2>2, <1>0
  <2> QED
    BY <2>1, <2>2, <2>3, BlobOn
<1>3. CASE PutBlob(a)
  <2>1. CASE blobs' = blobs \cup {tool[a].after} /\ Goto(a, "sealed")
    BY <2>1, <1>3, BlobSealed DEF PutBlob, ghostVars
  <2>2. CASE Goto(a, "effect") /\ UNCHANGED blobs
    <3> DEFINE t == [tool[a] EXCEPT !.at = "effect"]
    <3>1. t.at = "effect" /\ t.after = tool[a].after
      BY DEF TypeOK
    <3>2. tool' = [tool EXCEPT ![a] = t] /\ UNCHANGED <<entries, blobs, swept, version>>
          /\ ~At(a, "sealed")
      BY <2>2, <1>3 DEF PutBlob, Goto, ghostVars, At
    <3> HIDE DEF t
    <3>3. t.after \in Nat /\ t.after <= version /\ version' \in Nat /\ version <= version'
      BY <3>1, <3>2, <1>0
    <3> QED
      BY <3>1, <3>2, <3>3, BlobOn
  <2> QED
    BY <2>1, <2>2, <1>3 DEF PutBlob
<1>4. CASE Effect(a)
  <2> DEFINE t == Rest
  <2>1. t.at = "idle" /\ t.after = 0
    BY DEF Rest
  <2>2. tool' = [tool EXCEPT ![a] = t] /\ UNCHANGED <<entries, blobs, swept>> /\ ~At(a, "sealed")
    BY <1>4 DEF Effect, journalVars, ghostVars, At
  <2>3. version' \in Nat /\ version <= version'
    BY <1>4, <1>0 DEF Effect
  <2> HIDE DEF t
  <2>4. t.after \in Nat /\ t.after <= version
    BY <2>1, <1>0
  <2> QED
    BY <2>1, <2>2, <2>3, <2>4, BlobOn
<1> QED
  BY <1>1, <1>2, <1>3, <1>4, BlobPush, BlobEvict, BlobRetain DEF ToolStep

LEMMA BlobOwner ==
  ASSUME TypeOK, BlobInv, OwnerStep
  PROVE  BlobInv'
<1>1. CASE SweptByOther
  <2>1. blobs' = {} /\ swept' = version /\ UNCHANGED <<entries, tool, version>>
    BY <1>1 DEF SweptByOther
  <2>2. \A i \in DOMAIN entries : ~(entries[i].after > version)
    BY AfterFacts DEF BlobInv
  <2>3. \A b \in Agents : ~(tool[b].after > version)
    BY AfterFacts DEF BlobInv
  <2> QED
    BY <2>1, <2>2, <2>3 DEF BlobInv, At, Pending
<1>2. ASSUME ~SweptByOther PROVE BlobInv'
  <2>1. UNCHANGED <<entries, tool, blobs, swept>>
    BY <1>2 DEF OwnerStep, MarkPrompt, Undo, UndoEnds, Redo, Rewind, RewindFile, OutsideWrite,
                journalVars, ghostVars
  <2>2. version' = version \/ version' = version + 1
    BY <1>2 DEF OwnerStep, MarkPrompt, Undo, UndoEnds, Redo, Rewind, RewindFile, OutsideWrite
  <2>3. version' \in Nat /\ version <= version'
    BY <2>2, AfterFacts
  <2> QED
    BY <2>1, <2>3, BlobSame
<1> QED
  BY <1>1, <1>2

LEMMA BlobStep == TypeOK /\ BlobInv /\ [Next]_vars => BlobInv'
<1> SUFFICES ASSUME TypeOK, BlobInv, [Next]_vars PROVE BlobInv'
  OBVIOUS
<1>1. CASE UNCHANGED vars
  <2>1. UNCHANGED <<entries, tool, blobs, swept, version>>
    BY <1>1 DEF vars, journalVars, ghostVars
  <2>2. version' \in Nat /\ version <= version'
    BY <2>1, AfterFacts
  <2> QED
    BY <2>1, <2>2, BlobSame
<1> QED
  BY <1>1, BlobTool, BlobOwner DEF Next

\* Every edit in the journal has its blob unless another process swept it, and every blob is
\* of an edit in the journal or of a capture under way, however captures, evictions and
\* failures interleave.
THEOREM BlobsMatchEntriesHolds == Spec => []BlobsMatchEntries
<1>1. Init => TypeOK /\ BlobInv
  BY TypeInit, BlobInit
<1>2. TypeOK /\ BlobInv /\ [Next]_vars => (TypeOK /\ BlobInv)'
  BY TypeStep, BlobStep
<1>3. TypeOK /\ BlobInv => BlobsMatchEntries
  BY DEF BlobInv, BlobsMatchEntries, Edits, Range, Pending
<1> QED
  BY <1>1, <1>2, <1>3, PTL DEF Spec
-----------------------------------------------------------------------------
(* The ceilings *)

EditPlaces == {i \in DOMAIN entries : IsEdit(entries[i])}
Retaining == {a \in Agents : At(a, "retain")}

\* Who is about to evict are finitely many, however many agents there may be.
CeilingInv == IsFiniteSet(Retaining) /\ RetentionHolds

\* The journal has each of its edits once.
LEMMA EditsOnce ==
  ASSUME TypeOK, BlobInv
  PROVE  /\ IsFiniteSet(EditPlaces) /\ Cardinality(EditPlaces) = Cardinality(Edits)
         /\ IsFiniteSet(Edits) /\ Cardinality(Edits) \in Nat
<1> DEFINE f == [i \in EditPlaces |-> entries[i]]
<1>1. IsFiniteSet(EditPlaces)
  <2>1. Len(entries) \in Nat /\ EditPlaces \subseteq 1..Len(entries)
    BY EntriesFacts DEF EditPlaces
  <2>2. IsFiniteSet(1..Len(entries))
    BY <2>1, FS_Interval
  <2> QED
    BY <2>1, <2>2, FS_Subset
<1>2. f \in Injection(EditPlaces, Edits)
  <2>1. f \in [EditPlaces -> Edits]
    BY DEF EditPlaces, Edits, Range
  <2>2. \A i, j \in EditPlaces : f[i] = f[j] => i = j
    BY DEF EditPlaces, BlobInv
  <2> QED
    BY <2>1, <2>2 DEF Injection, IsInjective
<1>3. f \in Surjection(EditPlaces, Edits)
  BY DEF EditPlaces, Edits, Range, Surjection
<1>4. f \in Bijection(EditPlaces, Edits)
  BY <1>2, <1>3 DEF Bijection
<1> QED
  BY <1>1, <1>4, FS_Bijection, FS_CardinalityType DEF ExistsBijection

\* What retention keeps is within the ceilings: the barriers kept are those of a rank above
\* the surplus, so there are fewer of them by the surplus, or none.
LEMMA KeptFits ==
  ASSUME TypeOK, BlobInv, Cardinality(Edits) <= MaxEntries
  PROVE  Cardinality(Kept) <= MaxEntries + Headroom
<1> DEFINE n == Len(entries)
           D == 1..n
           B == {i \in D : ~IsEdit(entries[i])}
           R(i) == Cardinality({j \in B : j <= i})
           F == {i \in B : R(i) > Surplus}
           E == EditPlaces
<1>1. n \in Nat /\ DOMAIN entries = D /\ IsFiniteSet(D) /\ Cardinality(D) = n
  <2>1. n \in Nat /\ DOMAIN entries = D
    BY EntriesFacts
  <2> HIDE DEF n
  <2> QED
    BY <2>1, FS_Interval
<1>2. IsFiniteSet(E) /\ Cardinality(E) \in Nat /\ Cardinality(E) <= MaxEntries /\ E \subseteq D
  BY <1>1, EditsOnce DEF EditPlaces
<1>3. IsFiniteSet(B) /\ Cardinality(B) = n - Cardinality(E) /\ B \subseteq Nat
  <2>1. B = D \ E /\ D \cap E = E /\ B \subseteq Nat
    BY <1>1 DEF EditPlaces
  <2>2. IsFiniteSet(D \ E) /\ Cardinality(D \ E) = Cardinality(D) - Cardinality(D \cap E)
    BY <1>1, FS_Difference
  <2> HIDE DEF B, D, E, n
  <2> QED
    BY <1>1, <2>1, <2>2
<1>4. Surplus = n - (MaxEntries + Headroom) /\ Surplus \in Int /\ MaxEntries \in Nat /\ Headroom \in Nat
  BY <1>1, JournalAssumption DEF Surplus
<1>5. Kept = E \cup F /\ E \cap F = {}
  <2>1. \A i \in D : {j \in 1..i : ~IsEdit(entries[j])} = {j \in B : j <= i}
    BY <1>1
  <2>2. \A i \in D : i \in Kept <=> i \in E \/ R(i) > Surplus
    BY <1>1, <2>1 DEF Kept, EditPlaces
  <2>3. Kept \subseteq D
    BY <1>1 DEF Kept
  <2>4. \A i \in D : i \in B <=> i \notin E
    BY <1>1 DEF EditPlaces
  <2> HIDE DEF R
  <2> QED
    BY <1>2, <2>2, <2>3, <2>4
<1>6. F \subseteq B /\ IsFiniteSet(F) /\ Cardinality(F) \in Nat /\ Cardinality(F) <= Cardinality(B)
  BY <1>3, FS_Subset, FS_CardinalityType
<1>7. Cardinality(Kept) = Cardinality(E) + Cardinality(F)
  <2> HIDE DEF E, F
  <2>1. Cardinality(E \cup F) = Cardinality(E) + Cardinality(F) - Cardinality(E \cap F)
    BY <1>2, <1>6, FS_Union
  <2>2. Cardinality(E \cap F) = 0
    BY <1>5, FS_EmptySet
  <2> QED
    BY <1>2, <1>5, <1>6, <2>1, <2>2
<1>8. /\ Cardinality(B) \in Nat /\ \A i \in B : R(i) \in 1..Cardinality(B)
      /\ \A i, k \in B : i < k => R(i) < R(k)
  <2> HIDE DEF B
  <2> QED
    BY <1>3, RanksGrow
<1> HIDE DEF B, R
<1>9. CASE Surplus <= 0
  BY <1>2, <1>3, <1>4, <1>6, <1>7, <1>8, <1>9
<1>10. CASE Surplus > 0
  <2> DEFINE I == (Surplus + 1)..Cardinality(B)
             g == [i \in F |-> R(i)]
  <2>1. \A i \in F : R(i) \in I
    BY <1>4, <1>8, <1>10
  <2>2. \A i, k \in F : R(i) = R(k) => i = k
    <3>1. ASSUME NEW i \in B, NEW k \in B, R(i) = R(k) PROVE i = k
      <4>1. R(i) \in Nat /\ R(k) \in Nat /\ i \in Nat /\ k \in Nat
        BY <1>3, <1>8
      <4>2. ~(i < k) /\ ~(k < i)
        BY <1>8, <3>1, <4>1
      <4> QED
        BY <4>1, <4>2
    <3> QED
      BY <1>6, <3>1
  <2> HIDE DEF F
  <2>3. g \in Injection(F, I)
    BY <2>1, <2>2 DEF Injection, IsInjective
  <2>4. /\ IsFiniteSet(I)
        /\ Cardinality(I) = IF Surplus + 1 > Cardinality(B) THEN 0 ELSE Cardinality(B) - Surplus
    <3> DEFINE lo == Surplus + 1
               hi == Cardinality(B)
    <3>1. lo \in Int /\ hi \in Int /\ hi - lo + 1 = hi - Surplus
      BY <1>4, <1>8
    <3>2. IsFiniteSet(lo..hi) /\ Cardinality(lo..hi) = IF lo > hi THEN 0 ELSE hi - lo + 1
      <4> HIDE DEF lo, hi
      <4> QED
        BY <3>1, FS_Interval
    <3> QED
      BY <3>1, <3>2
  <2>5. Cardinality(F) <= Cardinality(I)
    BY <2>3, <2>4, FS_Injection
  <2> QED
    BY <1>2, <1>3, <1>4, <1>6, <1>7, <1>8, <1>10, <2>4, <2>5
<1> QED
  BY <1>4, <1>9, <1>10

\* A step that moves no entry and nobody into retention or out of it.
LEMMA CeilingSame ==
  ASSUME TypeOK, CeilingInv, UNCHANGED entries, failures' \in {failures, failures + 1},
         \A b \in Agents : At(b, "retain")' <=> At(b, "retain")
  PROVE  CeilingInv'
<1>1. Retaining' = Retaining /\ Edits' = Edits
  BY DEF Retaining, Edits
<1>2. failures' = 0 => failures = 0
  BY DEF TypeOK
<1> QED
  BY <1>1, <1>2 DEF CeilingInv, RetentionHolds, Retaining

LEMMA CeilingPush ==
  ASSUME TypeOK, BlobInv, CeilingInv, NEW a \in Agents, Push(a)
  PROVE  CeilingInv'
<1> DEFINE x == Edit(seq, tool[a])
           due == Cardinality(Retaining)
<1>1. At(a, "sealed") /\ entries' = Append(entries, x) /\ a \notin Retaining
  BY DEF Push, At, Retaining
<1>2. Edits' \subseteq Edits \cup {x} /\ Len(entries') = Len(entries) + 1 /\ Len(entries) \in Nat
  <2>1. /\ DOMAIN entries = 1..Len(entries) /\ Len(entries) \in Nat /\ Len(entries') = Len(entries) + 1
        /\ DOMAIN entries' = 1..(Len(entries) + 1)
        /\ \A i \in 1..Len(entries) : entries'[i] = entries[i]
        /\ entries'[Len(entries) + 1] = x
    BY <1>1, EntriesFacts, AppendProperties DEF TypeOK
  <2>2. Range(entries') \subseteq Range(entries) \cup {x}
    BY <2>1 DEF Range
  <2> QED
    BY <2>1, <2>2 DEF Edits
<1>3. /\ IsFiniteSet(Edits') /\ Cardinality(Edits') \in Nat /\ Cardinality(Edits) \in Nat
      /\ Cardinality(Edits') <= Cardinality(Edits) + 1
  <2>1. IsFiniteSet(Edits) /\ Cardinality(Edits) \in Nat
    BY EditsOnce
  <2>2. IsFiniteSet(Edits \cup {x}) /\ Cardinality(Edits \cup {x}) <= Cardinality(Edits) + 1
        /\ Cardinality(Edits \cup {x}) \in Nat
    BY <2>1, FS_AddElement, FS_CardinalityType
  <2> HIDE DEF x
  <2> QED
    BY <1>2, <2>1, <2>2, FS_Subset, FS_CardinalityType
<1>4. CASE Goto(a, "retain") /\ UNCHANGED countVars
  <2>1. Retaining' = Retaining \cup {a}
    BY <1>4 DEF Goto, At, Retaining, TypeOK
  <2>2. IsFiniteSet(Retaining') /\ Cardinality(Retaining') = due + 1 /\ due \in Nat
    BY <1>1, <2>1, FS_AddElement, FS_CardinalityType DEF CeilingInv
  <2> QED
    BY <1>2, <1>3, <1>4, <2>2, JournalAssumption DEF CeilingInv, RetentionHolds, Retaining, countVars
<1>5. CASE Fails /\ Goto(a, "effect")
  <2>1. Retaining' = Retaining
    BY <1>1, <1>5 DEF Goto, At, Retaining, TypeOK
  <2>2. failures' # 0
    BY <1>5 DEF Fails, TypeOK
  <2> QED
    BY <2>1, <2>2 DEF CeilingInv, RetentionHolds
<1> QED
  BY <1>4, <1>5 DEF Push

LEMMA CeilingEvict ==
  ASSUME TypeOK, BlobInv, CeilingInv, NEW a \in Agents, Evict(a)
  PROVE  CeilingInv'
<1>1. PICK i \in DOMAIN entries : entries' = RemoveAt(entries, i) /\ IsEdit(entries[i])
  BY DEF Evict
<1>2. UNCHANGED <<tool, failures>>
  BY DEF Evict, countVars
<1>3. /\ Len(entries) \in Nat /\ DOMAIN entries = 1..Len(entries) /\ i \in 1..Len(entries)
      /\ Len(entries') = Len(entries) - 1 /\ DOMAIN entries' = 1..(Len(entries) - 1)
      /\ \A k \in DOMAIN entries' : entries'[k] = IF k < i THEN entries[k] ELSE entries[k + 1]
  <2>1. /\ Len(entries) \in Nat /\ DOMAIN entries = 1..Len(entries) /\ i \in 1..Len(entries)
        /\ entries' \in Seq(Entries) /\ DOMAIN entries' = 1..(Len(entries) - 1)
        /\ \A k \in DOMAIN entries' : entries'[k] = IF k < i THEN entries[k] ELSE entries[k + 1]
    BY <1>1, EntriesFacts, RemoveFacts
  <2>2. Len(entries') \in Nat /\ DOMAIN entries' = 1..Len(entries')
    BY <2>1, LenProperties
  <2>3. \A m, k \in Nat : 1..m = 1..k => m = k
    <3> SUFFICES ASSUME NEW m \in Nat, NEW k \in Nat, m < k PROVE 1..m # 1..k
      OBVIOUS
    <3>1. k \in 1..k /\ k \notin 1..m
      OBVIOUS
    <3> QED
      BY <3>1
  <2>4. Len(entries') = Len(entries) - 1
    <3>1. Len(entries) - 1 \in Nat
      BY <2>1
    <3>2. 1..Len(entries') = 1..(Len(entries) - 1)
      BY <2>1, <2>2, Zenon
    <3> QED
      BY <2>2, <2>3, <3>1, <3>2
  <2> QED
    BY <2>1, <2>4
<1>4. Edits' \subseteq Edits
  <2>1. \A k \in 1..(Len(entries) - 1) : k \in 1..Len(entries) /\ k + 1 \in 1..Len(entries)
    BY <1>3
  <2>2. Range(entries') \subseteq Range(entries)
    BY <1>3, <2>1 DEF Range
  <2> QED
    BY <2>2 DEF Edits
<1>5. Cardinality(Edits') <= Cardinality(Edits) /\ Cardinality(Edits) \in Nat /\ Cardinality(Edits') \in Nat
  BY <1>4, EditsOnce, FS_Subset, FS_CardinalityType
<1>6. Retaining' = Retaining /\ Cardinality(Retaining) \in Nat /\ IsFiniteSet(Retaining)
  BY <1>2, FS_CardinalityType DEF CeilingInv, Retaining, At
<1> SUFFICES ASSUME failures = 0
             PROVE  /\ Cardinality(Edits') <= MaxEntries + Cardinality(Retaining)
                    /\ Len(entries') <= MaxEntries + Headroom + Cardinality(Retaining)
  BY <1>2, <1>6 DEF CeilingInv, RetentionHolds, Retaining
<1>7. /\ Cardinality(Edits) <= MaxEntries + Cardinality(Retaining)
      /\ Len(entries) <= MaxEntries + Headroom + Cardinality(Retaining)
  BY DEF CeilingInv, RetentionHolds, Retaining
<1> QED
  BY <1>3, <1>5, <1>6, <1>7, JournalAssumption

LEMMA CeilingRetain ==
  ASSUME TypeOK, BlobInv, CeilingInv, NEW a \in Agents, Retain(a)
  PROVE  CeilingInv'
<1>1. PICK kept \in [1..Cardinality(Kept) -> Kept] :
        Range(kept) = Kept /\ entries' = [i \in DOMAIN kept |-> entries[kept[i]]]
  BY DEF Retain
<1>2. Cardinality(Kept) \in Nat /\ Len(entries') = Cardinality(Kept)
  BY <1>1, KeptFacts
<1>3. Edits' = Edits
  <2>1. Range(entries') = {entries[i] : i \in Kept}
    BY <1>1 DEF Range
  <2>2. \A i \in DOMAIN entries : IsEdit(entries[i]) => i \in Kept
    BY DEF Kept
  <2>3. Kept \subseteq DOMAIN entries
    BY DEF Kept
  <2> QED
    BY <2>1, <2>2, <2>3 DEF Edits, Range
<1>4. Cardinality(Edits) <= MaxEntries /\ Cardinality(Edits) \in Nat
  BY EditsOnce DEF Retain
<1>5. Cardinality(Kept) <= MaxEntries + Headroom
  BY <1>4, KeptFits
<1>6. Retaining' \subseteq Retaining
  BY DEF Retain, Goto, At, Retaining, TypeOK
<1>7. IsFiniteSet(Retaining') /\ Cardinality(Retaining') \in Nat
  BY <1>6, FS_Subset, FS_CardinalityType DEF CeilingInv
<1> QED
  BY <1>2, <1>3, <1>4, <1>5, <1>7, JournalAssumption DEF CeilingInv, RetentionHolds, Retaining

LEMMA CeilingTool ==
  ASSUME TypeOK, BlobInv, CeilingInv, NEW a \in Agents, ToolStep(a)
  PROVE  CeilingInv'
<1> DEFINE Quiet == /\ UNCHANGED entries /\ failures' \in {failures, failures + 1}
                    /\ \A b \in Agents : At(b, "retain")' <=> At(b, "retain")
<1>1. ASSUME NEW p \in Paths, ReadForEdit(a, p) PROVE Quiet
  BY <1>1 DEF ReadForEdit, journalVars, countVars, At, TypeOK
<1>2. CASE StartCommand(a)
  <2>1. Quiet
    BY <1>2 DEF StartCommand, journalVars, At, TypeOK, Rest
  <2> QED
    BY <2>1, CeilingSame
<1>3. CASE PutBlob(a)
  <2>1. Quiet
    BY <1>3 DEF PutBlob, Fails, Goto, countVars, At, TypeOK
  <2> QED
    BY <2>1, CeilingSame
<1>4. CASE Effect(a)
  <2>1. Quiet
    BY <1>4 DEF Effect, journalVars, countVars, At, TypeOK, Rest
  <2> QED
    BY <2>1, CeilingSame
<1> QED
  BY <1>1, <1>2, <1>3, <1>4, CeilingSame, CeilingPush, CeilingEvict, CeilingRetain DEF ToolStep

LEMMA CeilingStep == TypeOK /\ BlobInv /\ CeilingInv /\ [Next]_vars => CeilingInv'
<1> SUFFICES ASSUME TypeOK, BlobInv, CeilingInv, [Next]_vars PROVE CeilingInv'
  OBVIOUS
<1>1. CASE OwnerStep
  <2>1. UNCHANGED <<entries, tool>>
    BY <1>1 DEF OwnerStep, MarkPrompt, Undo, UndoEnds, Redo, Rewind, RewindFile, OutsideWrite,
                SweptByOther, journalVars
  <2>2. failures' \in {failures, failures + 1}
    <3>1. (MarkPrompt \/ Undo \/ (\E c \in DOMAIN points : Rewind(c))
             \/ (\E p \in Paths : OutsideWrite(p)) \/ SweptByOther) => failures' \in {failures, failures + 1}
      BY DEF MarkPrompt, Undo, Rewind, OutsideWrite, SweptByOther, Fails, countVars
    <3>2. UndoEnds => failures' \in {failures, failures + 1}
      BY DEF UndoEnds, RestoreFails, Fails, countVars
    <3>3. Redo => failures' \in {failures, failures + 1}
      BY DEF Redo, Fails, countVars
    <3>4. RewindFile => failures' \in {failures, failures + 1}
      BY DEF RewindFile, RestoreFails, Fails, countVars
    <3> QED
      BY <1>1, <3>1, <3>2, <3>3, <3>4 DEF OwnerStep
  <2> QED
    BY <2>1, <2>2, CeilingSame DEF At
<1>2. CASE UNCHANGED vars
  BY <1>2, CeilingSame DEF vars, journalVars, countVars, At
<1> QED
  BY <1>1, <1>2, CeilingTool DEF Next

LEMMA CeilingInit == Init => CeilingInv
<1> SUFFICES ASSUME Init PROVE CeilingInv
  OBVIOUS
<1>1. Retaining = {} /\ Edits = {} /\ Len(entries) = 0
  BY DEF Init, Retaining, At, Rest, Edits, Range
<1> QED
  BY <1>1, FS_EmptySet, JournalAssumption DEF CeilingInv, RetentionHolds, Retaining

\* The journal keeps to its ceilings but for the captures that are about to evict, for any
\* ceilings and however many tools capture at once: what retention keeps, it counts anew.
THEOREM CeilingsHold == Spec => []RetentionHolds
<1>1. Init => TypeOK /\ BlobInv /\ CeilingInv
  BY TypeInit, BlobInit, CeilingInit
<1>2. TypeOK /\ BlobInv /\ CeilingInv /\ [Next]_vars => (TypeOK /\ BlobInv /\ CeilingInv)'
  BY TypeStep, BlobStep, CeilingStep
<1>3. TypeOK /\ BlobInv /\ CeilingInv => RetentionHolds
  BY DEF CeilingInv
<1> QED
  BY <1>1, <1>2, <1>3, PTL DEF Spec
-----------------------------------------------------------------------------
(* What a rewind gives back *)

\* The files that point c answers for, and the edits of file p since c.
Answered(c) == DOMAIN points[c].at
Since(c, p) == {e \in Edits : e.path = p /\ e.seq >= points[c].seq}

\* The edits that the owner's command under way still means to take back.
Held == rewinding.todo \cup {undoing.entry}

\* Numbers grow: what is in the journal, marked or held was numbered before.
NumbersInv ==
  /\ \A e \in Edits : e.seq < seq
  /\ \A c \in DOMAIN points : points[c].seq <= seq
  /\ \A e \in Held : e.path # None => e.seq < seq

\* The contents that tools make are all different.
ToolsInv ==
  \A a, b \in Agents :
    tool[a].path # None /\ tool[b].path # None /\ tool[a].after = tool[b].after => a = b

\* Point c can give p back: the first edit since then read what p held, and while there is none
\* the file and the tools that read it still have that. A tool whose edit is in the journal made it
\* since, and an edit that is held is still in the journal.
Answers(c, p) ==
  /\ \A e \in Since(c, p) : (\A d \in Since(c, p) : e.seq <= d.seq) => e.before = AsRead(points[c].at[p])
  /\ Since(c, p) = {} =>
       /\ disk[p] = points[c].at[p]
       /\ \A a \in Agents :
            tool[a].path = p /\ tool[a].at \in {"read", "sealed"} => tool[a].before = AsRead(points[c].at[p])
  /\ \A a \in Agents : tool[a].path = p /\ tool[a].at \in {"retain", "effect"} =>
       \A e \in Edits : e.after = tool[a].after => e \in Since(c, p)
  /\ \A e \in Held : e.path = p /\ e.seq >= points[c].seq => e \in Edits

AnswersInv == \A c \in DOMAIN points : \A p \in Answered(c) : Answers(c, p)

\* What a rewind has still to do are first edits since its point.
TodoInv ==
  \A e \in rewinding.todo :
    /\ rewinding.point \in DOMAIN points
    /\ e.path \in Answered(rewinding.point) => e \in FirstEdits(points[rewinding.point].seq)

PointInv == NumbersInv /\ ToolsInv /\ AnswersInv /\ TodoInv

\* The points stay, and answer for no more than they did.
Shrunk ==
  /\ DOMAIN points' = DOMAIN points
  /\ \A c \in DOMAIN points :
       /\ points'[c].seq = points[c].seq /\ Answered(c)' \subseteq Answered(c)
       /\ \A p \in Answered(c)' : points'[c].at[p] = points[c].at[p]

LEMMA PointsFacts ==
  ASSUME TypeOK
  PROVE  /\ Len(points) \in Nat /\ DOMAIN points = 1..Len(points)
         /\ \A c \in DOMAIN points : points[c].seq \in Nat /\ Answered(c) \subseteq Paths
         /\ seq \in Nat /\ None \notin Paths
         /\ \A e \in Edits : e.seq \in Nat /\ e.path \in Paths
         /\ \A e \in Held : e \in Entries /\ e.seq \in Nat
<1>1. points \in Seq(Points)
  BY DEF TypeOK
<1>2. Len(points) \in Nat /\ DOMAIN points = 1..Len(points) /\ \A c \in 1..Len(points) : points[c] \in Points
  BY <1>1, LenProperties, ElementOfSeq
<1>3. \A c \in DOMAIN points : points[c].seq \in Nat /\ Answered(c) \subseteq Paths
  BY <1>2 DEF Points, Answered
<1>4. \A e \in Edits : e.seq \in Nat /\ e.path \in Paths
  BY EntriesFacts DEF Entries, Edits, IsEdit
<1>5. \A e \in Held : e \in Entries /\ e.seq \in Nat
  BY DEF Held, TypeOK, Entries
<1> QED
  BY <1>2, <1>3, <1>4, <1>5, JournalAssumption DEF TypeOK

\* Disturbing shrinks, and no point of C answers for p then.
LEMMA DisturbFacts ==
  ASSUME TypeOK, NEW p, NEW C, Disturb(p, C)
  PROVE  Shrunk /\ \A c \in DOMAIN points : c \in C => p \notin Answered(c)'
<1>1. \A c \in DOMAIN points : points[c] = [seq |-> points[c].seq, at |-> points[c].at]
  <2>1. \A r \in Points : r = [seq |-> r.seq, at |-> r.at]
    BY DEF Points
  <2>2. \A c \in DOMAIN points : points[c] \in Points
    BY PointsFacts, ElementOfSeq DEF TypeOK
  <2> QED
    BY <2>1, <2>2
<1>2. DOMAIN points' = DOMAIN points
  BY DEF Disturb
<1>3. ASSUME NEW c \in DOMAIN points, c \notin C
      PROVE  points'[c] = points[c]
  BY <1>3 DEF Disturb
<1>4. ASSUME NEW c \in DOMAIN points, c \in C
      PROVE  /\ points'[c].seq = points[c].seq
             /\ points'[c].at = Restrict(points[c].at, Answered(c) \ {p})
  BY <1>1, <1>4 DEF Disturb, Answered
<1>5. ASSUME NEW c \in DOMAIN points, c \in C
      PROVE  /\ Answered(c)' = Answered(c) \ {p}
             /\ \A q \in Answered(c) \ {p} : points'[c].at[q] = points[c].at[q]
  BY <1>4, <1>5 DEF Answered, Restrict
<1> QED
  BY <1>2, <1>3, <1>4, <1>5 DEF Shrunk, Answered

LEMMA SameShrunk ==
  ASSUME UNCHANGED points
  PROVE  Shrunk
BY DEF Shrunk, Answered

\* The steps that keep the journal's edits: what a point answers for is written only where an
\* edit since then is known, tools read what the file holds, and what is held is in the journal.
LEMMA AnswersKept ==
  ASSUME TypeOK, AnswersInv, Shrunk, Edits' = Edits,
         \A c \in DOMAIN points : \A p \in Answered(c)' : disk'[p] # disk[p] => Since(c, p) # {},
         \A a \in Agents : tool'[a].path \in Paths /\ tool'[a].at \in {"read", "sealed"} =>
           \/ tool'[a].before = AsRead(disk[tool'[a].path])
           \/ /\ tool[a].at \in {"read", "sealed"} /\ tool[a].path = tool'[a].path
              /\ tool[a].before = tool'[a].before,
         \A a \in Agents : tool'[a].path \in Paths /\ tool'[a].at \in {"retain", "effect"} =>
           \/ /\ tool[a].at \in {"retain", "effect"} /\ tool[a].path = tool'[a].path
              /\ tool[a].after = tool'[a].after
           \/ \A e \in Edits : e.after # tool'[a].after,
         \A e \in Held' : e.path \in Paths => e \in Held \cup Edits
  PROVE  AnswersInv'
<1> SUFFICES ASSUME NEW c \in DOMAIN points, NEW p \in Answered(c)'
             PROVE  Answers(c, p)'
  BY DEF AnswersInv, Shrunk
<1>1. /\ points'[c].seq = points[c].seq /\ p \in Answered(c) /\ points'[c].at[p] = points[c].at[p]
      /\ p \in Paths
  BY PointsFacts DEF Shrunk
<1>2. Answers(c, p)
  BY <1>1 DEF AnswersInv
<1>3. Since(c, p)' = Since(c, p)
  BY <1>1 DEF Since
<1>4. \A e \in Since(c, p)' :
        (\A d \in Since(c, p)' : e.seq <= d.seq) => e.before = AsRead(points'[c].at[p])
  BY <1>1, <1>2, <1>3 DEF Answers
<1>5. ASSUME Since(c, p)' = {}
      PROVE  /\ disk'[p] = points'[c].at[p]
             /\ \A a \in Agents : tool'[a].path = p /\ tool'[a].at \in {"read", "sealed"} =>
                                    tool'[a].before = AsRead(points'[c].at[p])
  <2>1. disk[p] = points[c].at[p] /\ disk'[p] = disk[p]
    BY <1>2, <1>3, <1>5 DEF Answers
  <2> QED
    BY <1>1, <1>2, <1>3, <1>5, <2>1 DEF Answers
<1>6. \A a \in Agents : tool'[a].path = p /\ tool'[a].at \in {"retain", "effect"} =>
        \A e \in Edits' : e.after = tool'[a].after => e \in Since(c, p)'
  BY <1>1, <1>2, <1>3 DEF Answers
<1>7. \A e \in Held' : e.path = p /\ e.seq >= points'[c].seq => e \in Edits'
  BY <1>1, <1>2 DEF Answers
<1> QED
  BY <1>4, <1>5, <1>6, <1>7 DEF Answers

\* The other three parts, in the same steps.
LEMMA RestKept ==
  ASSUME TypeOK, NumbersInv, ToolsInv, TodoInv, Shrunk, Edits' = Edits, UNCHANGED seq,
         \A e \in Held' : e.path # None => e \in Held \cup Edits,
         \A a \in Agents : tool'[a].path # None =>
           \/ tool'[a].path = tool[a].path /\ tool'[a].after = tool[a].after
           \/ \A b \in Agents \ {a} : tool'[b] = tool[b] /\ tool[b].after # tool'[a].after,
         rewinding'.todo \subseteq rewinding.todo,
         rewinding'.todo # {} => rewinding'.point = rewinding.point
  PROVE  NumbersInv' /\ ToolsInv' /\ TodoInv'
<1>1. NumbersInv'
  <2>1. \A e \in Held' : e.path # None => e.seq < seq'
    BY DEF NumbersInv
  <2>2. \A e \in Edits' : e.seq < seq'
    BY DEF NumbersInv
  <2>3. \A c \in DOMAIN points' : points'[c].seq <= seq'
    BY DEF NumbersInv, Shrunk
  <2> QED
    BY <2>1, <2>2, <2>3 DEF NumbersInv
<1>2. ToolsInv'
  <2> SUFFICES ASSUME NEW a \in Agents, NEW b \in Agents, tool'[a].path # None, tool'[b].path # None,
                      tool'[a].after = tool'[b].after, a # b
               PROVE  FALSE
    BY DEF ToolsInv
  <2> QED
    BY DEF ToolsInv
<1>3. TodoInv'
  <2> DEFINE c == rewinding.point
  <2> SUFFICES ASSUME NEW e \in rewinding'.todo
               PROVE  c' \in DOMAIN points' /\ (e.path \in Answered(c)' => e \in FirstEdits(points[c].seq)')
    BY DEF TodoInv
  <2>1. e \in rewinding.todo /\ c' = c /\ c \in DOMAIN points /\ points'[c].seq = points[c].seq
    BY DEF TodoInv, Shrunk
  <2>2. FirstEdits(points[c].seq)' = FirstEdits(points[c].seq)
    BY <2>1 DEF FirstEdits
  <2>3. Answered(c)' \subseteq Answered(c)
    BY <2>1 DEF Shrunk, Answered
  <2> QED
    BY <2>1, <2>2, <2>3 DEF TodoInv, Shrunk
<1> QED
  BY <1>1, <1>2, <1>3

\* Both, in one.
LEMMA PointsKept ==
  ASSUME TypeOK, PointInv, Shrunk, Edits' = Edits, UNCHANGED seq,
         \A c \in DOMAIN points : \A p \in Answered(c)' : disk'[p] # disk[p] => Since(c, p) # {},
         \A a \in Agents : tool'[a].path \in Paths /\ tool'[a].at \in {"read", "sealed"} =>
           \/ tool'[a].before = AsRead(disk[tool'[a].path])
           \/ /\ tool[a].at \in {"read", "sealed"} /\ tool[a].path = tool'[a].path
              /\ tool[a].before = tool'[a].before,
         \A a \in Agents : tool'[a].path \in Paths /\ tool'[a].at \in {"retain", "effect"} =>
           \/ /\ tool[a].at \in {"retain", "effect"} /\ tool[a].path = tool'[a].path
              /\ tool[a].after = tool'[a].after
           \/ \A e \in Edits : e.after # tool'[a].after,
         \A a \in Agents : tool'[a].path # None =>
           \/ tool'[a].path = tool[a].path /\ tool'[a].after = tool[a].after
           \/ \A b \in Agents \ {a} : tool'[b] = tool[b] /\ tool[b].after # tool'[a].after,
         \A e \in Held' : e.path # None => e \in Held \cup Edits,
         rewinding'.todo \subseteq rewinding.todo,
         rewinding'.todo # {} => rewinding'.point = rewinding.point
  PROVE  PointInv'
<1>1. AnswersInv'
  BY AnswersKept, PointsFacts DEF PointInv
<1>2. NumbersInv' /\ ToolsInv' /\ TodoInv'
  BY RestKept DEF PointInv
<1> QED
  BY <1>1, <1>2 DEF PointInv

\* ... when no tool moves.
LEMMA OwnerKept ==
  ASSUME TypeOK, PointInv, Shrunk, UNCHANGED <<entries, seq, tool>>,
         \A c \in DOMAIN points : \A p \in Answered(c)' : disk'[p] # disk[p] => Since(c, p) # {},
         \A e \in Held' : e.path # None => e \in Held \cup Edits,
         rewinding'.todo \subseteq rewinding.todo,
         rewinding'.todo # {} => rewinding'.point = rewinding.point
  PROVE  PointInv'
<1>1. Edits' = Edits
  BY DEF Edits
<1> QED
  BY <1>1, PointsKept

\* A content is written back for an edit of the journal, or one held: points marked after the
\* edit do not answer for the file any longer, and those before know the edit.
LEMMA WritesBack ==
  ASSUME TypeOK, AnswersInv, NEW e \in Held \cup Edits, NEW v,
         disk' = [disk EXCEPT ![e.path] = v], Disturb(e.path, PointsAfter(e.seq))
  PROVE  /\ Shrunk
         /\ \A c \in DOMAIN points : \A p \in Answered(c)' : disk'[p] # disk[p] => Since(c, p) # {}
<1>1. /\ Shrunk
      /\ \A c \in DOMAIN points : c \in PointsAfter(e.seq) => e.path \notin Answered(c)'
  BY DisturbFacts
<1>2. ASSUME NEW c \in DOMAIN points, NEW p \in Answered(c)', disk'[p] # disk[p]
      PROVE  Since(c, p) # {}
  <2>1. p \in Answered(c) /\ p \in Paths
    BY <1>1, PointsFacts DEF Shrunk
  <2>2. p = e.path
    BY <1>2, <2>1 DEF TypeOK
  <2>3. e.seq \in Nat /\ points[c].seq \in Nat /\ ~(points[c].seq > e.seq)
    BY <1>1, <1>2, <2>2, PointsFacts DEF PointsAfter
  <2>4. e.seq >= points[c].seq
    BY <2>3
  <2>5. e \in Edits
    BY <2>1, <2>2, <2>4 DEF AnswersInv, Answers
  <2> QED
    BY <2>2, <2>4, <2>5 DEF Since
<1> QED
  BY <1>1, <1>2

\* A restore does this, or nothing.
LEMMA RestoreWritesBack ==
  ASSUME TypeOK, AnswersInv, NEW e \in Held \cup Edits, Restore(e) \/ RestoreFails(e)
  PROVE  /\ Shrunk
         /\ \A c \in DOMAIN points : \A p \in Answered(c)' : disk'[p] # disk[p] => Since(c, p) # {}
<1>1. CASE Restore(e)
  BY <1>1, WritesBack DEF Restore
<1>2. CASE RestoreFails(e)
  BY <1>2, SameShrunk DEF RestoreFails
<1> QED
  BY <1>1, <1>2

LEMMA PointUndo ==
  ASSUME TypeOK, PointInv, Undo \/ UndoEnds
  PROVE  PointInv'
<1>1. CASE Undo
  <2>1. UNCHANGED <<entries, seq, tool, disk, points, rewinding>>
    BY <1>1 DEF Undo, journalVars
  <2>2. PICK pos \in 0..Synced :
          /\ pos # 0 => IsEdit(entries[pos])
          /\ undoing' = IF pos = 0 THEN NoUndo
                        ELSE [entry |-> entries[pos], at |-> pos,
                              go |-> armed \/ disk[entries[pos].path] = entries[pos].after]
    BY <1>1 DEF Undo
  <2>3. undoing'.entry.path # None => undoing'.entry \in Edits
    <3>1. CASE pos = 0
      BY <2>2, <3>1 DEF NoUndo, Edit, Rest
    <3>2. CASE pos # 0
      <4>1. pos \in DOMAIN entries
        <5>1. Synced \in 0..Len(entries)
          BY EntriesFacts DEF Synced, TypeOK
        <5> QED
          BY <5>1, <3>2, EntriesFacts
      <4>2. entries[pos] \in Edits
        BY <2>2, <3>2, <4>1 DEF Edits, Range
      <4> QED
        BY <2>2, <3>2, <4>2
    <3> QED
      BY <3>1, <3>2
  <2>4. \A e \in Held' : e.path # None => e \in Held \cup Edits
    BY <2>1, <2>3 DEF Held
  <2> QED
    BY <2>1, <2>4, OwnerKept, SameShrunk
<1>2. CASE UndoEnds
  <2>1. UNCHANGED <<entries, seq, tool, rewinding>> /\ undoing'.entry.path = None
    BY <1>2 DEF UndoEnds, journalVars, NoUndo, Edit, Rest
  <2>2. undoing.entry \in Held
    BY DEF Held
  <2>3. /\ Shrunk
        /\ \A c \in DOMAIN points : \A p \in Answered(c)' : disk'[p] # disk[p] => Since(c, p) # {}
    <3>1. CASE UNCHANGED <<disk, points>>
      BY <3>1, SameShrunk
    <3>2. CASE Restore(undoing.entry) \/ RestoreFails(undoing.entry)
      BY <2>2, <3>2, RestoreWritesBack DEF PointInv
    <3> QED
      BY <1>2, <3>1, <3>2 DEF UndoEnds
  <2>4. \A e \in Held' : e.path # None => e \in Held \cup Edits
    BY <2>1 DEF Held
  <2> QED
    BY <2>1, <2>3, <2>4, OwnerKept
<1> QED
  BY <1>1, <1>2

LEMMA PointRedo ==
  ASSUME TypeOK, PointInv, Redo
  PROVE  PointInv'
<1>1. UNCHANGED <<entries, seq, tool, rewinding, undoing>>
  BY DEF Redo, journalVars
<1>2. /\ Shrunk
      /\ \A c \in DOMAIN points : \A p \in Answered(c)' : disk'[p] # disk[p] => Since(c, p) # {}
  <2>1. CASE UNCHANGED <<disk, points>>
    BY <2>1, SameShrunk
  <2>2. CASE /\ Last(redoStack) \in Edits
             /\ disk' = [disk EXCEPT ![Last(redoStack).path] = Last(redoStack).after]
             /\ Disturb(Last(redoStack).path, PointsAfter(Last(redoStack).seq))
    BY <2>2, WritesBack DEF PointInv
  <2> QED
    BY <2>1, <2>2 DEF Redo, Redoable
<1>3. Held' = Held
  BY <1>1 DEF Held
<1> QED
  BY <1>1, <1>2, <1>3, OwnerKept

LEMMA PointRewind ==
  ASSUME TypeOK, PointInv, NEW c \in DOMAIN points, Rewind(c)
  PROVE  PointInv'
<1>1. UNCHANGED <<entries, seq, tool, disk, points, undoing>>
  BY DEF Rewind, journalVars, undoVars
<1>2. rewinding' = [point |-> c, todo |-> FirstEdits(points[c].seq)]
  BY DEF Rewind
<1>3. Edits' = Edits /\ FirstEdits(points[c].seq) \subseteq Edits
  BY <1>1 DEF Edits, FirstEdits
<1>4. \A e \in Held' : e \in Held \cup Edits
  BY <1>1, <1>2, <1>3 DEF Held
<1>5. AnswersInv'
  BY <1>1, <1>3, <1>4, SameShrunk, AnswersKept DEF PointInv
<1>6. NumbersInv'
  BY <1>1, <1>3, <1>4 DEF PointInv, NumbersInv
<1>7. ToolsInv'
  BY <1>1 DEF PointInv, ToolsInv
<1>8. TodoInv'
  <2>1. FirstEdits(points[c].seq)' = FirstEdits(points[c].seq)
    BY <1>1, <1>3 DEF FirstEdits
  <2>2. rewinding'.point = c /\ rewinding'.todo = FirstEdits(points[c].seq)
    BY <1>2
  <2>3. points'[c].seq = points[c].seq /\ c \in DOMAIN points'
    BY <1>1
  <2>4. FirstEdits(points[rewinding.point].seq)' = FirstEdits(points[c].seq)
    BY <2>1, <2>2, <2>3 DEF FirstEdits
  <2> QED
    BY <2>2, <2>3, <2>4 DEF TodoInv
<1> QED
  BY <1>5, <1>6, <1>7, <1>8 DEF PointInv

LEMMA PointRewindFile ==
  ASSUME TypeOK, PointInv, RewindFile
  PROVE  PointInv'
<1>1. UNCHANGED <<entries, seq, tool, undoing>>
  BY DEF RewindFile, journalVars, undoVars
<1>2. PICK e \in rewinding.todo :
        /\ rewinding' = IF rewinding.todo = {e} THEN NoRewind
                        ELSE [rewinding EXCEPT !.todo = @ \ {e}]
        /\ Restore(e) \/ RestoreFails(e)
  BY DEF RewindFile
<1>3. /\ Shrunk
      /\ \A c \in DOMAIN points : \A p \in Answered(c)' : disk'[p] # disk[p] => Since(c, p) # {}
  BY <1>2, RestoreWritesBack DEF PointInv, Held
<1>4. /\ rewinding'.todo \subseteq rewinding.todo
      /\ rewinding'.todo # {} => rewinding'.point = rewinding.point
  BY <1>2 DEF TypeOK, NoRewind
<1>5. \A d \in Held' : d \in Held
  BY <1>1, <1>4 DEF Held
<1> QED
  BY <1>1, <1>3, <1>4, <1>5, OwnerKept

\* A write that no point answers for afterwards.
LEMMA PointOutside ==
  ASSUME TypeOK, NEW p \in Paths, NEW v, disk' = [disk EXCEPT ![p] = v], Disturb(p, DOMAIN points)
  PROVE  /\ Shrunk
         /\ \A c \in DOMAIN points : \A q \in Answered(c)' : disk'[q] = disk[q]
<1>1. Shrunk /\ \A c \in DOMAIN points : p \notin Answered(c)'
  BY DisturbFacts
<1>2. \A c \in DOMAIN points : \A q \in Answered(c)' : q \in Paths
  BY <1>1, PointsFacts DEF Shrunk
<1> QED
  BY <1>1, <1>2 DEF TypeOK

\* A new point has no edit since, and answers only if no tool is at work.
LEMMA PointMark ==
  ASSUME TypeOK, PointInv, MarkPrompt
  PROVE  PointInv'
<1> DEFINE P == IF \A a \in Agents : At(a, "idle") THEN Paths ELSE {}
           r == [seq |-> seq, at |-> Restrict(disk, P)]
<1>n. PICK n : n = Len(points)
  OBVIOUS
<1>m. PICK m : m = n + 1
  OBVIOUS
<1>1. UNCHANGED <<entries, seq, tool, disk, undoing, rewinding>> /\ points' = Append(points, r)
  BY DEF MarkPrompt, journalVars, undoVars
<1>2. /\ n \in Nat /\ DOMAIN points = 1..n /\ DOMAIN points' = 1..(n + 1)
      /\ (\A c \in 1..n : points'[c] = points[c]) /\ points'[m] = r
  <2>1. points \in Seq(Points) /\ P \in SUBSET Paths /\ Restrict(disk, P) \in [P -> Files]
    BY DEF TypeOK, Restrict
  <2>2. r \in Points
    <3>1. Restrict(disk, P) \in UNION {[Q -> Files] : Q \in SUBSET Paths}
      BY <2>1
    <3> QED
      BY <3>1 DEF Points, TypeOK
  <2> HIDE DEF r
  <2>3. /\ points' \in Seq(Points) /\ Len(points') = n + 1
        /\ (\A c \in 1..n : points'[c] = points[c]) /\ points'[n + 1] = r
    BY <1>n, <1>1, <2>1, <2>2, AppendProperties
  <2> QED
    BY <1>n, <1>m, <2>1, <2>3, LenProperties
<1>3. r.seq = seq /\ r.at = Restrict(disk, P)
  OBVIOUS
<1>4. DOMAIN r.at = P /\ \A p \in P : r.at[p] = disk[p]
  BY <1>3 DEF Restrict
<1>5. Edits' = Edits /\ Held' = Held /\ seq \in Nat
  BY <1>1, PointsFacts DEF Edits, Held
<1>6. \A c \in DOMAIN points' : c \in DOMAIN points \/ c = m
  BY <1>2, <1>m
<1> HIDE DEF r
<1>7. NumbersInv'
  BY <1>1, <1>2, <1>3, <1>5, <1>6, <1>m DEF PointInv, NumbersInv
<1>8. ToolsInv'
  BY <1>1 DEF PointInv, ToolsInv
<1>9. ASSUME NEW c \in DOMAIN points, NEW p \in Answered(c)' PROVE Answers(c, p)'
  <2>1. points'[c] = points[c] /\ p \in Answered(c)
    BY <1>2 DEF Answered
  <2>2. Answers(c, p)
    BY <2>1 DEF PointInv, AnswersInv
  <2>3. Since(c, p)' = Since(c, p)
    BY <1>5, <2>1 DEF Since
  <2> QED
    BY <1>1, <1>5, <2>1, <2>2, <2>3 DEF Answers
<1>10. ASSUME NEW p \in Answered(m)' PROVE Answers(m, p)'
  <2>1. p \in P
    BY <1>2, <1>4 DEF Answered
  <2>2. p \in Paths /\ \A a \in Agents : tool'[a].at = "idle"
    BY <1>1, <2>1 DEF At
  <2>3. points'[m].at[p] = disk'[p] /\ points'[m].seq = seq
    BY <1>1, <1>2, <1>3, <1>4, <2>1
  <2>4. Since(m, p)' = {}
    BY <1>5, <2>3, PointsFacts DEF Since, PointInv, NumbersInv
  <2>5. \A e \in Held' : ~(e.path = p /\ e.seq >= points'[m].seq)
    BY <1>5, <2>2, <2>3, PointsFacts DEF PointInv, NumbersInv
  <2> QED
    BY <2>2, <2>3, <2>4, <2>5 DEF Answers
<1>11. TodoInv'
  <2> DEFINE c == rewinding.point
  <2> SUFFICES ASSUME NEW e \in rewinding'.todo
               PROVE  c' \in DOMAIN points' /\ (e.path \in Answered(c)' => e \in FirstEdits(points[c].seq)')
    BY DEF TodoInv
  <2>1. e \in rewinding.todo /\ c' = c /\ c \in DOMAIN points /\ points'[c] = points[c]
    BY <1>1, <1>2 DEF PointInv, TodoInv
  <2>2. FirstEdits(points[c].seq)' = FirstEdits(points[c].seq) /\ Answered(c)' = Answered(c)
    BY <1>5, <2>1 DEF FirstEdits, Answered
  <2> QED
    BY <1>2, <2>1, <2>2 DEF PointInv, TodoInv
<1> QED
  BY <1>6, <1>7, <1>8, <1>9, <1>10, <1>11 DEF PointInv, AnswersInv

LEMMA PointOwner ==
  ASSUME TypeOK, PointInv, OwnerStep
  PROVE  PointInv'
<1>1. ASSUME NEW p \in Paths, OutsideWrite(p) PROVE PointInv'
  <2>1. UNCHANGED <<entries, seq, tool, undoing, rewinding>>
    BY <1>1 DEF OutsideWrite, journalVars, undoVars
  <2>2. PICK v : disk' = [disk EXCEPT ![p] = v] /\ Disturb(p, DOMAIN points)
    BY <1>1 DEF OutsideWrite
  <2>3. Held' = Held
    BY <2>1 DEF Held
  <2> QED
    BY <2>1, <2>2, <2>3, PointOutside, OwnerKept
<1>2. CASE SweptByOther
  <2>1. UNCHANGED <<entries, seq, tool, undoing, rewinding, disk, points>>
    BY <1>2 DEF SweptByOther, undoVars
  <2>2. Held' = Held
    BY <2>1 DEF Held
  <2> QED
    BY <2>1, <2>2, SameShrunk, OwnerKept
<1> QED
  BY <1>1, <1>2, PointMark, PointUndo, PointRedo, PointRewind, PointRewindFile DEF OwnerStep

\* The steps of a tool that leave the journal's edits alone.
LEMMA PointRead ==
  ASSUME TypeOK, BlobInv, PointInv, NEW a \in Agents, NEW q \in Paths, ReadForEdit(a, q)
  PROVE  PointInv'
<1>1. /\ tool'[a] = [at |-> "read", path |-> q, before |-> AsRead(disk[q]), after |-> version + 1]
      /\ \A b \in Agents \ {a} : tool'[b] = tool[b]
  BY DEF ReadForEdit, TypeOK
<1>2. UNCHANGED <<entries, seq, disk, points, undoing, rewinding>>
  BY DEF ReadForEdit, journalVars, undoVars
<1>3. Edits' = Edits /\ Held' = Held
  BY <1>2 DEF Edits, Held
<1>4. \A b \in Agents : tool[b].after # version + 1
  BY AfterFacts DEF BlobInv
<1> QED
  BY <1>1, <1>2, <1>3, <1>4, SameShrunk, PointsKept

LEMMA PointPut ==
  ASSUME TypeOK, BlobInv, PointInv, NEW a \in Agents, StartCommand(a) \/ PutBlob(a)
  PROVE  PointInv'
<1>1. UNCHANGED <<entries, seq, disk, points, undoing, rewinding>>
  BY DEF StartCommand, PutBlob, journalVars, undoVars
<1>2. Edits' = Edits /\ Held' = Held
  BY <1>1 DEF Edits, Held
<1>3. \A b \in Agents \ {a} : tool'[b] = tool[b]
  BY DEF StartCommand, PutBlob, Goto, TypeOK
<1>4. CASE StartCommand(a)
  <2>1. tool'[a].path = None /\ None \notin Paths
    BY <1>4, JournalAssumption DEF StartCommand, TypeOK, Rest
  <2> QED
    BY <1>1, <1>2, <1>3, <2>1, SameShrunk, PointsKept
<1>5. CASE PutBlob(a)
  <2>1. /\ tool'[a].path = tool[a].path /\ tool'[a].before = tool[a].before
        /\ tool'[a].after = tool[a].after /\ tool[a].at = "read" /\ tool'[a].at \in {"sealed", "effect"}
    BY <1>5 DEF PutBlob, Goto, TypeOK, At
  <2>2. \A e \in Edits : e.after # tool[a].after
    BY <2>1 DEF BlobInv, Pending, Edits, Range, At
  <2> QED
    BY <1>1, <1>2, <1>3, <2>1, <2>2, SameShrunk, PointsKept
<1> QED
  BY <1>4, <1>5

LEMMA PointRetain ==
  ASSUME TypeOK, PointInv, NEW a \in Agents, Retain(a)
  PROVE  PointInv'
<1>1. PICK kept \in [1..Cardinality(Kept) -> Kept] :
        Range(kept) = Kept /\ entries' = [i \in DOMAIN kept |-> entries[kept[i]]]
  BY DEF Retain
<1>2. Edits' = Edits
  <2>1. Range(entries') = {entries[i] : i \in Kept}
    BY <1>1 DEF Range
  <2>2. \A i \in DOMAIN entries : IsEdit(entries[i]) => i \in Kept
    BY DEF Kept
  <2>3. Kept \subseteq DOMAIN entries
    BY DEF Kept
  <2> QED
    BY <2>1, <2>2, <2>3 DEF Edits, Range
<1>3. UNCHANGED <<seq, disk, points, undoing, rewinding>> /\ Held' = Held
  BY DEF Retain, undoVars, Held
<1>4. /\ tool'[a].path = tool[a].path /\ tool'[a].after = tool[a].after
      /\ tool'[a].at = "effect" /\ tool[a].at = "retain"
      /\ \A b \in Agents \ {a} : tool'[b] = tool[b]
  BY DEF Retain, Goto, TypeOK, At
<1> QED
  BY <1>2, <1>3, <1>4, SameShrunk, PointsKept

\* A write of a tool with an edit in the journal is known to the points before it; any other
\* write takes the file from all of them.
LEMMA PointEffect ==
  ASSUME TypeOK, PointInv, NEW a \in Agents, Effect(a)
  PROVE  PointInv'
<1>1. UNCHANGED <<entries, seq, undoing, rewinding>>
  BY DEF Effect, journalVars, undoVars
<1>2. Edits' = Edits /\ Held' = Held
  BY <1>1 DEF Edits, Held
<1>3. tool'[a].path = None /\ (\A b \in Agents \ {a} : tool'[b] = tool[b]) /\ None \notin Paths
  BY JournalAssumption DEF Effect, TypeOK, Rest
<1> DEFINE Written ==
             \A c \in DOMAIN points : \A p \in Answered(c)' : disk'[p] # disk[p] => Since(c, p) # {}
<1>4. Shrunk /\ Written
  <2>1. CASE UNCHANGED <<disk, points>>
    BY <2>1, SameShrunk
  <2>2. ASSUME NEW p \in Paths, NEW v, disk' = [disk EXCEPT ![p] = v], Disturb(p, DOMAIN points)
        PROVE  Shrunk /\ Written
    BY <2>2, PointOutside
  <2>3. ASSUME tool[a].path # None, disk' = [disk EXCEPT ![tool[a].path] = tool[a].after],
               NEW e \in Edits, e.after = tool[a].after, UNCHANGED points
        PROVE  Shrunk /\ Written
    <3>1. ASSUME NEW c \in DOMAIN points, NEW p \in Answered(c)', disk'[p] # disk[p]
          PROVE  Since(c, p) # {}
      <4>1. p \in Answered(c) /\ p \in Paths
        BY <2>3, <3>1, PointsFacts DEF Answered
      <4>2. p = tool[a].path
        BY <2>3, <3>1, <4>1 DEF TypeOK
      <4> QED
        BY <2>3, <4>1, <4>2 DEF PointInv, AnswersInv, Answers, Effect, At
    <3> QED
      BY <2>3, <3>1, SameShrunk
  <2> QED
    BY <2>1, <2>2, <2>3 DEF Effect, TypeOK
<1> QED
  BY <1>1, <1>2, <1>3, <1>4, PointsKept

LEMMA FirstSince ==
  ASSUME NEW c, NEW e
  PROVE  e \in FirstEdits(points[c].seq) <=>
           e \in Since(c, e.path) /\ \A d \in Since(c, e.path) : e.seq <= d.seq
BY DEF FirstEdits, Since

\* A new entry has a number above all the others: where the point had no edit, it found what
\* the point holds, and elsewhere the first stays the first.
LEMMA PointPush ==
  ASSUME TypeOK, BlobInv, PointInv, NEW a \in Agents, Push(a)
  PROVE  PointInv'
<1> DEFINE e == Edit(seq, tool[a])
           t == tool[a]
<1>1. /\ e \in Entries /\ e.seq = seq /\ e.path = t.path /\ e.before = t.before /\ e.after = t.after
      /\ seq \in Nat
  BY DEF Edit, Entries, TypeOK
<1>2. Edits' = Edits \cup (IF t.path # None THEN {e} ELSE {})
  <2>1. entries \in Seq(Entries) /\ entries' = Append(entries, e)
    BY DEF TypeOK, Push
  <2>2. /\ entries' \in Seq(Entries) /\ Len(entries') = Len(entries) + 1
        /\ (\A i \in 1..Len(entries) : entries'[i] = entries[i])
        /\ entries'[Len(entries) + 1] = e
    <3> HIDE DEF e
    <3> QED
      BY <1>1, <2>1, AppendProperties
  <2>3. DOMAIN entries = 1..Len(entries) /\ DOMAIN entries' = 1..(Len(entries) + 1) /\ Len(entries) \in Nat
    BY <2>1, <2>2, LenProperties
  <2>4. \A i \in DOMAIN entries' : i \in DOMAIN entries \/ i = Len(entries) + 1
    BY <2>3
  <2> HIDE DEF e
  <2>5. Range(entries') = Range(entries) \cup {e}
    BY <2>2, <2>3, <2>4 DEF Range
  <2> QED
    BY <1>1, <2>5 DEF Edits, IsEdit
<1> HIDE DEF e
<1>3. UNCHANGED <<points, disk, rewinding, undoing>> /\ seq' = seq + 1 /\ t.at = "sealed" /\ Held' = Held
  BY DEF Push, undoVars, At, Held
<1>4. /\ tool'[a].at \in {"retain", "effect"} /\ tool'[a].path = t.path /\ tool'[a].after = t.after
      /\ \A b \in Agents \ {a} : tool'[b] = tool[b]
  BY DEF Push, Goto, TypeOK
<1> HIDE DEF t
<1>5. \A d \in Edits : d.seq < seq /\ d.seq \in Nat
  BY PointsFacts DEF PointInv, NumbersInv
<1>6. \A d \in Edits : t.path # None => d.after # t.after
  BY <1>3 DEF BlobInv, Pending, Edits, Range, t
<1>7. \A b \in Agents : b # a /\ t.path # None /\ tool[b].path # None => tool[b].after # t.after
  BY DEF PointInv, ToolsInv, t
<1>8. NumbersInv'
  <2>1. \A d \in Edits' : d.seq < seq'
    BY <1>1, <1>2, <1>3, <1>5
  <2>2. \A c \in DOMAIN points' : points'[c].seq <= seq'
    BY <1>1, <1>3, PointsFacts DEF PointInv, NumbersInv
  <2>3. \A d \in Held' : d.path # None => d.seq < seq'
    BY <1>1, <1>3, PointsFacts DEF PointInv, NumbersInv
  <2> QED
    BY <2>1, <2>2, <2>3 DEF NumbersInv
<1>9. ToolsInv'
  BY <1>4 DEF PointInv, ToolsInv, t
<1>10. ASSUME NEW c \in DOMAIN points, NEW p \in Answered(c)
       PROVE  /\ Answers(c, p) /\ p \in Paths /\ p # None /\ points[c].seq \in Nat /\ points[c].seq <= seq
              /\ Since(c, p)' = Since(c, p) \cup (IF t.path = p THEN {e} ELSE {})
  <2>1. Answers(c, p) /\ p \in Paths /\ p # None /\ points[c].seq \in Nat /\ points[c].seq <= seq
    BY PointsFacts DEF PointInv, AnswersInv, NumbersInv
  <2>2. Since(c, p)' = {d \in Edits' : d.path = p /\ d.seq >= points[c].seq}
    BY <1>3 DEF Since
  <2>3. t.path = p => Edits' = Edits \cup {e}
    BY <1>2, <2>1
  <2>4. e.seq >= points[c].seq
    BY <1>1, <2>1
  <2> QED
    BY <1>1, <1>2, <2>1, <2>2, <2>3, <2>4 DEF Since
<1>11. AnswersInv'
  <2> SUFFICES ASSUME NEW c \in DOMAIN points, NEW p \in Answered(c)
               PROVE  Answers(c, p)'
    BY <1>3 DEF AnswersInv, Answered
  <2> DEFINE v == points[c].at[p]
  <2>1. ASSUME NEW d \in Since(c, p)', \A x \in Since(c, p)' : d.seq <= x.seq PROVE d.before = AsRead(v)
    <3>1. CASE d \in Since(c, p)
      BY <1>10, <2>1, <3>1 DEF Answers
    <3>2. CASE d \notin Since(c, p)
      <4>1. d = e /\ t.path = p
        BY <1>10, <3>2
      <4>2. \A x \in Since(c, p) : x.seq < d.seq /\ x.seq \in Nat /\ d.seq \in Nat
        BY <1>1, <1>5, <4>1 DEF Since
      <4>3. Since(c, p) = {}
        BY <1>10, <2>1, <4>2
      <4> QED
        BY <1>1, <1>3, <1>10, <4>1, <4>3 DEF Answers, t
    <3> QED
      BY <3>1, <3>2
  <2>2. ASSUME Since(c, p)' = {}
        PROVE  /\ disk'[p] = v
               /\ \A b \in Agents : tool'[b].path = p /\ tool'[b].at \in {"read", "sealed"} =>
                                      tool'[b].before = AsRead(v)
    <3>1. Since(c, p) = {} /\ Answers(c, p)
      BY <1>10, <2>2
    <3> QED
      BY <1>3, <1>4, <3>1 DEF Answers
  <2>3. ASSUME NEW b \in Agents, tool'[b].path = p, tool'[b].at \in {"retain", "effect"},
               NEW d \in Edits', d.after = tool'[b].after
        PROVE  d \in Since(c, p)'
    <3>1. CASE b = a
      <4>1. t.path = p /\ d.after = t.after /\ t.path # None
        BY <1>4, <1>10, <2>3, <3>1
      <4>2. d = e
        BY <1>2, <1>6, <4>1
      <4> QED
        BY <1>10, <4>1, <4>2
    <3>2. CASE b # a
      <4>1. tool[b].path = p /\ tool[b].at \in {"retain", "effect"} /\ d.after = tool[b].after
        BY <1>4, <2>3, <3>2
      <4>2. d \in Edits
        BY <1>1, <1>2, <1>7, <1>10, <3>2, <4>1
      <4> QED
        BY <1>10, <4>1, <4>2 DEF Answers
    <3> QED
      BY <3>1, <3>2
  <2>4. \A d \in Held' : d.path = p /\ d.seq >= points[c].seq => d \in Edits'
    BY <1>2, <1>3, <1>10 DEF Answers
  <2>5. points' = points
    BY <1>3
  <2> QED
    BY <2>1, <2>2, <2>3, <2>4, <2>5 DEF Answers
<1>12. TodoInv'
  <2> DEFINE c == rewinding.point
  <2>0. c' = c /\ points' = points /\ rewinding' = rewinding
    BY <1>3
  <2> SUFFICES ASSUME NEW d \in rewinding.todo, d.path \in Answered(c)
               PROVE  c \in DOMAIN points /\ d \in FirstEdits(points[c].seq)'
    BY <2>0 DEF PointInv, TodoInv, Answered, FirstEdits
  <2>1. c \in DOMAIN points /\ d \in FirstEdits(points[c].seq)
    BY DEF PointInv, TodoInv
  <2>2. d \in Edits /\ d.seq >= points[c].seq /\ d.seq <= seq
        /\ \A x \in Edits : x.path = d.path /\ x.seq >= points[c].seq => d.seq <= x.seq
    BY <1>1, <1>5, <2>1 DEF FirstEdits
  <2>3. \A x \in Edits' : x.path = d.path /\ x.seq >= points[c].seq => d.seq <= x.seq
    BY <1>1, <1>2, <2>2
  <2> QED
    BY <1>2, <2>0, <2>1, <2>2, <2>3 DEF FirstEdits
<1> QED
  BY <1>8, <1>9, <1>11, <1>12 DEF PointInv

\* An edit that goes takes its file from the points that knew it.
LEMMA PointEvict ==
  ASSUME TypeOK, PointInv, NEW a \in Agents, Evict(a)
  PROVE  PointInv'
<1>1. PICK i \in DOMAIN entries :
        /\ entries' = RemoveAt(entries, i)
        /\ Disturb(entries[i].path, PointsUpTo(entries[i].seq))
  BY DEF Evict
<1> DEFINE x == entries[i]
<1>2. Edits' \subseteq Edits /\ \A d \in Edits : d # x => d \in Edits'
  <2> DEFINE n == Len(entries)
  <2>1. /\ n \in Nat /\ DOMAIN entries = 1..n /\ i \in 1..n /\ DOMAIN entries' = 1..(n - 1)
        /\ \A k \in 1..(n - 1) : entries'[k] = IF k < i THEN entries[k] ELSE entries[k + 1]
    BY <1>1, EntriesFacts, RemoveFacts
  <2> HIDE DEF n
  <2>2. \A k \in 1..(n - 1) : k \in 1..n /\ k + 1 \in 1..n
    BY <2>1
  <2>3. Range(entries') \subseteq Range(entries)
    BY <2>1, <2>2 DEF Range
  <2>4. ASSUME NEW j \in 1..n, entries[j] # x PROVE entries[j] \in Range(entries')
    <3>1. CASE j < i
      <4>1. j \in 1..(n - 1)
        BY <2>1, <3>1
      <4> QED
        BY <2>1, <3>1, <4>1 DEF Range
    <3>2. CASE j > i
      <4>1. j - 1 \in 1..(n - 1) /\ ~(j - 1 < i) /\ (j - 1) + 1 = j
        BY <2>1, <3>2
      <4>2. entries'[j - 1] = entries[j]
        BY <2>1, <4>1
      <4> QED
        BY <2>1, <4>1, <4>2 DEF Range
    <3>3. j # i
      BY <2>4
    <3> QED
      BY <2>1, <3>1, <3>2, <3>3
  <2> HIDE DEF x
  <2> QED
    BY <2>1, <2>3, <2>4 DEF Edits, Range
<1>3. x \in Entries /\ x.seq \in Nat
  BY EntriesFacts DEF Entries
<1>4. Shrunk /\ \A c \in DOMAIN points : c \in PointsUpTo(x.seq) => x.path \notin Answered(c)'
  BY <1>1, DisturbFacts
<1>5. UNCHANGED <<seq, tool, disk, undoing, rewinding>> /\ Held' = Held
  BY DEF Evict, undoVars, Held
<1> HIDE DEF x
<1>6. ASSUME NEW c \in DOMAIN points, NEW p \in Answered(c)'
      PROVE  /\ p \in Answered(c) /\ Answers(c, p) /\ points'[c].seq = points[c].seq
             /\ points'[c].at[p] = points[c].at[p] /\ x \notin Since(c, p) /\ Since(c, p)' = Since(c, p)
  <2>1. p \in Answered(c) /\ points'[c].seq = points[c].seq /\ points'[c].at[p] = points[c].at[p]
    BY <1>4 DEF Shrunk
  <2>2. Answers(c, p)
    BY <2>1 DEF PointInv, AnswersInv
  <2>3. x \notin Since(c, p)
    BY <1>3, <1>4, PointsFacts DEF Since, PointsUpTo
  <2>4. Since(c, p)' = Since(c, p)
    BY <1>2, <2>1, <2>3 DEF Since
  <2> QED
    BY <2>1, <2>2, <2>3, <2>4
<1>7. NumbersInv'
  BY <1>2, <1>4, <1>5 DEF PointInv, NumbersInv, Shrunk
<1>8. ToolsInv'
  BY <1>5 DEF PointInv, ToolsInv
<1>9. AnswersInv'
  <2> SUFFICES ASSUME NEW c \in DOMAIN points, NEW p \in Answered(c)' PROVE Answers(c, p)'
    BY <1>4 DEF AnswersInv, Shrunk
  <2>1. \A d \in Edits' : d \in Edits
    BY <1>2
  <2>2. ASSUME NEW d \in Held', d.path = p, d.seq >= points'[c].seq PROVE d \in Edits'
    <3>1. d \in Edits /\ d \in Since(c, p)
      BY <1>5, <1>6, <2>2 DEF Answers, Since
    <3> QED
      BY <1>2, <1>6, <3>1
  <2> QED
    BY <1>5, <1>6, <2>1, <2>2 DEF Answers
<1>10. TodoInv'
  <2> DEFINE c == rewinding.point
  <2>0. c' = c /\ rewinding' = rewinding
    BY <1>5
  <2> SUFFICES ASSUME NEW d \in rewinding.todo
               PROVE  c \in DOMAIN points' /\ (d.path \in Answered(c)' => d \in FirstEdits(points[c].seq)')
    BY <2>0 DEF TodoInv
  <2>1. c \in DOMAIN points /\ DOMAIN points' = DOMAIN points
    BY <1>4 DEF PointInv, TodoInv, Shrunk
  <2>2. ASSUME d.path \in Answered(c)' PROVE d \in FirstEdits(points[c].seq)'
    <3>1. d.path \in Answered(c) /\ Since(c, d.path)' = Since(c, d.path)
      BY <1>6, <2>0, <2>1, <2>2
    <3>2. d \in FirstEdits(points[c].seq)
      BY <3>1 DEF PointInv, TodoInv
    <3>3. d \in Since(c, d.path) /\ \A y \in Since(c, d.path) : d.seq <= y.seq
      BY <3>2, FirstSince
    <3>4. /\ d \in Edits' /\ d.seq >= points'[c].seq
          /\ \A y \in Edits' : y.path = d.path /\ y.seq >= points'[c].seq => d.seq <= y.seq
      BY <2>0, <3>1, <3>3 DEF Since
    <3> QED
      BY <2>0, <3>4 DEF FirstEdits
  <2> QED
    BY <2>1, <2>2
<1> QED
  BY <1>7, <1>8, <1>9, <1>10 DEF PointInv

LEMMA PointInit == Init => PointInv
<1> SUFFICES ASSUME Init PROVE PointInv
  OBVIOUS
<1>1. entries = <<>> /\ points = <<>> /\ rewinding.todo = {} /\ undoing.entry.path = None
  BY DEF Init, NoRewind, NoUndo, Edit, Rest
<1>2. Edits = {} /\ DOMAIN points = {} /\ \A a \in Agents : tool[a].path = None
  BY <1>1 DEF Init, Edits, Range, Rest
<1> QED
  BY <1>1, <1>2 DEF PointInv, NumbersInv, ToolsInv, AnswersInv, TodoInv, Held

LEMMA PointStep == TypeOK /\ BlobInv /\ PointInv /\ [Next]_vars => PointInv'
<1> SUFFICES ASSUME TypeOK, BlobInv, PointInv, [Next]_vars PROVE PointInv'
  OBVIOUS
<1>1. CASE UNCHANGED vars
  <2>1. UNCHANGED <<entries, seq, tool, disk, points, undoing, rewinding>>
    BY <1>1 DEF vars, journalVars, undoVars
  <2>2. Held' = Held
    BY <2>1 DEF Held
  <2> QED
    BY <2>1, <2>2, SameShrunk, OwnerKept
<1>2. ASSUME NEW a \in Agents, ToolStep(a) PROVE PointInv'
  BY <1>2, PointRead, PointPut, PointPush, PointEvict, PointRetain, PointEffect DEF ToolStep
<1> QED
  BY <1>1, <1>2, PointOwner DEF Next

\* What a rewind writes is what a read gives of what the point held.
LEMMA RewindGood ==
  ASSUME TypeOK, PointInv, Next,
         NEW e \in rewinding.todo \ rewinding'.todo, HasBlob(e), failures' = failures,
         e.path \in DOMAIN points[rewinding.point].at
  PROVE  disk'[e.path] = AsRead(points[rewinding.point].at[e.path])
<1> DEFINE c == rewinding.point
<1>1. c \in DOMAIN points /\ e.path \in Answered(c) /\ e \in FirstEdits(points[c].seq)
  BY DEF PointInv, TodoInv, Answered
<1>2. e.before = AsRead(points[c].at[e.path]) /\ e.path \in Paths
  BY <1>1, FirstSince, PointsFacts DEF PointInv, AnswersInv, Answers
<1>3. RewindFile
  <2>1. rewinding' # rewinding
    OBVIOUS
  <2>2. \A a \in Agents : ~ToolStep(a)
    BY <2>1 DEF ToolStep, ReadForEdit, StartCommand, PutBlob, Push, Evict, Retain, Effect
  <2>3. ~(\E d \in DOMAIN points : Rewind(d))
    BY DEF Rewind, OwnerFree, NoRewind
  <2> QED
    BY <2>1, <2>2, <2>3 DEF Next, OwnerStep, MarkPrompt, Undo, UndoEnds, Redo, OutsideWrite, SweptByOther
<1>4. PICK d \in rewinding.todo :
        /\ rewinding' = IF rewinding.todo = {d} THEN NoRewind
                        ELSE [rewinding EXCEPT !.todo = @ \ {d}]
        /\ Restore(d) \/ RestoreFails(d)
  BY <1>3 DEF RewindFile
<1>5. d = e
  <2>1. rewinding'.todo = rewinding.todo \ {d}
    BY <1>4 DEF TypeOK, NoRewind
  <2> QED
    BY <2>1
<1>6. ~RestoreFails(e)
  BY DEF RestoreFails, Fails, TypeOK
<1>7. disk' = [disk EXCEPT ![e.path] = e.before]
  BY <1>4, <1>5, <1>6 DEF Restore
<1> QED
  BY <1>2, <1>7 DEF TypeOK

\* A file that a rewind takes back holds what it held when the point was marked, or what a read
\* gives of that when no read gives it whole, as long as only the journal's edits have touched it
\* and the journal has them: for any number of edits, undos, redos and earlier rewinds, of any
\* agents at work meanwhile.
THEOREM RewindRestoresHolds == Spec => RewindRestores
<1>1. Init => TypeOK /\ BlobInv /\ PointInv
  BY TypeInit, BlobInit, PointInit
<1>2. TypeOK /\ BlobInv /\ PointInv /\ [Next]_vars => (TypeOK /\ BlobInv /\ PointInv)'
  BY TypeStep, BlobStep, PointStep
<1>3. TypeOK /\ PointInv /\ [Next]_vars =>
        [\A e \in rewinding.todo \ rewinding'.todo :
           HasBlob(e) /\ failures' = failures /\ e.path \in DOMAIN points[rewinding.point].at
             => disk'[e.path] = AsRead(points[rewinding.point].at[e.path])]_vars
  BY RewindGood
<1> QED
  BY <1>1, <1>2, <1>3, PTL DEF Spec, RewindRestores
=============================================================================
