---------------------------- MODULE EditJournal ----------------------------
(***************************************************************************)
(* What lets the owner take back the agents' edits: the journal of         *)
(* contents before an edit (core/agent/journal/journal.ts) over its store  *)
(* (cli/io/journal-store.ts), filled by edit_file, write_file and          *)
(* run_command; /undo and /redo (cli/session/undo-controller.ts); the      *)
(* points that prompts mark and /rewind goes back to                       *)
(* (core/agent/checkpoint/checkpoint.ts).                                  *)
(*                                                                         *)
(* Contents are numbers, a new one for every edit; 0 is a file that does   *)
(* not exist, -n what a read gives of a content n that it does not give    *)
(* whole. An edit is known by the content it makes, and so is the blob     *)
(* with the content before it. Tools run interleaved, each from await to   *)
(* await; the owner waits for the note of a command before the next one.   *)
(***************************************************************************)
EXTENDS Integers, Sequences, FiniteSets, SequencesExt

CONSTANTS
  Paths, None,   \* files; no file
  Agents,        \* the main agent and its detached children
  Cut,           \* contents no read gives whole: too big, binary, not UTF-8
  MaxEntries,    \* maxEntries: how many edits the journal keeps
  Headroom,      \* TOTAL_ENTRIES_HEADROOM: barriers beyond them
  MaxVersions, MaxPoints, MaxOdd  \* bounds; of commands and failures together

ASSUME JournalAssumption ==
  /\ None \notin Paths /\ Cut \subseteq Nat \ {0}
  /\ MaxEntries \in Nat \ {0} /\ Headroom \in Nat
  /\ MaxVersions \in Nat \ {0} /\ MaxPoints \in Nat /\ MaxOdd \in Nat

VARIABLES
  disk, version,  \* what each file holds; how many contents there have been
  tool,           \* each agent's call of a tool that the journal accompanies
  entries, seq,   \* entries and seq of SnapshotJournal
  blobs,          \* contents before the edits, in the store
  cursor,         \* UndoController's cursor plus one; 0 is null
  redoStack,      \* edits undone
  undoing,        \* an /undo between its check and its write
  armed,          \* pendingUndoConfirm
  points,         \* checkpoints, with the files the properties hold them to
  rewinding,      \* restoreCode: the point, the edits still to take back
  commands, failures,
  moved, swept    \* for the properties: entries moved under the cursor; last content lost

journalVars == <<entries, seq, blobs>>
undoVars == <<cursor, redoStack, undoing, armed>>
countVars == <<commands, failures>>
ghostVars == <<moved, swept>>
vars == <<disk, version, tool, journalVars, undoVars, points, rewinding, countVars, ghostVars>>

Edit(n, t) == [seq |-> n, path |-> t.path, before |-> t.before, after |-> t.after]
IsEdit(e) == e.path # None
Edits == {e \in Range(entries) : IsEdit(e)}
Rest == [at |-> "idle", path |-> None, before |-> 0, after |-> 0]

At(a, p) == tool[a].at = p
Goto(a, p) == tool' = [tool EXCEPT ![a].at = p]
Fails == commands + failures < MaxOdd /\ failures' = failures + 1 /\ UNCHANGED commands

\* The points of C no longer answer for path p.
Disturb(p, C) ==
  points' = [c \in DOMAIN points |->
               IF c \in C THEN [points[c] EXCEPT !.at = Restrict(@, DOMAIN @ \ {p})]
               ELSE points[c]]
PointsAfter(n) == {c \in DOMAIN points : points[c].seq > n}
PointsUpTo(n) == {c \in DOMAIN points : points[c].seq <= n}

EntriesMoved == moved' = (moved \/ cursor # 0) /\ UNCHANGED swept

-----------------------------------------------------------------------------
(* Tools *)

\* readFileMeta: the beginning of a file above the limit, nothing of a binary one.
AsRead(c) == IF c \in Cut THEN -c ELSE c

\* edit_file and write_file read the file and compute what it will hold. What they read is what
\* the journal gets: edit_file refuses a read it knows to be partial, write_file does so only
\* without overwrite.
ReadForEdit(a, p) ==
  /\ At(a, "idle") /\ version < MaxVersions
  /\ version' = version + 1
  /\ tool' = [tool EXCEPT ![a] = [at |-> "read", path |-> p, before |-> AsRead(disk[p]),
                                  after |-> version + 1]]
  /\ UNCHANGED <<disk, journalVars, undoVars, points, rewinding, countVars, ghostVars>>

\* run_command only marks a barrier.
StartCommand(a) ==
  /\ At(a, "idle") /\ commands + failures < MaxOdd
  /\ commands' = commands + 1 /\ UNCHANGED failures
  /\ tool' = [tool EXCEPT ![a] = [Rest EXCEPT !.at = "sealed"]]
  /\ UNCHANGED <<disk, version, journalVars, undoVars, points, rewinding, ghostVars>>

\* putBlob; the tool goes on without a capture when it fails (toolPort).
PutBlob(a) ==
  /\ At(a, "read")
  /\ \/ /\ blobs' = blobs \cup {tool[a].after} /\ Goto(a, "sealed")
        /\ UNCHANGED countVars
     \/ Fails /\ Goto(a, "effect") /\ UNCHANGED blobs
  /\ UNCHANGED <<disk, version, entries, seq, undoVars, points, rewinding, ghostVars>>

\* push: the entry is in memory when the append to the stack file fails, and then nothing
\* is evicted.
Push(a) ==
  /\ At(a, "sealed")
  /\ seq' = seq + 1
  /\ entries' = Append(entries, Edit(seq, tool[a]))
  /\ EntriesMoved
  /\ \/ Goto(a, "retain") /\ UNCHANGED countVars
     \/ Fails /\ Goto(a, "effect")
  /\ UNCHANGED <<disk, version, blobs, undoVars, points, rewinding>>

\* Mutant: the entry goes, its blob stays.
KeepBlob(e) == UNCHANGED blobs

DeleteBlob(e) == blobs' = blobs \ {e.after}

\* enforceRetention: the oldest edit goes with its blob, one at a time.
Evict(a) ==
  /\ At(a, "retain") /\ Cardinality(Edits) > MaxEntries
  /\ \E i \in DOMAIN entries :
       /\ IsEdit(entries[i]) /\ \A j \in 1..(i - 1) : ~IsEdit(entries[j])
       /\ entries' = RemoveAt(entries, i)
       /\ DeleteBlob(entries[i])
       /\ Disturb(entries[i].path, PointsUpTo(entries[i].seq))
  /\ EntriesMoved
  /\ UNCHANGED <<disk, version, tool, seq, undoVars, rewinding, countVars>>

\* Mutant: one above the total stays.
LooseSurplus == Len(entries) - (MaxEntries + Headroom + 1)

\* ... then the oldest barriers above the total; what is kept keeps its order.
Surplus == Len(entries) - (MaxEntries + Headroom)

Kept == {i \in DOMAIN entries :
           IsEdit(entries[i]) \/ Cardinality({j \in 1..i : ~IsEdit(entries[j])}) > Surplus}
Retain(a) ==
  /\ At(a, "retain") /\ Cardinality(Edits) <= MaxEntries
  /\ \E kept \in [1..Cardinality(Kept) -> Kept] :
       /\ Range(kept) = Kept /\ \A i, j \in DOMAIN kept : i < j => kept[i] < kept[j]
       /\ entries' = [i \in DOMAIN kept |-> entries[kept[i]]]
  /\ IF entries' = entries THEN UNCHANGED ghostVars ELSE EntriesMoved
  /\ Goto(a, "effect")
  /\ UNCHANGED <<disk, version, seq, blobs, undoVars, points, rewinding, countVars>>

\* The effect itself: the file is written, or not; the command changes a file, or none. A
\* write without an entry is one no point knows how to take back.
Effect(a) ==
  /\ At(a, "effect") /\ tool' = [tool EXCEPT ![a] = Rest]
  /\ \/ UNCHANGED <<disk, version, points>>
     \/ /\ tool[a].path # None /\ UNCHANGED version
        /\ disk' = [disk EXCEPT ![tool[a].path] = tool[a].after]
        /\ IF \E e \in Edits : e.after = tool[a].after THEN UNCHANGED points
           ELSE Disturb(tool[a].path, DOMAIN points)
     \/ \E p \in Paths :
          /\ tool[a].path = None /\ version < MaxVersions /\ version' = version + 1
          /\ disk' = [disk EXCEPT ![p] = version + 1] /\ Disturb(p, DOMAIN points)
  /\ UNCHANGED <<journalVars, undoVars, rewinding, countVars, ghostVars>>

-----------------------------------------------------------------------------
(* The owner: prompts, /undo, /redo, /rewind, changes from outside *)

\* markPrompt. The main agent, whichever it is, is between turns; the others may be at work.
MarkPrompt ==
  /\ (\E a \in Agents : At(a, "idle")) /\ Len(points) < MaxPoints
  /\ points' = Append(points, [seq |-> seq, at |->
                 Restrict(disk, IF \A a \in Agents : At(a, "idle") THEN Paths ELSE {})])
  /\ UNCHANGED <<disk, version, tool, journalVars, undoVars, rewinding, countVars, ghostVars>>

\* restore: the file is removed when the edit made it, else the blob is written back. A lost
\* blob makes it fail; so may the write.
HasBlob(e) == e.before = 0 \/ e.after \in blobs
Restore(e) == HasBlob(e) /\ disk' = [disk EXCEPT ![e.path] = e.before]
              /\ Disturb(e.path, PointsAfter(e.seq))
RestoreFails(e) == (IF HasBlob(e) THEN Fails ELSE UNCHANGED countVars) /\ UNCHANGED <<disk, points>>

NoUndo == [entry |-> Edit(0, Rest), at |-> 0, go |-> FALSE]
NoRewind == [point |-> 0, todo |-> {}]
OwnerFree == undoing = NoUndo /\ rewinding = NoRewind

\* syncCursor: never above the top.
Synced == IF cursor = 0 \/ cursor - 1 > Len(entries) THEN Len(entries) ELSE cursor - 1

\* undo down to its check: barriers are passed over; a second /undo after a question goes
\* on whatever the file holds.
Undo ==
  /\ OwnerFree /\ armed' = FALSE
  /\ \E pos \in 0..Synced :
       /\ pos # 0 => IsEdit(entries[pos])
       /\ \A i \in (pos + 1)..Synced : ~IsEdit(entries[i])
       /\ cursor' = pos + 1
       /\ undoing' = IF pos = 0 THEN NoUndo
                     ELSE [entry |-> entries[pos], at |-> pos,
                           go |-> armed \/ disk[entries[pos].path] = entries[pos].after]
  /\ UNCHANGED <<disk, version, tool, journalVars, redoStack, points, rewinding, countVars,
                 ghostVars>>

\* It asks, or writes and steps back.
UndoEnds ==
  /\ undoing # NoUndo /\ undoing' = NoUndo
  /\ LET e == undoing.entry IN
       \/ /\ ~undoing.go /\ armed' = TRUE
          /\ UNCHANGED <<disk, points, cursor, redoStack, countVars>>
       \/ /\ undoing.go /\ armed' = FALSE /\ Restore(e)
          /\ redoStack' = Append(redoStack, e) /\ cursor' = undoing.at /\ UNCHANGED countVars
       \/ /\ undoing.go /\ armed' = FALSE /\ RestoreFails(e) /\ UNCHANGED <<cursor, redoStack>>
  /\ UNCHANGED <<version, tool, journalVars, rewinding, ghostVars>>

\* Mutant: the cursor stays.
CursorStays == UNCHANGED cursor

CursorForward == cursor' = IF cursor = 0 THEN 0 ELSE cursor + 1

\* redo: the last edit undone is written again if the journal still has its content.
Redoable == IF redoStack = <<>> THEN FALSE ELSE Last(redoStack) \in Edits
Redo ==
  /\ OwnerFree /\ armed' = FALSE
  /\ \/ /\ Redoable
        /\ LET e == Last(redoStack) IN
             \/ /\ disk' = [disk EXCEPT ![e.path] = e.after]
                /\ Disturb(e.path, PointsAfter(e.seq))
                /\ redoStack' = Front(redoStack) /\ CursorForward
                /\ UNCHANGED countVars
             \/ Fails /\ UNCHANGED <<disk, points, redoStack, cursor>>
     \/ /\ ~Redoable
        /\ UNCHANGED <<disk, points, redoStack, cursor, countVars>>
  /\ UNCHANGED <<version, tool, journalVars, undoing, rewinding, ghostVars>>

\* Mutant: the last edit of each file.
LastEdits(n) ==
  {e \in Edits : e.seq >= n /\ \A d \in Edits : d.path = e.path => d.seq <= e.seq}

\* The first edit of each file since number n.
FirstEdits(n) ==
  {e \in Edits : e.seq >= n /\ \A d \in Edits : d.path = e.path /\ d.seq >= n => e.seq <= d.seq}

\* restoreCode groups the edits, then takes the files back one after the other.
Rewind(c) ==
  /\ OwnerFree /\ FirstEdits(points[c].seq) # {}
  /\ rewinding' = [point |-> c, todo |-> FirstEdits(points[c].seq)]
  /\ UNCHANGED <<disk, version, tool, journalVars, undoVars, points, countVars, ghostVars>>

RewindFile ==
  /\ \E e \in rewinding.todo :
       /\ \A d \in rewinding.todo : e.seq <= d.seq
       /\ rewinding' = IF rewinding.todo = {e} THEN NoRewind
                       ELSE [rewinding EXCEPT !.todo = @ \ {e}]
       /\ (Restore(e) /\ UNCHANGED countVars) \/ RestoreFails(e)
  /\ UNCHANGED <<version, tool, journalVars, undoVars, ghostVars>>

\* The owner's editor writes a file or deletes it.
OutsideWrite(p) ==
  /\ version < MaxVersions /\ version' = version + 1
  /\ \E content \in {version + 1, 0} : disk' = [disk EXCEPT ![p] = content]
  /\ Disturb(p, DOMAIN points)
  /\ UNCHANGED <<tool, journalVars, undoVars, rewinding, countVars, ghostVars>>

\* gcOrphans of another process: the directory of a session is old when nothing was made in
\* it for a day, in use or not. The next blob makes it anew.
SweptByOther ==
  /\ Fails /\ blobs # {}
  /\ blobs' = {} /\ swept' = version /\ UNCHANGED moved
  /\ UNCHANGED <<disk, version, tool, entries, seq, undoVars, points, rewinding>>

-----------------------------------------------------------------------------
Init ==
  /\ disk \in [Paths -> {0, 1}] /\ version = 1
  /\ tool = [a \in Agents |-> Rest]
  /\ entries = <<>> /\ seq = 0 /\ blobs = {}
  /\ cursor = 0 /\ redoStack = <<>> /\ undoing = NoUndo /\ armed = FALSE
  /\ points = <<>> /\ rewinding = NoRewind
  /\ commands = 0 /\ failures = 0 /\ moved = FALSE /\ swept = 0

ToolStep(a) ==
  \/ \E p \in Paths : ReadForEdit(a, p)
  \/ StartCommand(a) \/ PutBlob(a) \/ Push(a) \/ Evict(a) \/ Retain(a) \/ Effect(a)

OwnerStep ==
  \/ MarkPrompt \/ Undo \/ UndoEnds \/ Redo
  \/ (\E c \in DOMAIN points : Rewind(c)) \/ RewindFile
  \/ (\E p \in Paths : OutsideWrite(p)) \/ SweptByOther

Next == (\E a \in Agents : ToolStep(a)) \/ OwnerStep

Spec == Init /\ [][Next]_vars

-----------------------------------------------------------------------------
(* Properties *)

Contents == 0..MaxVersions
Files == (-MaxVersions)..MaxVersions
Entries == [seq : Nat, path : Paths \cup {None}, before : Files, after : Contents]
Points == [seq : Nat, at : UNION {[P -> Files] : P \in SUBSET Paths}]
AllEdits == \A i \in DOMAIN entries : IsEdit(entries[i])

\* Type invariant of the journal, the undo controller, the checkpoints and the files.
TypeOK ==
  /\ disk \in [Paths -> Files] /\ version \in Contents
  /\ tool \in [Agents -> [at : {"idle", "read", "sealed", "retain", "effect"},
                          path : Paths \cup {None}, before : Files, after : Contents]]
  /\ entries \in Seq(Entries) /\ seq \in Nat /\ blobs \subseteq Contents
  /\ armed \in BOOLEAN /\ moved \in BOOLEAN
  /\ cursor \in Nat /\ redoStack \in Seq(Entries)
  /\ undoing \in [entry : Entries, at : Nat, go : BOOLEAN]
  /\ points \in Seq(Points)
  /\ rewinding \in [point : Nat, todo : SUBSET Entries]
  /\ commands \in Nat /\ failures \in Nat /\ swept \in Contents

\* What is kept can be given back, and what is not kept is gone: every edit in the journal has
\* its blob unless another process swept it, and every blob is of an edit in the journal or of
\* a capture under way (enforceRetention: "unlink real").
BlobsMatchEntries ==
  /\ \A e \in Edits : e.after > swept => e.after \in blobs
  /\ \A b \in blobs : \/ \E e \in Edits : e.after = b
                      \/ \E a \in Agents : At(a, "sealed") /\ tool[a].after = b

\* The journal keeps to its two ceilings but for the captures that are about to evict, as
\* long as nothing fails: no order of captures and barriers leaves more.
RetentionHolds ==
  failures = 0 =>
    LET due == Cardinality({a \in Agents : At(a, "retain")}) IN
    /\ Cardinality(Edits) <= MaxEntries + due
    /\ Len(entries) <= MaxEntries + Headroom + due

\* While nothing enters or leaves the journal after the first /undo and no barrier is in it, undo
\* and redo move along one line: the redo stack is what lies above the cursor, the lowest
\* last, whatever fails, asks or is forced.
StackInStep ==
  cursor # 0 /\ ~moved /\ AllEdits =>
    /\ cursor - 1 + Len(redoStack) = Len(entries)
    /\ \A i \in DOMAIN redoStack : redoStack[i] = entries[Len(entries) + 1 - i]

\* A file that /rewind takes back holds what it held when the point was marked, or what a read
\* gives of that when no read gives it whole, if only the journal's edits since the point have
\* touched it, the journal has them all, and no tool was at work when the point was marked.
RewindRestores ==
  [][\A e \in rewinding.todo \ rewinding'.todo :
       HasBlob(e) /\ failures' = failures /\ e.path \in DOMAIN points[rewinding.point].at
         => disk'[e.path] = AsRead(points[rewinding.point].at[e.path])]_vars
=============================================================================
