----------------------------- MODULE RoomStore -----------------------------
(***************************************************************************)
(* A room kept in a file that several processes share                      *)
(* (cli/src/session/rooms/file-room-store.ts), and the posts into it       *)
(* (cli-core/src/agent/rooms: room-tools.ts, mesh.ts).  A process does one *)
(* operation at a time; every call of the file system is a step, since the *)
(* others' calls come between.  There is one room: its code is random, so  *)
(* rooms meet only in evictDead, which reads them all.                     *)
(*                                                                         *)
(* A process may die at any step, and may sleep so long that its lock gets *)
(* older than the age at which locks count as stale.                       *)
(***************************************************************************)
EXTENDS Naturals, FiniteSets, Sequences, SequencesExt, Filtering

CONSTANTS
  Processes, Nobody,
  MaxPosts,          \* bound on the messages one process posts
  Faults             \* of "crash", "sleep" and "evict": what happens in this instance

ASSUME ProcessesAssumption == Nobody \notin Processes
ASSUME PostsAssumption == MaxPosts \in Nat

VARIABLES
  alive,     \* the processes that live
  pc,        \* where each process is in its operation, or died
  lock,      \* the lock file
  file,      \* the room's file
  creator, known,   \* who created the room, and whether others have its code
  view,      \* the messages of the room a process is to store
  disk,      \* the lines it read under the lock
  posts,     \* messages it has posted
  stored,    \* messages whose writing was reported to their writers
  expired,   \* the room's time is over
  robbed,    \* a lock of a living process was removed by another one
  purged     \* a live room was evicted

lockVars == <<lock, robbed>>
fileVars == <<file, disk, stored, purged>>
roomVars == <<creator, known, view, posts, expired>>
vars == <<alive, pc, lockVars, fileVars, roomVars>>

Messages == Processes \X (1..MaxPosts)
\* "seq >= 2, the number of the line": line 1 is the metadata.
Lines == [id : Messages, seq : Nat \ {0, 1}]

\* A lock is an empty file until its token (pid and time) is written.
Free == [by |-> Nobody, written |-> FALSE, old |-> FALSE]

\* A file that is there is empty, readable as a room, or junk.  Its tail is torn when it ends
\* in a piece of a line, glued when that piece got the next line stuck to it.  opened: the
\* processes with a handle to this file, which an unlinked file's writers lose.
Absent == [is |-> "absent", lines |-> <<>>, tail |-> "clean", opened |-> {}]

Ids(lines) == {lines[i].id : i \in DOMAIN lines}
IdSeq(lines) == [i \in DOMAIN lines |-> lines[i].id]

\* Mutant: numbered anew by every writer.
NumberedAnew(ids, before) == [i \in DOMAIN ids |-> [id |-> ids[i], seq |-> 1 + i]]

\* The lines of new messages in a file that has so many.
Numbered(ids, before) == [i \in DOMAIN ids |-> [id |-> ids[i], seq |-> before + 1 + i]]

Goto(p, l) == pc' = [pc EXCEPT ![p] = l]

-----------------------------------------------------------------------------
(* The lock *)

Creating(p) == creator = p /\ ~known

\* Mutant: the creation is not exclusive (flag 'w').
TryLockShared(p) ==
  /\ pc[p] \in {"acquire", "retry"} /\ Goto(p, "stamp")
  /\ lock' = [Free EXCEPT !.by = p]
  /\ UNCHANGED <<alive, robbed, fileVars, roomVars>>

\* Exclusive creation, the only step that acquires.
TryLock(p) ==
  /\ pc[p] \in {"acquire", "retry"}
  /\ IF lock.by = Nobody THEN lock' = [Free EXCEPT !.by = p] /\ Goto(p, "stamp")
                         ELSE UNCHANGED lock /\ Goto(p, "look")
  /\ UNCHANGED <<alive, robbed, fileVars, roomVars>>

\* ... which is complete only when the token is in the file, if the file is still there.
StampLock(p) ==
  /\ pc[p] = "stamp" /\ Goto(p, "enter")
  /\ lock' = IF lock.by = p THEN [lock EXCEPT !.written = TRUE] ELSE lock
  /\ UNCHANGED <<alive, robbed, fileVars, roomVars>>

\* Mutant: a lock is stale by its age only.
IsLockOld == lock.old

IsLockStale == lock.old \/ lock.by \notin alive

\* A lock that cannot be read, because it is gone or empty, is taken for a corrupt one.
Look(p) ==
  /\ pc[p] = "look"
  /\ Goto(p, IF lock.written /\ ~IsLockStale THEN "retry" ELSE "steal")
  /\ UNCHANGED <<alive, lockVars, fileVars, roomVars>>

\* rename and unlink go by the path, whatever file is there by now.
RemoveLock(p) ==
  /\ lock' = Free
  /\ robbed' = (robbed \/ lock.by \in alive \ {p})

StealStaleLock(p) ==
  /\ pc[p] = "steal" /\ Goto(p, "retry")
  /\ RemoveLock(p)
  /\ UNCHANGED <<alive, fileVars, roomVars>>

GiveUp(p) ==
  /\ pc[p] = "retry" /\ Goto(p, "idle")
  /\ UNCHANGED <<alive, lockVars, fileVars, roomVars>>

OwnLock(p) == lock.written /\ lock.by = p

\* releaseLock reads the token; a lock that is not its own it leaves.
ReleaseLock(p) ==
  /\ pc[p] = "release"
  /\ Goto(p, IF OwnLock(p) THEN "unlink" ELSE "idle")
  /\ known' = (known \/ (creator = p /\ ~OwnLock(p)))
  /\ UNCHANGED <<alive, lockVars, fileVars, creator, view, posts, expired>>

UnlinkLock(p) ==
  /\ pc[p] = "unlink" /\ Goto(p, "idle")
  /\ RemoveLock(p)
  /\ known' = (known \/ creator = p)
  /\ UNCHANGED <<alive, fileVars, creator, view, posts, expired>>

-----------------------------------------------------------------------------
(* The room *)

\* create: its code is known once it returns.
Create(p) ==
  /\ pc[p] = "idle" /\ creator = Nobody
  /\ creator' = p /\ Goto(p, "acquire")
  /\ UNCHANGED <<alive, lockVars, fileVars, known, view, posts, expired>>

CreateFile(p) ==
  /\ pc[p] = "enter" /\ Creating(p)
  /\ file' = [Absent EXCEPT !.is = "empty", !.opened = {p}]
  /\ Goto(p, "fill")
  /\ UNCHANGED <<alive, lockVars, disk, stored, purged, roomVars>>

\* room_post: the room as read without the lock, and one message more.
Post(p) ==
  /\ pc[p] = "idle" /\ known /\ ~expired /\ posts[p] < MaxPosts /\ file.is = "room"
  /\ posts' = [posts EXCEPT ![p] = @ + 1]
  /\ view' = [view EXCEPT ![p] = Append(IdSeq(file.lines), <<p, posts[p] + 1>>)]
  /\ Goto(p, "acquire")
  /\ UNCHANGED <<alive, lockVars, fileVars, creator, known, expired>>

\* set reads the room again under the lock; a file that is gone it will write anew.
ReadDisk(p) ==
  /\ pc[p] = "enter" /\ ~Creating(p)
  /\ disk' = [disk EXCEPT ![p] = file.lines]
  /\ Goto(p, CASE file.is = "room" -> "tail"
               [] file.is = "absent" -> "truncate"
               [] OTHER -> "release")
  /\ UNCHANGED <<alive, lockVars, file, stored, purged, roomVars>>

\* Mutant: a torn last line is not looked for.
NeverTorn == FALSE

TornTail == file.tail = "torn"

\* A torn tail makes set write the whole file, else it appends; a full room is refused.
CheckTail(p) ==
  /\ pc[p] = "tail"
  /\ \E next \in {IF TornTail THEN "truncate" ELSE "append", "release"} : Goto(p, next)
  /\ UNCHANGED <<alive, lockVars, fileVars, roomVars>>

\* Mutant: all of its messages.
EveryMessage(p) == view[p]

\* Those of its messages that are not on disk, in order.
NewMessages(p) == Filtered(view[p], Messages \ Ids(disk[p]))

\* Reported to the writer when the call returns.
Report(p) == stored' = stored \cup ToSet(view[p])

AppendLines(p) ==
  /\ pc[p] = "append" /\ Goto(p, "release") /\ Report(p)
  /\ LET new == Numbered(NewMessages(p), Len(disk[p]))
         lost == file.tail # "clean"   \* the first new line is stuck to a piece of another
         added == IF lost THEN file.lines ELSE file.lines \o new   \* what can still be read
     IN  file' = IF file.is # "room" \/ file.tail = "glued" \/ (lost /\ Len(new) > 1)
                 THEN [file EXCEPT !.is = "junk", !.lines = <<>>, !.tail = "clean"]
                 ELSE [file EXCEPT !.lines = added, !.tail = IF lost THEN "glued" ELSE @]
  /\ UNCHANGED <<alive, lockVars, disk, purged, roomVars>>

\* writeFile empties the file before it writes.
Truncate(p) ==
  /\ pc[p] = "truncate" /\ Goto(p, "fill")
  /\ file' = [Absent EXCEPT !.is = "empty", !.opened = file.opened \cup {p}]
  /\ UNCHANGED <<alive, lockVars, disk, stored, purged, roomVars>>

WholeRoom(p) == Numbered(IdSeq(disk[p]) \o NewMessages(p), 0)

\* Of two overlapping writes the later one stays.
Fill(p) ==
  /\ pc[p] = "fill" /\ Goto(p, "release") /\ Report(p)
  /\ file' = IF p \notin file.opened THEN file
             ELSE [is |-> "room", tail |-> "clean", opened |-> file.opened \ {p},
                   lines |-> WholeRoom(p)]
  /\ UNCHANGED <<alive, lockVars, disk, purged, roomVars>>

-----------------------------------------------------------------------------
(* evictDead, of any process, without the lock *)

\* What may go: an expired room, and a file that is no room and that no living process writes.
Evictable == expired \/ (file.is # "room" /\ file.opened \cap alive = {})

Evict(p) ==
  /\ "evict" \in Faults /\ pc[p] = "idle"
  /\ file.is # "absent" /\ (expired \/ file.is # "room")
  /\ Goto(p, "evict")
  /\ UNCHANGED <<alive, lockVars, fileVars, roomVars>>

EvictUnlink(p) ==
  /\ pc[p] = "evict" /\ Goto(p, "idle")
  /\ file' = Absent
  /\ purged' = (purged \/ ~Evictable)
  /\ UNCHANGED <<alive, lockVars, disk, stored, roomVars>>

-----------------------------------------------------------------------------
(* Faults and time *)

\* A death in the middle of a write may leave a part of it: a piece of a line, or a room cut
\* short.  (A call that has not started leaves nothing: it is as if death came a step earlier.)
Crash(p) ==
  /\ "crash" \in Faults /\ alive' = alive \ {p}
  /\ \/ UNCHANGED file
     \/ /\ pc[p] = "append" /\ file.is = "room" /\ file.tail = "clean"
        /\ file' = [file EXCEPT !.tail = "torn"]
     \/ /\ pc[p] = "fill" /\ p \in file.opened
        /\ \E n \in 0..Len(WholeRoom(p)) :
             file' = [file EXCEPT !.is = "room", !.lines = SubSeq(WholeRoom(p), 1, n), !.tail = "torn"]
  /\ UNCHANGED <<pc, lockVars, disk, stored, purged, roomVars>>

LockAges ==
  /\ "sleep" \in Faults /\ lock.written /\ ~lock.old
  /\ lock' = [lock EXCEPT !.old = TRUE]
  /\ UNCHANGED <<alive, pc, robbed, fileVars, roomVars>>

Expire ==
  /\ "evict" \in Faults /\ known /\ ~expired /\ expired' = TRUE
  /\ UNCHANGED <<alive, pc, lockVars, fileVars, creator, known, view, posts>>

-----------------------------------------------------------------------------
Init ==
  /\ alive = Processes /\ pc = [p \in Processes |-> "idle"] /\ lock = Free /\ file = Absent
  /\ creator = Nobody /\ known = FALSE
  /\ view = [p \in Processes |-> <<>>] /\ disk = [p \in Processes |-> <<>>]
  /\ posts = [p \in Processes |-> 0] /\ stored = {}
  /\ expired = FALSE /\ robbed = FALSE /\ purged = FALSE

\* The steps of an operation under way.
Step(p) ==
  \/ TryLock(p) \/ StampLock(p) \/ Look(p) \/ StealStaleLock(p)
  \/ CreateFile(p) \/ ReadDisk(p) \/ CheckTail(p) \/ AppendLines(p) \/ Truncate(p) \/ Fill(p)
  \/ ReleaseLock(p) \/ UnlinkLock(p) \/ EvictUnlink(p)

Next ==
  \/ LockAges \/ Expire
  \/ \E p \in alive : Step(p) \/ GiveUp(p) \/ Create(p) \/ Post(p) \/ Evict(p) \/ Crash(p)

Spec == Init /\ [][Next]_vars

\* A process that lives goes on with its operation.
FairSpec == Spec /\ \A p \in Processes : WF_vars(p \in alive /\ Step(p))

-----------------------------------------------------------------------------
(* Properties *)

PCs == {"idle", "acquire", "retry", "stamp", "look", "steal", "enter", "tail", "append",
        "truncate", "fill", "release", "unlink", "evict"}

\* Every variable keeps its type.
TypeOK ==
  /\ alive \subseteq Processes /\ pc \in [Processes -> PCs]
  /\ lock \in [by : Processes \cup {Nobody}, written : BOOLEAN, old : BOOLEAN]
  /\ file \in [is : {"absent", "empty", "room", "junk"}, lines : Seq(Lines),
               tail : {"clean", "torn", "glued"}, opened : SUBSET Processes]
  /\ creator \in Processes \cup {Nobody} /\ known \in BOOLEAN
  /\ view \in [Processes -> Seq(Messages)] /\ disk \in [Processes -> Seq(Lines)]
  /\ posts \in [Processes -> 0..MaxPosts] /\ stored \subseteq Messages
  /\ expired \in BOOLEAN /\ robbed \in BOOLEAN /\ purged \in BOOLEAN

Holding(p) ==
  pc[p] \in {"stamp", "enter", "tail", "append", "truncate", "fill", "release", "unlink"}

\* As long as no living process had its lock removed, one process at a time holds it.
MutualExclusion == ~robbed => \A p, q \in alive : Holding(p) /\ Holding(q) => p = q

\* ... then the seqs of the room's lines rise, whoever wrote them ("seq monotônico por linha").
SeqsRise ==
  ~robbed => \A i, j \in DOMAIN file.lines : i < j => file.lines[i].seq < file.lines[j].seq

WritersDone == \A p \in Processes \ alive : pc[p] # "fill"

\* ... and, if no live room was evicted either, a room that can be read has every message
\* whose writing was reported, through deaths and torn lines.  (A death in the middle of writing
\* the whole room anew is the exception: what it had not written again is lost.)
StoredStays ==
  ~robbed /\ ~purged /\ ~expired /\ file.is = "room" /\ WritersDone =>
    stored \subseteq Ids(file.lines)

\* What the room holds: while its file is written anew, what the writer has read of it.
Rewriters == {p \in alive \cap file.opened : pc[p] = "fill" /\ file.is = "empty"}
Log == IF Rewriters = {} THEN IdSeq(file.lines) ELSE IdSeq(disk[CHOOSE p \in Rewriters : TRUE])

\* To its writers the room is a log that grows at its end.
Promised == INSTANCE RoomLog WITH log <- Log, living <- alive, over <- expired,
                                  broken <- robbed \/ purged
LogSpec == Promised!Spec

\* The lock of a dead process does not keep the others out.
OrphanLockGoes ==
  \A p, q \in Processes :
    q \notin alive /\ lock.by = q /\ pc[p] = "acquire" ~> lock.by # q \/ p \notin alive

\* "A seq of its own for every line" (its tests, of several processes posting at once).
SeqUnique == IsInjective([i \in DOMAIN file.lines |-> file.lines[i].seq])
=============================================================================
