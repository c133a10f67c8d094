-------------------------- MODULE RoomStore_proofs --------------------------
(***************************************************************************)
(* The rooms, for any number of processes, posts and faults: the lock      *)
(* excludes, the seqs rise, what is stored stays, and a room is one log    *)
(* (RoomLog).  It all depends on nothing but that no living owner is       *)
(* robbed of its lock, and for the last two that no live room is evicted.  *)
(***************************************************************************)
EXTENDS RoomStore, Filtering_proofs, FiniteSetTheorems, SequenceTheorems, TLAPS

Locks == [by : Processes \cup {Nobody}, written : BOOLEAN, old : BOOLEAN]

\* A living process that holds the lock is the one whose file is there.
HoldersOwn == ~robbed => \A p \in alive : Holding(p) => lock.by = p

LockInv ==
  /\ alive \subseteq Processes /\ pc \in [Processes -> PCs] /\ lock \in Locks
  /\ HoldersOwn

-----------------------------------------------------------------------------
\* Nobody holds the lock at first.
LEMMA InitHolds == Init => LockInv
BY DEF Init, LockInv, HoldersOwn, Holding, PCs, Locks, Free

\* A process moves on without touching the lock, and only a holder to where it holds it.
LEMMA MovesOn ==
  ASSUME LockInv, NEW p \in alive, NEW l \in PCs, Goto(p, l), UNCHANGED <<alive, lockVars>>,
         l \in {"idle", "acquire", "retry", "look", "steal", "evict"} \/ Holding(p)
  PROVE  LockInv'
<1>1. p \in Processes /\ pc' \in [Processes -> PCs] /\ pc'[p] = l
  BY DEF LockInv, Goto
<1>2. \A q \in Processes : q # p => pc'[q] = pc[q]
  BY DEF LockInv, Goto
<1>3. \A q \in alive : Holding(q)' => Holding(q)
  BY <1>1, <1>2 DEF Holding, LockInv
<1> QED
  BY <1>1, <1>3 DEF LockInv, HoldersOwn, lockVars

\* Exclusive creation finds no living holder.
LEMMA TryLockKeeps ==
  ASSUME LockInv, NEW p \in alive, TryLock(p)
  PROVE  LockInv'
<1>1. CASE lock.by = Nobody
  <2>1. /\ p \in Processes /\ lock' = [Free EXCEPT !.by = p] /\ pc' = [pc EXCEPT ![p] = "stamp"]
        /\ UNCHANGED <<alive, robbed>>
    BY <1>1 DEF TryLock, Goto, LockInv
  <2>2. lock' \in Locks /\ lock'.by = p /\ pc' \in [Processes -> PCs]
    BY <2>1 DEF Free, Locks, LockInv, PCs
  <2>3. ~robbed => \A q \in alive : ~Holding(q)
    BY <1>1, ProcessesAssumption DEF LockInv, HoldersOwn
  <2>4. \A q \in alive : q # p => pc'[q] = pc[q]
    BY <2>1 DEF LockInv
  <2>5. HoldersOwn'
    BY <2>1, <2>2, <2>3, <2>4 DEF HoldersOwn, Holding
  <2> QED
    BY <2>1, <2>2, <2>5 DEF LockInv
<1>2. CASE lock.by # Nobody
  BY <1>2, MovesOn DEF TryLock, lockVars, PCs
<1> QED
  BY <1>1, <1>2

\* Whoever unlinks or renames the lock file takes it from nobody else, or somebody is robbed.
LEMMA RemovalKeeps ==
  ASSUME LockInv, NEW p \in alive, NEW l \in {"idle", "retry"}, Goto(p, l), RemoveLock(p),
         UNCHANGED alive
  PROVE  LockInv'
<1>1. /\ p \in Processes /\ lock' = Free /\ pc' = [pc EXCEPT ![p] = l]
      /\ robbed' = (robbed \/ lock.by \in alive \ {p})
  BY DEF LockInv, RemoveLock, Goto
<1>2. lock' \in Locks /\ pc' \in [Processes -> PCs] /\ pc'[p] = l
  BY <1>1 DEF Free, Locks, LockInv, PCs
<1>3. ASSUME ~robbed', NEW q \in alive, Holding(q)' PROVE FALSE
  <2>1. q # p /\ pc'[q] = pc[q]
    BY <1>1, <1>2, <1>3 DEF Holding, LockInv
  <2>2. ~robbed /\ Holding(q)
    BY <1>1, <1>3, <2>1 DEF Holding
  <2>3. lock.by = q
    BY <2>2 DEF LockInv, HoldersOwn
  <2> QED
    BY <1>1, <1>3, <2>1, <2>3
<1> QED
  BY <1>2, <1>3 DEF LockInv, HoldersOwn

\* Every step of the locking itself: it moves a process on, takes the free lock or removes it.
LEMMA LockSteps ==
  ASSUME LockInv, NEW p \in alive,
         TryLock(p) \/ StampLock(p) \/ Look(p) \/ StealStaleLock(p) \/ GiveUp(p)
         \/ ReleaseLock(p) \/ UnlinkLock(p)
  PROVE  LockInv'
<1>1. CASE TryLock(p)
  BY <1>1, TryLockKeeps
<1>2. CASE StampLock(p)
  <2>1. /\ p \in Processes /\ pc[p] = "stamp" /\ pc' = [pc EXCEPT ![p] = "enter"]
        /\ lock' \in Locks /\ lock'.by = lock.by /\ UNCHANGED <<alive, robbed>>
    BY <1>2 DEF StampLock, Goto, Locks, LockInv
  <2>2. pc' \in [Processes -> PCs] /\ \A q \in alive : Holding(q)' => Holding(q)
    BY <2>1 DEF LockInv, PCs, Holding
  <2> QED
    BY <2>1, <2>2 DEF LockInv, HoldersOwn
<1>3. CASE Look(p)
  <2>1. PICK l \in {"retry", "steal"} : Goto(p, l)
    BY <1>3 DEF Look
  <2> QED
    BY <1>3, <2>1, MovesOn DEF Look, PCs
<1>4. CASE StealStaleLock(p)
  BY <1>4, RemovalKeeps DEF StealStaleLock
<1>5. CASE GiveUp(p)
  BY <1>5, MovesOn DEF GiveUp, PCs
<1>6. CASE ReleaseLock(p)
  <2>1. PICK l \in {"unlink", "idle"} : Goto(p, l)
    BY <1>6 DEF ReleaseLock
  <2> QED
    BY <1>6, <2>1, MovesOn DEF ReleaseLock, Holding, PCs
<1>7. CASE UnlinkLock(p)
  BY <1>7, RemovalKeeps DEF UnlinkLock
<1> QED
  BY <1>1, <1>2, <1>3, <1>4, <1>5, <1>6, <1>7

\* What happens to the room's file leaves the lock alone.
LEMMA RoomSteps ==
  ASSUME LockInv, NEW p \in alive,
         Create(p) \/ CreateFile(p) \/ Post(p) \/ ReadDisk(p) \/ CheckTail(p) \/ AppendLines(p)
         \/ Truncate(p) \/ Fill(p) \/ Evict(p) \/ EvictUnlink(p)
  PROVE  LockInv'
<1>1. UNCHANGED <<alive, lockVars>>
  BY DEF Create, CreateFile, Post, ReadDisk, CheckTail, AppendLines, Truncate, Fill, Evict,
         EvictUnlink
<1>2. PICK l \in PCs : /\ Goto(p, l)
                       /\ l \in {"idle", "acquire", "retry", "look", "steal", "evict"} \/ Holding(p)
  <2>1. CASE Create(p) \/ CreateFile(p) \/ Post(p)
    BY <2>1 DEF Create, CreateFile, Post, PCs, Holding
  <2>2. CASE ReadDisk(p)
    BY <2>2 DEF ReadDisk, PCs, Holding
  <2>3. CASE CheckTail(p)
    <3>1. PICK l \in {IF TornTail THEN "truncate" ELSE "append", "release"} : Goto(p, l)
      BY <2>3 DEF CheckTail
    <3> QED
      BY <2>3, <3>1 DEF CheckTail, PCs, Holding
  <2>4. CASE AppendLines(p) \/ Truncate(p) \/ Fill(p)
    BY <2>4 DEF AppendLines, Truncate, Fill, PCs, Holding
  <2>5. CASE Evict(p) \/ EvictUnlink(p)
    BY <2>5 DEF Evict, EvictUnlink, PCs
  <2> QED
    BY <2>1, <2>2, <2>3, <2>4, <2>5
<1> QED
  BY <1>1, <1>2, MovesOn

\* Whatever happens, the holders' invariant is kept: deaths only shrink the living.
LEMMA StepHolds == LockInv /\ [Next]_vars => LockInv'
<1> SUFFICES ASSUME LockInv, [Next]_vars PROVE LockInv'
  OBVIOUS
<1>1. ASSUME NEW p \in alive, Step(p) \/ GiveUp(p) \/ Create(p) \/ Post(p) \/ Evict(p)
      PROVE  LockInv'
  BY <1>1, LockSteps, RoomSteps DEF Step
<1>2. ASSUME NEW p \in alive, Crash(p) PROVE LockInv'
  BY <1>2 DEF Crash, LockInv, HoldersOwn, Holding, lockVars
<1>3. CASE LockAges
  <2>1. lock' \in Locks /\ lock'.by = lock.by /\ UNCHANGED <<alive, pc, robbed>>
    BY <1>3 DEF LockAges, LockInv, Locks
  <2> QED
    BY <2>1 DEF LockInv, HoldersOwn, Holding
<1>4. CASE Expire
  BY <1>4 DEF Expire, LockInv, HoldersOwn, Holding, lockVars
<1>5. CASE UNCHANGED vars
  BY <1>5 DEF vars, LockInv, HoldersOwn, Holding, lockVars
<1> QED
  BY <1>1, <1>2, <1>3, <1>4, <1>5 DEF Next

\* Living holders of the lock are its owner, in every run.
THEOREM HoldersOwnLock == Spec => []LockInv
BY InitHolds, StepHolds, PTL DEF Spec

\* Two processes are inside together only after one had its lock removed while it lived: the
\* exclusive creation, the release that reads first and the deaths at any step are not to blame.
THEOREM LockExcludes == Spec => []MutualExclusion
<1>1. LockInv => MutualExclusion
  BY DEF LockInv, HoldersOwn, MutualExclusion
<1> QED
  BY <1>1, HoldersOwnLock, PTL

-----------------------------------------------------------------------------
(* What the operators return *)

Room(lines) == \A i \in DOMAIN lines : lines[i].seq = i + 1

\* The new messages are messages of the view, and all of those that the disk has not.
LEMMA NewMessagesCover ==
  ASSUME TypeOK, NEW p \in Processes
  PROVE  /\ NewMessages(p) \in Seq(Messages)
         /\ ToSet(view[p]) \subseteq Ids(disk[p]) \cup ToSet(NewMessages(p))
<1>1. view[p] \in Seq(Messages)
  BY DEF TypeOK
<1>2. ToSet(view[p]) \subseteq Messages
  BY <1>1, LenProperties DEF ToSet
<1> QED
  BY <1>1, <1>2, FilteredMembers DEF NewMessages

\* Numbered lines: as many as the messages, with their ids, the numbers after those before.
LEMMA NumberedLines ==
  ASSUME NEW ids \in Seq(Messages), NEW before \in Nat
  PROVE  /\ Numbered(ids, before) \in Seq(Lines)
         /\ Len(Numbered(ids, before)) = Len(ids)
         /\ \A i \in 1..Len(ids) : Numbered(ids, before)[i] = [id |-> ids[i], seq |-> before + 1 + i]
         /\ Ids(Numbered(ids, before)) = ToSet(ids)
<1>1. Len(ids) \in Nat /\ DOMAIN ids = 1..Len(ids) /\ \A i \in 1..Len(ids) : ids[i] \in Messages
  BY LenProperties, ElementOfSeq
<1>2. Numbered(ids, before) = [i \in 1..Len(ids) |-> [id |-> ids[i], seq |-> before + 1 + i]]
  BY <1>1 DEF Numbered
<1>3. \A i \in 1..Len(ids) : [id |-> ids[i], seq |-> before + 1 + i] \in Lines
  <2> TAKE i \in 1..Len(ids)
  <2>1. before + 1 + i \in Nat \ {0, 1}
    BY <1>1
  <2> QED
    BY <1>1, <2>1 DEF Lines
<1>4. Numbered(ids, before) \in Seq(Lines)
  BY <1>1, <1>2, <1>3, IsASeq
<1>5. DOMAIN Numbered(ids, before) = 1..Len(ids)
  BY <1>2
<1>6. Len(Numbered(ids, before)) = Len(ids)
  BY <1>1, <1>4, <1>5, LenProperties
<1>7. Ids(Numbered(ids, before)) = ToSet(ids)
  BY <1>1, <1>2, <1>5 DEF Ids, ToSet
<1> QED
  BY <1>2, <1>4, <1>6, <1>7

\* The messages of lines, in order.
LEMMA IdSeqOfLines ==
  ASSUME NEW lines \in Seq(Lines)
  PROVE  IdSeq(lines) \in Seq(Messages) /\ ToSet(IdSeq(lines)) = Ids(lines)
<1>1. Len(lines) \in Nat /\ DOMAIN lines = 1..Len(lines) /\ \A i \in 1..Len(lines) : lines[i] \in Lines
  BY LenProperties, ElementOfSeq
<1>2. IdSeq(lines) = [i \in 1..Len(lines) |-> lines[i].id]
  BY <1>1 DEF IdSeq
<1>3. \A i \in 1..Len(lines) : lines[i].id \in Messages
  BY <1>1 DEF Lines
<1>4. IdSeq(lines) \in Seq(Messages)
  BY <1>1, <1>2, <1>3, IsASeq
<1> QED
  BY <1>1, <1>2, <1>4 DEF ToSet, Ids

\* A whole room is numbered in order and has every message of the disk and of the view.
LEMMA WholeRoomLines ==
  ASSUME TypeOK, NEW p \in Processes
  PROVE  /\ WholeRoom(p) \in Seq(Lines) /\ Room(WholeRoom(p))
         /\ Ids(disk[p]) \cup ToSet(view[p]) \subseteq Ids(WholeRoom(p))
<1> DEFINE old == IdSeq(disk[p])
           ids == old \o NewMessages(p)
<1>1. old \in Seq(Messages) /\ ToSet(old) = Ids(disk[p])
  BY IdSeqOfLines DEF TypeOK
<1>2. NewMessages(p) \in Seq(Messages)
  BY NewMessagesCover
<1>3. ids \in Seq(Messages) /\ ToSet(ids) = ToSet(old) \cup ToSet(NewMessages(p))
  <2>1. ids \in Seq(Messages) /\ Range(ids) = Range(old) \cup Range(NewMessages(p))
    BY <1>1, <1>2, ConcatProperties, RangeConcatenation
  <2>2. \A t : Range(t) = ToSet(t)
    BY DEF Range, ToSet
  <2> HIDE DEF ids, old
  <2> QED
    BY <2>1, <2>2
<1>4. WholeRoom(p) = Numbered(ids, 0)
  BY DEF WholeRoom
<1>5. /\ WholeRoom(p) \in Seq(Lines) /\ Len(WholeRoom(p)) = Len(ids) /\ Len(ids) \in Nat
      /\ \A i \in 1..Len(ids) : WholeRoom(p)[i] = [id |-> ids[i], seq |-> 0 + 1 + i]
      /\ Ids(WholeRoom(p)) = ToSet(ids)
  <2> HIDE DEF ids
  <2> QED
    BY <1>3, <1>4, NumberedLines, LenProperties
<1>6. Room(WholeRoom(p))
  <2>1. DOMAIN WholeRoom(p) = 1..Len(ids)
    BY <1>5, LenProperties
  <2>2. ASSUME NEW i \in 1..Len(ids) PROVE WholeRoom(p)[i].seq = i + 1
    BY <1>5
  <2> HIDE DEF ids
  <2> QED
    BY <2>1, <2>2 DEF Room
<1> QED
  BY <1>1, <1>3, <1>5, <1>6, NewMessagesCover

-----------------------------------------------------------------------------
(* Types *)

\* A process goes on; nothing else changes but the lock, the living or a flag.
LEMMA TypesMove ==
  ASSUME TypeOK, UNCHANGED <<file, disk, view, posts, stored, creator>>,
         alive' \subseteq Processes, pc' \in [Processes -> PCs], lock' \in Locks,
         known' \in BOOLEAN, expired' \in BOOLEAN, robbed' \in BOOLEAN, purged' \in BOOLEAN
  PROVE  TypeOK'
BY DEF TypeOK, Locks

\* The steps of the lock keep the types.
LEMMA LockTypes ==
  ASSUME TypeOK, NEW p \in alive,
         TryLock(p) \/ StampLock(p) \/ Look(p) \/ StealStaleLock(p) \/ GiveUp(p)
         \/ ReleaseLock(p) \/ UnlinkLock(p)
  PROVE  TypeOK'
<1>1. lock \in Locks /\ Free \in Locks /\ [Free EXCEPT !.by = p] \in Locks
  BY DEF TypeOK, Locks, Free
<1>2. lock' \in Locks /\ robbed' \in BOOLEAN /\ known' \in BOOLEAN
  <2>1. CASE StampLock(p)
    BY <2>1, <1>1 DEF StampLock, TypeOK, Locks, roomVars
  <2>2. CASE TryLock(p) \/ Look(p) \/ StealStaleLock(p) \/ GiveUp(p)
    BY <2>2, <1>1 DEF TryLock, Look, StealStaleLock, GiveUp, RemoveLock, TypeOK, lockVars, roomVars
  <2>3. CASE ReleaseLock(p) \/ UnlinkLock(p)
    BY <2>3, <1>1 DEF ReleaseLock, UnlinkLock, RemoveLock, TypeOK, lockVars
  <2> QED
    BY <2>1, <2>2, <2>3
<1>3. pc' \in [Processes -> PCs]
  <2>1. PICK l \in PCs : Goto(p, l)
    BY DEF TryLock, StampLock, Look, StealStaleLock, GiveUp, ReleaseLock, UnlinkLock, PCs
  <2> QED
    BY <2>1 DEF Goto, TypeOK
<1>4. /\ UNCHANGED <<file, disk, view, posts, stored, creator, alive, expired, purged>>
      /\ alive \subseteq Processes /\ expired \in BOOLEAN /\ purged \in BOOLEAN
  BY DEF TryLock, StampLock, Look, StealStaleLock, GiveUp, ReleaseLock, UnlinkLock, TypeOK,
         fileVars, roomVars
<1> QED
  BY <1>2, <1>3, <1>4, TypesMove

Files == [is : {"absent", "empty", "room", "junk"}, lines : Seq(Lines),
          tail : {"clean", "torn", "glued"}, opened : SUBSET Processes]

\* An appended file is a file: its lines are those that can still be read.
LEMMA AppendFile ==
  ASSUME TypeOK, NEW p \in alive, AppendLines(p)
  PROVE  /\ file' \in Files
         /\ \/ file'.is = "junk" /\ file'.lines = <<>>
            \/ /\ file.is = "room" /\ file'.is = "room" /\ file.tail # "glued"
               /\ \/ file.tail # "clean" /\ file'.lines = file.lines /\ file'.tail = "glued"
                  \/ /\ file.tail = "clean" /\ file'.tail = "clean"
                     /\ file'.lines = file.lines \o Numbered(NewMessages(p), Len(disk[p]))
<1> DEFINE new == Numbered(NewMessages(p), Len(disk[p]))
<1>1. p \in Processes /\ file \in Files /\ disk[p] \in Seq(Lines)
  BY DEF TypeOK, Files
<1>2. NewMessages(p) \in Seq(Messages) /\ Len(disk[p]) \in Nat
  BY <1>1, NewMessagesCover, LenProperties
<1>3. new \in Seq(Lines)
  BY <1>2, NumberedLines
<1>4. file.lines \in Seq(Lines) /\ file.lines \o new \in Seq(Lines) /\ <<>> \in Seq(Lines)
  BY <1>1, <1>3, ConcatProperties, EmptySeq DEF Files
<1>5. \/ file' = [file EXCEPT !.is = "junk", !.lines = <<>>, !.tail = "clean"]
      \/ /\ file.is = "room" /\ file.tail # "glued"
         /\ \/ file.tail # "clean" /\ file' = [file EXCEPT !.lines = file.lines, !.tail = "glued"]
            \/ file.tail = "clean" /\ file' = [file EXCEPT !.lines = file.lines \o new, !.tail = file.tail]
  <2> HIDE DEF new
  <2>1. \/ file' = [file EXCEPT !.is = "junk", !.lines = <<>>, !.tail = "clean"]
        \/ /\ ~(file.is # "room" \/ file.tail = "glued" \/ (file.tail # "clean" /\ Len(new) > 1))
           /\ file' = [file EXCEPT !.lines = IF file.tail # "clean" THEN file.lines ELSE file.lines \o new,
                                   !.tail = IF file.tail # "clean" THEN "glued" ELSE file.tail]
    BY DEF AppendLines, new
  <2> QED
    BY <2>1
<1> HIDE DEF new
<1>6. file' \in Files
  BY <1>1, <1>4, <1>5 DEF Files
<1> QED
  BY <1>1, <1>5, <1>6 DEF Files, new

\* The steps on the room's file keep the types.
LEMMA FileTypes ==
  ASSUME TypeOK, NEW p \in alive,
         CreateFile(p) \/ ReadDisk(p) \/ CheckTail(p) \/ AppendLines(p) \/ Truncate(p) \/ Fill(p)
         \/ Evict(p) \/ EvictUnlink(p)
  PROVE  TypeOK'
<1>1. p \in Processes /\ file \in Files /\ Absent \in Files
  BY EmptySeq DEF TypeOK, Files, Absent
<1>2. pc' \in [Processes -> PCs]
  <2>1. PICK l \in PCs : Goto(p, l)
    <3>1. CASE CheckTail(p)
      BY <3>1 DEF CheckTail, PCs
    <3> QED
      BY <3>1 DEF CreateFile, ReadDisk, AppendLines, Truncate, Fill, Evict, EvictUnlink, PCs
  <2> QED
    BY <2>1 DEF Goto, TypeOK
<1>3. UNCHANGED <<alive, lock, robbed, creator, known, view, posts, expired>>
  BY DEF CreateFile, ReadDisk, CheckTail, AppendLines, Truncate, Fill, Evict, EvictUnlink, lockVars,
         roomVars
<1>4. file' \in Files
  <2>1. CASE AppendLines(p)
    BY <2>1, AppendFile
  <2>2. CASE CreateFile(p) \/ Truncate(p)
    <3>1. PICK S \in SUBSET Processes : file' = [Absent EXCEPT !.is = "empty", !.opened = S]
      BY <2>2, <1>1 DEF CreateFile, Truncate, Files
    <3> QED
      BY <3>1, <1>1 DEF Files
  <2>3. CASE Fill(p)
    BY <2>3, <1>1, WholeRoomLines DEF Fill, Files
  <2>4. CASE ReadDisk(p) \/ CheckTail(p) \/ Evict(p) \/ EvictUnlink(p)
    BY <2>4, <1>1 DEF ReadDisk, CheckTail, Evict, EvictUnlink, fileVars
  <2> QED
    BY <2>1, <2>2, <2>3, <2>4
<1>5. disk' \in [Processes -> Seq(Lines)]
  <2>1. CASE ReadDisk(p)
    BY <2>1, <1>1 DEF ReadDisk, TypeOK, Files
  <2> QED
    BY <2>1 DEF CreateFile, CheckTail, AppendLines, Truncate, Fill, Evict, EvictUnlink, fileVars, TypeOK
<1>6. stored' \subseteq Messages
  <2>1. ToSet(view[p]) \subseteq Messages
    BY <1>1, LenProperties, ElementOfSeq DEF TypeOK, ToSet
  <2>2. stored' = stored \/ stored' = stored \cup ToSet(view[p])
    BY DEF CreateFile, ReadDisk, CheckTail, AppendLines, Truncate, Fill, Evict, EvictUnlink, fileVars, Report
  <2> QED
    BY <2>1, <2>2 DEF TypeOK
<1>7. purged' \in BOOLEAN
  BY DEF CreateFile, ReadDisk, CheckTail, AppendLines, Truncate, Fill, Evict, EvictUnlink, fileVars, TypeOK
<1> QED
  BY <1>2, <1>3, <1>4, <1>5, <1>6, <1>7 DEF TypeOK, Files

\* A post: the room as it was read, and one message more.
LEMMA PostTypes ==
  ASSUME TypeOK, NEW p \in alive, Post(p) \/ Create(p)
  PROVE  TypeOK'
<1>1. p \in Processes /\ pc' \in [Processes -> PCs]
  BY DEF Post, Create, Goto, PCs, TypeOK
<1>2. CASE Create(p)
  BY <1>1, <1>2 DEF Create, TypeOK, lockVars, fileVars
<1>3. CASE Post(p)
  <2>1. IdSeq(file.lines) \in Seq(Messages)
    BY IdSeqOfLines DEF TypeOK
  <2>2. posts[p] \in Nat /\ posts[p] + 1 \in 1..MaxPosts /\ posts' = [posts EXCEPT ![p] = posts[p] + 1]
    BY <1>1, <1>3, PostsAssumption DEF Post, TypeOK
  <2>3. posts' \in [Processes -> 0..MaxPosts] /\ <<p, posts[p] + 1>> \in Messages
    BY <1>1, <2>2, PostsAssumption DEF Messages, TypeOK
  <2>4. Append(IdSeq(file.lines), <<p, posts[p] + 1>>) \in Seq(Messages)
    BY <2>1, <2>3, AppendProperties
  <2>5. view' \in [Processes -> Seq(Messages)]
    BY <1>3, <2>4 DEF Post, TypeOK
  <2> QED
    BY <1>1, <1>3, <2>3, <2>5 DEF Post, TypeOK, lockVars, fileVars
<1> QED
  BY <1>2, <1>3

\* What a death may leave of a write is still a file.
LEMMA CrashTypes ==
  ASSUME TypeOK, NEW p \in alive, Crash(p)
  PROVE  TypeOK'
<1>1. p \in Processes /\ file \in Files
  BY DEF TypeOK, Files
<1>2. WholeRoom(p) \in Seq(Lines)
  BY <1>1, WholeRoomLines
<1>3. \A n \in 0..Len(WholeRoom(p)) : SubSeq(WholeRoom(p), 1, n) \in Seq(Lines)
  <2> TAKE n \in 0..Len(WholeRoom(p))
  <2>1. Len(WholeRoom(p)) \in Nat /\ n \in Nat
    BY <1>2, LenProperties
  <2>2. \A i \in 1..n : i \in 1..Len(WholeRoom(p))
    BY <2>1
  <2> QED
    BY <1>2, <2>1, <2>2, SubSeqProperties
<1>4. file' \in Files
  <2>1. CASE UNCHANGED file
    BY <1>1, <2>1
  <2>2. CASE file' = [file EXCEPT !.tail = "torn"]
    BY <1>1, <2>2 DEF Files
  <2>3. ASSUME NEW n \in 0..Len(WholeRoom(p)),
               file' = [file EXCEPT !.is = "room", !.lines = SubSeq(WholeRoom(p), 1, n), !.tail = "torn"]
        PROVE  file' \in Files
    BY <1>1, <1>3, <2>3 DEF Files
  <2> QED
    BY <2>1, <2>2, <2>3 DEF Crash
<1> QED
  BY <1>4 DEF Crash, TypeOK, Files, lockVars, roomVars

\* Types hold at first and every step keeps them.
LEMMA TypesStep == (Init => TypeOK) /\ (TypeOK /\ [Next]_vars => TypeOK')
<1>1. Init => TypeOK
  <2>1. <<>> \in Seq(Lines) /\ <<>> \in Seq(Messages) /\ 0 \in 0..MaxPosts
    BY EmptySeq, PostsAssumption
  <2> QED
    <3> SUFFICES ASSUME Init PROVE TypeOK
      OBVIOUS
    <3>1. /\ view \in [Processes -> Seq(Messages)] /\ disk \in [Processes -> Seq(Lines)]
          /\ posts \in [Processes -> 0..MaxPosts] /\ pc \in [Processes -> PCs]
      BY <2>1 DEF Init, PCs
    <3>2. file \in Files /\ lock \in Locks
      BY <2>1 DEF Init, Files, Locks, Free, Absent
    <3> QED
      BY <3>1, <3>2 DEF Init, TypeOK, Files, Locks
<1>2. ASSUME TypeOK, [Next]_vars PROVE TypeOK'
  <2>1. ASSUME NEW p \in alive, Step(p) \/ GiveUp(p) \/ Create(p) \/ Post(p) \/ Evict(p)
        PROVE  TypeOK'
    BY <1>2, <2>1, LockTypes, FileTypes, PostTypes DEF Step
  <2>2. ASSUME NEW p \in alive, Crash(p) PROVE TypeOK'
    BY <1>2, <2>2, CrashTypes
  <2>3. CASE LockAges
    BY <1>2, <2>3 DEF LockAges, TypeOK, fileVars, roomVars
  <2>4. CASE Expire
    BY <1>2, <2>4 DEF Expire, TypeOK, fileVars, lockVars
  <2>5. CASE UNCHANGED vars
    BY <1>2, <2>5 DEF vars, TypeOK, fileVars, lockVars, roomVars
  <2> QED
    BY <1>2, <2>1, <2>2, <2>3, <2>4, <2>5 DEF Next
<1> QED
  BY <1>1, <1>2

\* Every variable keeps its type, in every run.
THEOREM TypesHold == Spec => []TypeOK
BY TypesStep, PTL DEF Spec

-----------------------------------------------------------------------------
(* Numbers *)

\* Every line's number is its place, and what the holder read is what is there.
Numbering ==
  ~robbed =>
    /\ Room(file.lines)
    /\ \A p \in alive : pc[p] \in {"tail", "append"} /\ file.is = "room" => disk[p] = file.lines

\* A process that holds the lock is alone, unless somebody was robbed.
LEMMA Alone ==
  ASSUME LockInv, ~robbed, NEW p \in alive, NEW q \in alive, Holding(p), Holding(q)
  PROVE  p = q
BY DEF LockInv, HoldersOwn

\* The steps that leave the file and what was read alone, and let nobody else write.
LEMMA NumberingMoves ==
  ASSUME Numbering, UNCHANGED <<file, disk>>, robbed => robbed', alive' \subseteq alive,
         \A q \in alive' : pc'[q] \in {"tail", "append"} => pc[q] \in {"tail", "append"}
  PROVE  Numbering'
BY DEF Numbering, Room

\* The steps of the lock move nobody to where the file is written.
LEMMA LockMoves ==
  ASSUME TypeOK, NEW p \in alive,
         TryLock(p) \/ StampLock(p) \/ Look(p) \/ StealStaleLock(p) \/ GiveUp(p)
         \/ ReleaseLock(p) \/ UnlinkLock(p) \/ Create(p) \/ Post(p) \/ Evict(p)
  PROVE  /\ UNCHANGED <<file, disk, stored, purged, alive, expired>> /\ (robbed => robbed')
         /\ pc[p] \notin {"tail", "append", "truncate", "fill"}
         /\ pc'[p] \notin {"tail", "append", "truncate", "fill"}
         /\ \A q \in Processes : q # p => pc'[q] = pc[q]
<1>1. p \in Processes /\ pc \in [Processes -> PCs]
  BY DEF TypeOK
<1>2. PICK l \in {"stamp", "look", "enter", "retry", "steal", "idle", "unlink", "acquire", "evict"} :
        Goto(p, l)
  <2>1. CASE TryLock(p) \/ StampLock(p) \/ Look(p) \/ StealStaleLock(p) \/ GiveUp(p)
    BY <2>1 DEF TryLock, StampLock, Look, StealStaleLock, GiveUp
  <2>2. CASE ReleaseLock(p) \/ UnlinkLock(p)
    BY <2>2 DEF ReleaseLock, UnlinkLock
  <2>3. CASE Create(p) \/ Post(p) \/ Evict(p)
    BY <2>3 DEF Create, Post, Evict
  <2> QED
    BY <2>1, <2>2, <2>3
<1>3. pc'[p] = l /\ \A q \in Processes : q # p => pc'[q] = pc[q]
  BY <1>1, <1>2 DEF Goto
<1>4. UNCHANGED <<file, disk, stored, purged, alive, expired>>
  BY DEF TryLock, StampLock, Look, StealStaleLock, GiveUp, ReleaseLock, UnlinkLock, Create, Post,
         Evict, fileVars, roomVars
<1>6. robbed => robbed'
  <2>1. robbed' = robbed \/ robbed' = (robbed \/ lock.by \in alive \ {p})
    BY DEF TryLock, StampLock, Look, StealStaleLock, GiveUp, ReleaseLock, UnlinkLock, Create, Post,
           Evict, RemoveLock, lockVars
  <2> QED
    BY <2>1
<1>5. pc[p] \notin {"tail", "append", "truncate", "fill"}
  BY DEF TryLock, StampLock, Look, StealStaleLock, GiveUp, ReleaseLock, UnlinkLock, Create, Post,
         Evict
<1> QED
  BY <1>3, <1>4, <1>5, <1>6

\* Appending what is numbered on from the lines that are there.
LEMMA AppendNumbers ==
  ASSUME TypeOK, NEW p \in alive, Room(file.lines), disk[p] = file.lines
  PROVE  Room(file.lines \o Numbered(NewMessages(p), Len(disk[p])))
<1> DEFINE new == Numbered(NewMessages(p), Len(disk[p]))
           n == Len(file.lines)
<1>1. p \in Processes /\ file.lines \in Seq(Lines) /\ n \in Nat /\ DOMAIN file.lines = 1..n
  BY LenProperties DEF TypeOK
<1>2. NewMessages(p) \in Seq(Messages) /\ Len(disk[p]) = n
  BY <1>1, NewMessagesCover
<1>3. new \in Seq(Lines) /\ Len(new) \in Nat /\ \A i \in 1..Len(new) : new[i].seq = n + 1 + i
  <2>1. /\ new \in Seq(Lines) /\ Len(new) = Len(NewMessages(p))
        /\ \A i \in 1..Len(NewMessages(p)) : new[i] = [id |-> NewMessages(p)[i], seq |-> n + 1 + i]
    BY <1>1, <1>2, NumberedLines
  <2>2. Len(new) \in Nat
    BY <2>1, LenProperties
  <2>3. ASSUME NEW i \in 1..Len(new) PROVE new[i].seq = n + 1 + i
    <3>1. new[i] = [id |-> NewMessages(p)[i], seq |-> n + 1 + i]
      BY <2>1
    <3> HIDE DEF new
    <3> QED
      BY <3>1
  <2> QED
    BY <2>1, <2>2, <2>3
<1> HIDE DEF new
<1>4. /\ file.lines \o new \in Seq(Lines) /\ Len(file.lines \o new) = n + Len(new)
      /\ \A i \in 1..n + Len(new) :
            (file.lines \o new)[i] = IF i <= n THEN file.lines[i] ELSE new[i - n]
  BY <1>1, <1>3, ConcatProperties
<1>5. DOMAIN (file.lines \o new) = 1..n + Len(new)
  BY <1>4, LenProperties
<1>6. ASSUME NEW i \in 1..n + Len(new) PROVE (file.lines \o new)[i].seq = i + 1
  <2> HIDE DEF n
  <2>1. CASE i <= n
    <3>1. i \in 1..n /\ i \in DOMAIN file.lines
      BY <1>1, <1>3, <2>1
    <3>2. (file.lines \o new)[i] = file.lines[i]
      BY <1>4, <2>1
    <3> QED
      BY <3>1, <3>2 DEF Room
  <2>2. CASE ~(i <= n)
    <3>1. i - n \in 1..Len(new) /\ n + 1 + (i - n) = i + 1
      BY <1>1, <1>3, <2>2
    <3>2. (file.lines \o new)[i] = new[i - n]
      BY <1>4, <2>2
    <3>3. new[i - n].seq = n + 1 + (i - n)
      BY <1>3, <3>1
    <3> QED
      BY <3>1, <3>2, <3>3
  <2> QED
    BY <2>1, <2>2
<1> QED
  BY <1>5, <1>6 DEF Room, new

\* The steps on the file keep the numbers: only the holder takes them, and it is alone.
LEMMA FileNumbers ==
  ASSUME TypeOK, LockInv, Numbering, NEW p \in alive,
         CreateFile(p) \/ ReadDisk(p) \/ CheckTail(p) \/ AppendLines(p) \/ Truncate(p) \/ Fill(p)
         \/ EvictUnlink(p)
  PROVE  Numbering'
<1>1. p \in Processes /\ pc \in [Processes -> PCs] /\ UNCHANGED <<alive, robbed>> /\ alive \subseteq Processes
  BY DEF CreateFile, ReadDisk, CheckTail, AppendLines, Truncate, Fill, EvictUnlink, TypeOK, lockVars
<1>2. PICK l : Goto(p, l)
  BY DEF CreateFile, ReadDisk, CheckTail, AppendLines, Truncate, Fill, EvictUnlink
<1>3. pc'[p] = l /\ \A q \in alive : q # p => pc'[q] = pc[q]
  BY <1>1, <1>2 DEF Goto
<1>4. Room(<<>>) /\ Absent.lines = <<>>
  BY DEF Room, Absent
<1> SUFFICES ASSUME ~robbed PROVE Numbering'
  BY <1>1 DEF Numbering
<1>5. Room(file.lines)
  BY DEF Numbering
<1>6. CASE EvictUnlink(p)
  <2>1. file' = Absent /\ file'.is # "room"
    BY <1>6 DEF EvictUnlink, Absent
  <2> QED
    BY <2>1, <1>4 DEF Numbering
<1>7. ASSUME ~EvictUnlink(p) PROVE \A q \in alive : q # p => pc'[q] \notin {"tail", "append"}
  <2>1. Holding(p)
    BY <1>7 DEF CreateFile, ReadDisk, CheckTail, AppendLines, Truncate, Fill, Holding
  <2> QED
    BY <1>3, <2>1, Alone DEF Holding
<1>8. CASE CheckTail(p)
  <2>1. pc[p] = "tail" /\ UNCHANGED <<file, disk>>
    BY <1>8 DEF CheckTail, fileVars
  <2> QED
    BY <1>1, <1>3, <2>1, NumberingMoves
<1>9. CASE ReadDisk(p)
  <2>1. file' = file /\ disk'[p] = file.lines
    BY <1>1, <1>9 DEF ReadDisk, TypeOK
  <2>2. pc[p] # "evict"
    BY <1>9 DEF ReadDisk
  <2>3. ~EvictUnlink(p)
    BY <2>2 DEF EvictUnlink
  <2> QED
    BY <1>1, <1>5, <1>7, <2>1, <2>3 DEF Numbering
<1>10. CASE CreateFile(p) \/ Truncate(p)
  <2>1. file'.lines = <<>> /\ file'.is # "room"
    BY <1>10 DEF CreateFile, Truncate, Absent
  <2> QED
    BY <1>4, <2>1 DEF Numbering
<1>11. CASE AppendLines(p)
  <2>1. pc[p] = "append" /\ pc'[p] = "release" /\ ~EvictUnlink(p)
    BY <1>1, <1>11 DEF AppendLines, Goto, EvictUnlink
  <2>2. file.is = "room" => disk[p] = file.lines
    BY <2>1 DEF Numbering
  <2>3. Room(file'.lines)
    BY <1>4, <1>5, <1>11, <2>2, AppendFile, AppendNumbers
  <2> QED
    BY <1>7, <2>1, <2>3, <1>1 DEF Numbering
<1>12. CASE Fill(p)
  <2>1. pc[p] = "fill" /\ pc'[p] = "release" /\ ~EvictUnlink(p)
    BY <1>1, <1>12 DEF Fill, Goto, EvictUnlink
  <2>2. Room(file'.lines)
    BY <1>1, <1>5, <1>12, WholeRoomLines DEF Fill
  <2> QED
    BY <1>7, <2>1, <2>2, <1>1 DEF Numbering
<1> QED
  BY <1>6, <1>8, <1>9, <1>10, <1>11, <1>12

\* A death leaves whole lines, and those in front of a torn one keep their numbers.
LEMMA CrashNumbers ==
  ASSUME TypeOK, LockInv, Numbering, NEW p \in alive, Crash(p)
  PROVE  Numbering'
<1>1. p \in Processes /\ UNCHANGED <<pc, robbed, disk>> /\ alive' = alive \ {p}
  BY DEF Crash, TypeOK, lockVars
<1> SUFFICES ASSUME ~robbed PROVE Numbering'
  BY <1>1 DEF Numbering
<1>2. CASE UNCHANGED file
  BY <1>1, <1>2, NumberingMoves
<1>3. CASE pc[p] = "append" /\ file' = [file EXCEPT !.tail = "torn"]
  <2>1. file'.lines = file.lines /\ file'.is = file.is
    BY <1>3 DEF TypeOK
  <2> QED
    BY <1>1, <2>1 DEF Numbering, Room
<1>4. ASSUME NEW n \in 0..Len(WholeRoom(p)), pc[p] = "fill",
             file' = [file EXCEPT !.is = "room", !.lines = SubSeq(WholeRoom(p), 1, n), !.tail = "torn"]
      PROVE  Numbering'
  <2>1. file'.lines = SubSeq(WholeRoom(p), 1, n)
    BY <1>4 DEF TypeOK
  <2>2. /\ WholeRoom(p) \in Seq(Lines) /\ Room(WholeRoom(p)) /\ Len(WholeRoom(p)) \in Nat
        /\ DOMAIN WholeRoom(p) = 1..Len(WholeRoom(p))
    BY <1>1, WholeRoomLines, LenProperties
  <2>3. Room(SubSeq(WholeRoom(p), 1, n))
    BY <2>2 DEF Room
  <2>4. \A q \in alive' : ~Holding(q)
    BY <1>1, <1>4, Alone DEF Holding
  <2> QED
    BY <1>1, <2>1, <2>3, <2>4 DEF Numbering, Holding
<1> QED
  BY <1>2, <1>3, <1>4 DEF Crash

\* Every step keeps the numbers.
LEMMA NumbersStep == TypeOK /\ LockInv /\ Numbering /\ [Next]_vars => Numbering'
<1> SUFFICES ASSUME TypeOK, LockInv, Numbering, [Next]_vars PROVE Numbering'
  OBVIOUS
<1>1. ASSUME NEW p \in alive, Step(p) \/ GiveUp(p) \/ Create(p) \/ Post(p) \/ Evict(p)
      PROVE  Numbering'
  <2>1. CASE \/ CreateFile(p) \/ ReadDisk(p) \/ CheckTail(p) \/ AppendLines(p) \/ Truncate(p)
             \/ Fill(p) \/ EvictUnlink(p)
    BY <2>1, FileNumbers
  <2>2. CASE \/ TryLock(p) \/ StampLock(p) \/ Look(p) \/ StealStaleLock(p) \/ GiveUp(p)
             \/ ReleaseLock(p) \/ UnlinkLock(p) \/ Create(p) \/ Post(p) \/ Evict(p)
    <3>1. /\ UNCHANGED <<file, disk, alive>> /\ (robbed => robbed')
          /\ pc'[p] \notin {"tail", "append"} /\ \A q \in Processes : q # p => pc'[q] = pc[q]
      BY <2>2, LockMoves
    <3>2. alive \subseteq Processes
      BY DEF TypeOK
    <3> QED
      BY <3>1, <3>2, NumberingMoves
  <2> QED
    BY <1>1, <2>1, <2>2 DEF Step
<1>2. ASSUME NEW p \in alive, Crash(p) PROVE Numbering'
  BY <1>2, CrashNumbers
<1>3. CASE LockAges \/ Expire \/ UNCHANGED vars
  BY <1>3, NumberingMoves DEF LockAges, Expire, vars, fileVars, lockVars, roomVars
<1> QED
  BY <1>1, <1>2, <1>3 DEF Next

\* The seqs rise, for every number of writers and in spite of deaths and torn lines: only a
\* robbed owner can spoil them.
THEOREM SeqsRiseHolds == Spec => []SeqsRise
<1>1. Init => Numbering
  BY DEF Init, Numbering, Room, Absent
<1>2. TypeOK /\ Numbering => SeqsRise
  <2>1. ASSUME TypeOK, Room(file.lines), NEW i \in DOMAIN file.lines, NEW j \in DOMAIN file.lines, i < j
        PROVE  file.lines[i].seq < file.lines[j].seq
    <3>1. file.lines \in Seq(Lines)
      BY <2>1 DEF TypeOK
    <3>2. DOMAIN file.lines = 1..Len(file.lines) /\ Len(file.lines) \in Nat
      BY <3>1, LenProperties
    <3>3. i \in Nat /\ j \in Nat
      BY <3>2
    <3> QED
      BY <2>1, <3>3 DEF Room
  <2> QED
    BY <2>1 DEF Numbering, SeqsRise
<1> QED
  BY <1>1, <1>2, NumbersStep, TypesHold, HoldersOwnLock, PTL DEF Spec

-----------------------------------------------------------------------------
(* What is stored stays *)

\* Before its code is known nothing is stored in a room, nor about to be.
Unposted == ~known => stored = {} /\ \A p \in Processes : view[p] = <<>>

\* Unless an owner was robbed, a live room evicted or a rewriting cut short, whatever was stored
\* is in the file, or on the disk as the one who rewrites it has read it.
Keeping ==
  ~robbed /\ ~purged /\ ~expired /\ WritersDone =>
    /\ file.is # "junk" /\ file.tail # "glued"
    /\ file.is = "room" => stored \subseteq Ids(file.lines)
    /\ file.is = "absent" => stored = {}
    /\ file.is = "empty" => \E p \in alive : pc[p] = "fill"
    /\ \A p \in alive :
         /\ pc[p] \in {"tail", "append"} => file.is = "room"
         /\ pc[p] = "append" => file.tail = "clean"
         /\ pc[p] \in {"truncate", "fill"} => stored \subseteq Ids(disk[p])
         /\ pc[p] = "fill" => p \in file.opened

\* Posting, the only step that fills a view, requires the code; writing stores what is in views.
LEMMA UnpostedStep == TypeOK /\ Unposted /\ [Next]_vars => Unposted'
<1> SUFFICES ASSUME TypeOK, Unposted, [Next]_vars PROVE Unposted'
  OBVIOUS
<1> SUFFICES ASSUME ~known' PROVE stored' = {} /\ \A p \in Processes : view'[p] = <<>>
  BY DEF Unposted
<1>1. ~known
  BY DEF Next, Step, LockAges, Expire, TryLock, StampLock, Look, StealStaleLock, CreateFile, ReadDisk,
         CheckTail, AppendLines, Truncate, Fill, ReleaseLock, UnlinkLock, EvictUnlink, GiveUp, Create,
         Post, Evict, Crash, vars, roomVars
<1>2. stored = {} /\ \A p \in Processes : view[p] = <<>>
  BY <1>1 DEF Unposted
<1>3. view' = view
  BY <1>1 DEF Next, Step, LockAges, Expire, TryLock, StampLock, Look, StealStaleLock, CreateFile,
         ReadDisk, CheckTail, AppendLines, Truncate, Fill, ReleaseLock, UnlinkLock, EvictUnlink, GiveUp,
         Create, Post, Evict, Crash, vars, roomVars
<1>4. \/ stored' = stored
      \/ \E p \in alive : stored' = stored \cup ToSet(view[p])
  BY DEF Next, Step, LockAges, Expire, TryLock, StampLock, Look, StealStaleLock, CreateFile,
         ReadDisk, CheckTail, AppendLines, Truncate, Fill, ReleaseLock, UnlinkLock, EvictUnlink, GiveUp,
         Create, Post, Evict, Crash, Report, vars, fileVars
<1>5. ToSet(<<>>) = {}
  BY DEF ToSet
<1> QED
  BY <1>2, <1>3, <1>4, <1>5 DEF TypeOK

\* Whoever is done with writing when somebody died stays so.
LEMMA DoneBefore ==
  ASSUME TypeOK, WritersDone', alive' \subseteq alive,
         \A q \in Processes \ alive : pc'[q] = pc[q]
  PROVE  WritersDone
BY DEF WritersDone, TypeOK

\* Steps that leave the file, what was read and what was stored alone, and move nobody into or
\* out of where the file is written.
LEMMA KeepingMoves ==
  ASSUME TypeOK, Keeping, UNCHANGED <<file, disk, stored, purged, alive>>, expired => expired',
         robbed => robbed',
         \A q \in Processes : \/ pc'[q] = pc[q]
                             \/ /\ pc[q] \notin {"tail", "append", "truncate", "fill"}
                                /\ pc'[q] \notin {"tail", "append", "truncate", "fill"}
  PROVE  Keeping'
<1> SUFFICES ASSUME ~robbed', ~purged', ~expired', WritersDone' PROVE Keeping'
  BY DEF Keeping
<1>1. WritersDone /\ ~robbed /\ ~purged /\ ~expired
  BY DEF WritersDone
<1>2. \A q \in alive : q \in Processes
  BY DEF TypeOK
<1> QED
  BY <1>1, <1>2 DEF Keeping

\* A torn room is to be written anew, a whole one to be added to, a missing one to be made.
LEMMA ReadKeeps ==
  ASSUME TypeOK, LockInv, Numbering, Keeping, NEW p \in alive, ReadDisk(p) \/ CheckTail(p)
  PROVE  Keeping'
<1>1. /\ p \in Processes /\ alive \subseteq Processes /\ UNCHANGED <<file, stored, purged, alive, expired, robbed>>
      /\ Holding(p)
  BY DEF ReadDisk, CheckTail, TypeOK, fileVars, lockVars, roomVars, Holding
<1>2. PICK l : Goto(p, l)
  BY DEF ReadDisk, CheckTail
<1>3. pc'[p] = l /\ \A q \in Processes : q # p => pc'[q] = pc[q]
  BY <1>1, <1>2 DEF Goto, TypeOK
<1> SUFFICES ASSUME ~robbed, ~purged, ~expired, WritersDone' PROVE Keeping'
  BY <1>1 DEF Keeping
<1>4. WritersDone
  BY <1>1, <1>3, DoneBefore
<1>5. \A q \in alive : q # p => ~Holding(q)
  BY <1>1, Alone
<1>6. \A q \in alive : q # p => pc'[q] \notin {"tail", "append", "truncate", "fill"}
  BY <1>1, <1>3, <1>5 DEF Holding
<1>7. file.is # "empty"
  BY <1>4, <1>5 DEF Keeping, Holding, ReadDisk, CheckTail
<1>8. CASE ReadDisk(p)
  <2>1. disk'[p] = file.lines
    BY <1>1, <1>8 DEF ReadDisk, TypeOK
  <2>2. /\ l \in {"tail", "truncate", "release"} /\ (l = "tail" => file.is = "room")
        /\ (l = "truncate" => file.is = "absent")
    BY <1>1, <1>3, <1>8 DEF ReadDisk, Goto, TypeOK
  <2>3. l = "truncate" => stored = {}
    BY <2>2, <1>4 DEF Keeping
  <2> QED
    BY <1>1, <1>3, <1>4, <1>6, <1>7, <2>1, <2>2, <2>3 DEF Keeping
<1>9. CASE CheckTail(p)
  <2>1. /\ l \in {"truncate", "append", "release"} /\ UNCHANGED disk /\ pc[p] = "tail"
        /\ (l = "append" => file.tail # "torn")
    BY <1>1, <1>3, <1>9 DEF CheckTail, Goto, TypeOK, TornTail, fileVars
  <2>2. file.is = "room" /\ disk[p] = file.lines
    BY <1>4, <2>1 DEF Keeping, Numbering
  <2>3. l = "append" => file.tail = "clean"
    BY <1>4, <2>1 DEF Keeping, TypeOK
  <2> QED
    BY <1>1, <1>3, <1>4, <1>6, <1>7, <2>1, <2>2, <2>3 DEF Keeping
<1> QED
  BY <1>8, <1>9

\* A line that is added, or a room written whole, has what was stored before and what is now.
LEMMA WriteKeeps ==
  ASSUME TypeOK, LockInv, Numbering, Keeping, NEW p \in alive, AppendLines(p) \/ Fill(p)
  PROVE  Keeping'
<1>1. /\ p \in Processes /\ alive \subseteq Processes /\ UNCHANGED <<disk, purged, alive, expired, robbed>>
      /\ Holding(p) /\ pc'[p] = "release" /\ \A q \in Processes : q # p => pc'[q] = pc[q]
      /\ stored' = stored \cup ToSet(view[p])
  BY DEF AppendLines, Fill, Report, Goto, TypeOK, lockVars, roomVars, Holding
<1> SUFFICES ASSUME ~robbed, ~purged, ~expired, WritersDone' PROVE Keeping'
  BY <1>1 DEF Keeping
<1>2. WritersDone
  BY <1>1, DoneBefore
<1>3. \A q \in alive : pc'[q] \notin {"tail", "append", "truncate", "fill"}
  BY <1>1, Alone DEF Holding
<1>4. file'.is = "room" /\ file'.tail # "glued" /\ stored' \subseteq Ids(file'.lines)
  <2>1. CASE AppendLines(p)
    <3>1. file.is = "room" /\ file.tail = "clean" /\ stored \subseteq Ids(file.lines)
      BY <1>2, <2>1 DEF AppendLines, Keeping
    <3>2. disk[p] = file.lines
      BY <2>1, <3>1 DEF AppendLines, Numbering
    <3> DEFINE new == Numbered(NewMessages(p), Len(disk[p]))
    <3>3. /\ file'.is = "room" /\ file'.tail # "glued"
          /\ file'.lines = file.lines \o new
      <4>1. file.lines \in Seq(Lines) /\ new \in Seq(Lines)
        BY <1>1, NewMessagesCover, NumberedLines, LenProperties DEF TypeOK
      <4>2. file' = [file EXCEPT !.lines = file.lines \o new, !.tail = file.tail]
        BY <2>1, <3>1 DEF AppendLines
      <4> HIDE DEF new
      <4> QED
        BY <3>1, <4>2 DEF TypeOK
    <3>4. file.lines \in Seq(Lines) /\ new \in Seq(Lines) /\ Ids(new) = ToSet(NewMessages(p))
      BY <1>1, NewMessagesCover, NumberedLines, LenProperties DEF TypeOK
    <3> HIDE DEF new
    <3>5. Ids(file.lines \o new) = Ids(file.lines) \cup Ids(new)
      <4>1. /\ Range(file.lines \o new) = Range(file.lines) \cup Range(new)
        BY <3>4, RangeConcatenation
      <4>2. \A t : Ids(t) = {x.id : x \in Range(t)}
        BY DEF Ids, Range
      <4> QED
        BY <4>1, <4>2
    <3>6. ToSet(view[p]) \subseteq Ids(file.lines) \cup Ids(new)
      BY <1>1, <3>2, <3>4, NewMessagesCover
    <3> QED
      BY <1>1, <3>1, <3>3, <3>5, <3>6
  <2>2. CASE Fill(p)
    <3>1. p \in file.opened /\ stored \subseteq Ids(disk[p])
      BY <1>2, <2>2 DEF Fill, Keeping
    <3>2. file'.is = "room" /\ file'.tail = "clean" /\ file'.lines = WholeRoom(p)
      BY <2>2, <3>1 DEF Fill
    <3> QED
      BY <1>1, <3>1, <3>2, WholeRoomLines
  <2> QED
    BY <2>1, <2>2
<1> QED
  BY <1>1, <1>3, <1>4 DEF Keeping

\* A file is emptied by the holder, which has what is stored on its disk and its handle open.
LEMMA EmptyKeeps ==
  ASSUME TypeOK, LockInv, Unposted, Keeping, NEW p \in alive, CreateFile(p) \/ Truncate(p)
  PROVE  Keeping'
<1>1. /\ p \in Processes /\ alive \subseteq Processes
      /\ UNCHANGED <<disk, stored, purged, alive, expired, robbed>>
      /\ Holding(p) /\ pc'[p] = "fill" /\ \A q \in Processes : q # p => pc'[q] = pc[q]
  BY DEF CreateFile, Truncate, Goto, TypeOK, lockVars, roomVars, Holding
<1> SUFFICES ASSUME ~robbed, ~purged, ~expired, WritersDone' PROVE Keeping'
  BY <1>1 DEF Keeping
<1>2. WritersDone
  BY <1>1, DoneBefore
<1>3. \A q \in alive : q # p => pc'[q] \notin {"tail", "append", "truncate", "fill"}
  BY <1>1, Alone DEF Holding
<1>4. file'.is = "empty" /\ file'.tail = "clean" /\ p \in file'.opened
  BY DEF CreateFile, Truncate, Absent
<1>5. stored \subseteq Ids(disk[p])
  <2>1. CASE CreateFile(p)
    BY <2>1 DEF CreateFile, Creating, Unposted
  <2>2. CASE Truncate(p)
    BY <1>2, <2>2 DEF Truncate, Keeping
  <2> QED
    BY <2>1, <2>2
<1> QED
  BY <1>1, <1>3, <1>4, <1>5 DEF Keeping

\* A file that may go is none that holds anything stored.
LEMMA EvictKeeps ==
  ASSUME TypeOK, Keeping, NEW p \in alive, EvictUnlink(p)
  PROVE  Keeping'
<1>1. /\ p \in Processes /\ alive \subseteq Processes /\ UNCHANGED <<disk, stored, alive, expired, robbed>>
      /\ pc'[p] = "idle" /\ \A q \in Processes : q # p => pc'[q] = pc[q]
      /\ purged' = (purged \/ ~Evictable) /\ file' = Absent
  BY DEF EvictUnlink, Goto, TypeOK, lockVars, roomVars
<1> SUFFICES ASSUME ~robbed, ~purged', ~expired, WritersDone' PROVE Keeping'
  BY <1>1 DEF Keeping
<1>2. WritersDone /\ ~purged /\ file.is # "room" /\ file.opened \cap alive = {}
  BY <1>1, DoneBefore DEF Evictable
<1>3. \A q \in alive : pc[q] \notin {"tail", "append", "fill"}
  BY <1>2 DEF Keeping
<1>4. stored = {}
  BY <1>2, <1>3 DEF Keeping, TypeOK
<1>5. file'.is = "absent" /\ file'.tail = "clean"
  BY <1>1 DEF Absent
<1>6. \A q \in alive : pc'[q] \notin {"tail", "append", "fill"}
  BY <1>1, <1>3
<1> QED
  BY <1>4, <1>5, <1>6, <1>1 DEF Keeping

\* A death tears at most a line that nobody was told was stored.
LEMMA CrashKeeps ==
  ASSUME TypeOK, LockInv, Keeping, NEW p \in alive, Crash(p)
  PROVE  Keeping'
<1>1. /\ p \in Processes /\ alive \subseteq Processes
      /\ UNCHANGED <<pc, disk, stored, purged, expired, robbed>> /\ alive' = alive \ {p}
  BY DEF Crash, TypeOK, lockVars, roomVars
<1> SUFFICES ASSUME ~robbed, ~purged, ~expired, WritersDone' PROVE Keeping'
  BY <1>1 DEF Keeping
<1>2. WritersDone
  BY <1>1, DoneBefore
<1>3. pc[p] # "fill"
  BY <1>1 DEF WritersDone
<1>4. \/ file' = file
      \/ pc[p] = "append" /\ file' = [file EXCEPT !.tail = "torn"]
  BY <1>3 DEF Crash
<1>5. /\ file'.is = file.is /\ file'.lines = file.lines /\ file'.opened = file.opened
      /\ file'.tail # "glued"
      /\ file'.tail = file.tail \/ pc[p] = "append"
  BY <1>2, <1>4 DEF Keeping, TypeOK
<1>6. pc[p] = "append" => \A q \in alive' : pc[q] # "append"
  BY <1>1, Alone DEF Holding
<1> QED
  BY <1>1, <1>2, <1>3, <1>5, <1>6 DEF Keeping

\* Every step keeps what is stored.
LEMMA KeepingStep == TypeOK /\ LockInv /\ Numbering /\ Unposted /\ Keeping /\ [Next]_vars => Keeping'
<1> SUFFICES ASSUME TypeOK, LockInv, Numbering, Unposted, Keeping, [Next]_vars PROVE Keeping'
  OBVIOUS
<1>1. ASSUME NEW p \in alive, Step(p) \/ GiveUp(p) \/ Create(p) \/ Post(p) \/ Evict(p)
      PROVE  Keeping'
  <2>1. CASE ReadDisk(p) \/ CheckTail(p)
    BY <2>1, ReadKeeps
  <2>2. CASE AppendLines(p) \/ Fill(p)
    BY <2>2, WriteKeeps
  <2>3. CASE CreateFile(p) \/ Truncate(p)
    BY <2>3, EmptyKeeps
  <2>4. CASE EvictUnlink(p)
    BY <2>4, EvictKeeps
  <2>5. CASE \/ TryLock(p) \/ StampLock(p) \/ Look(p) \/ StealStaleLock(p) \/ GiveUp(p)
             \/ ReleaseLock(p) \/ UnlinkLock(p) \/ Create(p) \/ Post(p) \/ Evict(p)
    BY <2>5, LockMoves, KeepingMoves
  <2> QED
    BY <1>1, <2>1, <2>2, <2>3, <2>4, <2>5 DEF Step
<1>2. ASSUME NEW p \in alive, Crash(p) PROVE Keeping'
  BY <1>2, CrashKeeps
<1>3. CASE LockAges \/ Expire \/ UNCHANGED vars
  BY <1>3, KeepingMoves DEF LockAges, Expire, vars, fileVars, lockVars, roomVars
<1> QED
  BY <1>1, <1>2, <1>3 DEF Next

\* A room that can be read has every message whose writing was reported, for every number of
\* writers, through deaths and torn lines: unless an owner was robbed, a live room evicted, or
\* the rewriting of a whole room cut short.
THEOREM StoredStaysHolds == Spec => []StoredStays
<1>1. Init => Unposted /\ Keeping /\ Numbering
  BY DEF Init, Unposted, Keeping, Numbering, Room, Absent
<1>2. Keeping => StoredStays
  BY DEF Keeping, StoredStays
<1> QED
  BY <1>1, <1>2, NumbersStep, UnpostedStep, KeepingStep, TypesHold, HoldersOwnLock, PTL DEF Spec

-----------------------------------------------------------------------------
(* Prefixes and lines *)

\* A sequence that agrees with the beginning of another is a prefix of it.
LEMMA PrefixByPlaces ==
  ASSUME NEW T, NEW s \in Seq(T), NEW t \in Seq(T), Len(s) <= Len(t),
         \A i \in 1..Len(s) : s[i] = t[i]
  PROVE  Promised!IsPrefix(s, t)
<1> DEFINE k == Len(s)
<1>1. k \in Nat /\ Len(t) \in Nat /\ DOMAIN s = 1..k /\ DOMAIN t = 1..Len(t)
  BY LenProperties
<1>2. \A i \in 1..k : t[i] \in T /\ s[i] \in T
  BY <1>1, ElementOfSeq
<1>3. /\ SubSeq(s, 1, k) \in Seq(T) /\ SubSeq(t, 1, k) \in Seq(T)
      /\ Len(SubSeq(s, 1, k)) = k /\ Len(SubSeq(t, 1, k)) = k
      /\ \A i \in 1..k : SubSeq(s, 1, k)[i] = s[i] /\ SubSeq(t, 1, k)[i] = t[i]
  <2> HIDE DEF k
  <2>1. k - 1 + 1 = k /\ (IF 1 <= k THEN k - 1 + 1 ELSE 0) = k /\ \A i \in 1..k : 1 + i - 1 = i
    BY <1>1
  <2>2. /\ SubSeq(s, 1, k) \in Seq(T) /\ Len(SubSeq(s, 1, k)) = IF 1 <= k THEN k - 1 + 1 ELSE 0
        /\ \A i \in 1..(k - 1 + 1) : SubSeq(s, 1, k)[i] = s[1 + i - 1]
    BY <1>1, <1>2, SubSeqProperties
  <2>3. /\ SubSeq(t, 1, k) \in Seq(T) /\ Len(SubSeq(t, 1, k)) = IF 1 <= k THEN k - 1 + 1 ELSE 0
        /\ \A i \in 1..(k - 1 + 1) : SubSeq(t, 1, k)[i] = t[1 + i - 1]
    BY <1>1, <1>2, SubSeqProperties
  <2> QED
    BY <2>1, <2>2, <2>3
<1>4. SubSeq(s, 1, k) = SubSeq(t, 1, k)
  <2>1. \A i \in 1..k : SubSeq(s, 1, k)[i] = SubSeq(t, 1, k)[i]
    BY <1>3
  <2> HIDE DEF k
  <2> QED
    BY <1>3, <2>1, SeqEqual
<1> QED
  BY <1>4 DEF Promised!IsPrefix

LEMMA PrefixFacts ==
  ASSUME NEW T, NEW s \in Seq(T), NEW t \in Seq(T)
  PROVE  Promised!IsPrefix(s, s) /\ Promised!IsPrefix(<<>>, s) /\ Promised!IsPrefix(s, s \o t)
<1>1. Len(s) \in Nat /\ Len(t) \in Nat /\ <<>> \in Seq(T) /\ Len(<<>>) = 0
  BY LenProperties, EmptySeq
<1>2. Promised!IsPrefix(s, s)
  BY <1>1, PrefixByPlaces
<1>4. Promised!IsPrefix(<<>>, s)
  <2> DEFINE e == <<>>
  <2>1. e \in Seq(T) /\ Len(e) <= Len(s) /\ \A i \in 1..Len(e) : e[i] = s[i]
    BY <1>1
  <2> HIDE DEF e
  <2>2. Promised!IsPrefix(e, s)
    BY <2>1, PrefixByPlaces
  <2> QED
    BY <2>2 DEF e
<1>3. /\ s \o t \in Seq(T) /\ Len(s) <= Len(s \o t)
      /\ \A i \in 1..Len(s) : s[i] = (s \o t)[i]
  BY <1>1, ConcatProperties
<1> QED
  BY <1>2, <1>3, <1>4, PrefixByPlaces

\* A beginning of a sequence and another beginning of it: one is a prefix of the other.
LEMMA PrefixOfCut ==
  ASSUME NEW T, NEW s \in Seq(T), NEW t \in Seq(T), NEW n \in 0..Len(s \o t)
  PROVE  LET c == SubSeq(s \o t, 1, n) IN
         /\ Promised!IsPrefix(s, c) \/ Promised!IsPrefix(c, s)
         /\ IsInjective(s \o t) => IsInjective(c)
<1> DEFINE u == s \o t
           c == SubSeq(u, 1, n)
<1>1. /\ u \in Seq(T) /\ Len(u) \in Nat /\ Len(s) \in Nat /\ Len(s) <= Len(u)
      /\ DOMAIN u = 1..Len(u) /\ n \in Nat /\ n <= Len(u)
      /\ \A i \in 1..Len(s) : u[i] = s[i]
  BY ConcatProperties, LenProperties
<1> HIDE DEF u
<1>2. /\ c \in Seq(T) /\ Len(c) = n /\ DOMAIN c = 1..n
      /\ \A i \in 1..n : c[i] = u[i] /\ i \in 1..Len(u)
  <2>1. \A i \in 1..n : i \in 1..Len(u) /\ u[i] \in T
    BY <1>1, ElementOfSeq
  <2>2. /\ SubSeq(u, 1, n) \in Seq(T) /\ Len(SubSeq(u, 1, n)) = IF 1 <= n THEN n - 1 + 1 ELSE 0
        /\ \A i \in 1..(n - 1 + 1) : SubSeq(u, 1, n)[i] = u[1 + i - 1]
    BY <1>1, <2>1, SubSeqProperties
  <2>3. n - 1 + 1 = n /\ (IF 1 <= n THEN n - 1 + 1 ELSE 0) = n /\ \A i \in 1..n : 1 + i - 1 = i
    BY <1>1
  <2> QED
    BY <2>1, <2>2, <2>3, LenProperties
<1> HIDE DEF c
<1>5. IsInjective(u) => IsInjective(c)
  BY <1>1, <1>2 DEF IsInjective
<1>3. ASSUME Len(s) <= n PROVE Promised!IsPrefix(s, c)
  <2>1. \A i \in 1..Len(s) : s[i] = c[i]
    BY <1>1, <1>2, <1>3
  <2> QED
    BY <1>2, <1>3, <2>1, PrefixByPlaces
<1>4. ASSUME n <= Len(s) PROVE Promised!IsPrefix(c, s)
  <2>1. \A i \in 1..Len(c) : c[i] = s[i]
    BY <1>1, <1>2, <1>4
  <2> QED
    BY <1>2, <1>4, <2>1, PrefixByPlaces
<1>6. Promised!IsPrefix(s, c) \/ Promised!IsPrefix(c, s)
  BY <1>1, <1>2, <1>3, <1>4
<1> QED
  BY <1>5, <1>6 DEF c, u

\* The messages of lines put together, numbered, or cut.
LEMMA IdSeqs ==
  ASSUME NEW lines \in Seq(Lines), NEW ids \in Seq(Messages), NEW k \in Nat
  PROVE  /\ IdSeq(lines \o Numbered(ids, k)) = IdSeq(lines) \o ids
         /\ IdSeq(Numbered(ids, k)) = ids
         /\ \A n \in 0..Len(lines) : IdSeq(SubSeq(lines, 1, n)) = SubSeq(IdSeq(lines), 1, n)
         /\ IdSeq(<<>>) = <<>> /\ Len(IdSeq(lines)) = Len(lines)
<1> DEFINE more == Numbered(ids, k)
<1>1. /\ more \in Seq(Lines) /\ Len(more) = Len(ids) /\ Len(ids) \in Nat /\ Len(lines) \in Nat
      /\ \A i \in 1..Len(ids) : more[i].id = ids[i]
  <2>1. /\ more \in Seq(Lines) /\ Len(more) = Len(ids)
        /\ \A i \in 1..Len(ids) : more[i] = [id |-> ids[i], seq |-> k + 1 + i]
    BY NumberedLines
  <2> HIDE DEF more
  <2>2. Len(ids) \in Nat /\ Len(lines) \in Nat
    BY LenProperties
  <2>3. ASSUME NEW i \in 1..Len(ids) PROVE more[i].id = ids[i]
    <3>1. more[i] = [id |-> ids[i], seq |-> k + 1 + i]
      BY <2>1
    <3> QED
      BY <3>1
  <2> QED
    BY <2>1, <2>2, <2>3
<1> HIDE DEF more
<1>2. \A l \in Seq(Lines) : /\ IdSeq(l) \in Seq(Messages) /\ Len(IdSeq(l)) = Len(l) /\ Len(l) \in Nat
                            /\ \A i \in 1..Len(l) : IdSeq(l)[i] = l[i].id
  <2> TAKE l \in Seq(Lines)
  <2>1. DOMAIN l = 1..Len(l) /\ Len(l) \in Nat /\ IdSeq(l) \in Seq(Messages)
    BY IdSeqOfLines, LenProperties
  <2>2. DOMAIN IdSeq(l) = 1..Len(l) /\ \A i \in 1..Len(l) : IdSeq(l)[i] = l[i].id
    BY <2>1 DEF IdSeq
  <2>3. Len(IdSeq(l)) = Len(l)
    BY <2>1, <2>2, LenProperties
  <2> QED
    BY <2>1, <2>2, <2>3
<1>3. IdSeq(more) = ids
  BY <1>1, <1>2, SeqEqual
<1>4. IdSeq(lines \o more) = IdSeq(lines) \o ids
  <2>1. /\ lines \o more \in Seq(Lines) /\ Len(lines \o more) = Len(lines) + Len(ids)
        /\ \A i \in 1..Len(lines) + Len(ids) :
             (lines \o more)[i] = IF i <= Len(lines) THEN lines[i] ELSE more[i - Len(lines)]
    <3>1. /\ lines \o more \in Seq(Lines) /\ Len(lines \o more) = Len(lines) + Len(more)
          /\ \A i \in 1..Len(lines) + Len(more) :
               (lines \o more)[i] = IF i <= Len(lines) THEN lines[i] ELSE more[i - Len(lines)]
      BY <1>1, ConcatProperties
    <3> QED
      BY <1>1, <3>1, Zenon
  <2>2. /\ IdSeq(lines) \o ids \in Seq(Messages)
        /\ Len(IdSeq(lines) \o ids) = Len(lines) + Len(ids)
        /\ \A i \in 1..Len(lines) + Len(ids) :
             (IdSeq(lines) \o ids)[i] = IF i <= Len(lines) THEN IdSeq(lines)[i] ELSE ids[i - Len(lines)]
    <3> DEFINE old == IdSeq(lines)
    <3>1. old \in Seq(Messages) /\ Len(old) = Len(lines)
      BY <1>2
    <3> HIDE DEF old
    <3>2. /\ old \o ids \in Seq(Messages) /\ Len(old \o ids) = Len(old) + Len(ids)
          /\ \A i \in 1..Len(old) + Len(ids) :
               (old \o ids)[i] = IF i <= Len(old) THEN old[i] ELSE ids[i - Len(old)]
      BY <3>1, ConcatProperties
    <3>3. /\ old \o ids \in Seq(Messages) /\ Len(old \o ids) = Len(lines) + Len(ids)
          /\ \A i \in 1..Len(lines) + Len(ids) :
               (old \o ids)[i] = IF i <= Len(lines) THEN old[i] ELSE ids[i - Len(lines)]
      BY <3>1, <3>2, Zenon
    <3> QED
      BY <3>3 DEF old
  <2>3. ASSUME NEW i \in 1..Len(lines) + Len(ids)
        PROVE  IdSeq(lines \o more)[i] = (IdSeq(lines) \o ids)[i]
    <3>1. IdSeq(lines \o more)[i] = (lines \o more)[i].id
      BY <1>2, <2>1
    <3>2. CASE i <= Len(lines)
      <4>1. i \in 1..Len(lines)
        BY <1>1, <3>2
      <4> QED
        BY <1>2, <2>1, <2>2, <3>1, <3>2, <4>1
    <3>3. CASE ~(i <= Len(lines))
      <4>1. i - Len(lines) \in 1..Len(ids)
        BY <1>1, <3>3
      <4> QED
        BY <1>1, <2>1, <2>2, <3>1, <3>3, <4>1
    <3> QED
      BY <3>2, <3>3
  <2>4. IdSeq(lines \o more) \in Seq(Messages) /\ Len(IdSeq(lines \o more)) = Len(lines) + Len(ids)
    BY <1>2, <2>1
  <2> QED
    BY <2>2, <2>3, <2>4, SeqEqual
<1>5. ASSUME NEW n \in 0..Len(lines) PROVE IdSeq(SubSeq(lines, 1, n)) = SubSeq(IdSeq(lines), 1, n)
  <2>1. n \in Nat /\ n - 1 + 1 = n /\ (IF 1 <= n THEN n - 1 + 1 ELSE 0) = n /\ \A i \in 1..n : 1 + i - 1 = i
    BY <1>1
  <2>2. \A i \in 1..n : i \in 1..Len(lines) /\ lines[i] \in Lines /\ IdSeq(lines)[i] \in Messages
    <3>1. \A i \in 1..n : i \in 1..Len(lines)
      BY <1>1, <2>1
    <3> QED
      BY <1>2, <3>1, ElementOfSeq
  <2>3. /\ SubSeq(lines, 1, n) \in Seq(Lines)
        /\ Len(SubSeq(lines, 1, n)) = IF 1 <= n THEN n - 1 + 1 ELSE 0
        /\ \A i \in 1..(n - 1 + 1) : SubSeq(lines, 1, n)[i] = lines[1 + i - 1]
    BY <2>1, <2>2, SubSeqProperties
  <2>4. /\ SubSeq(IdSeq(lines), 1, n) \in Seq(Messages)
        /\ Len(SubSeq(IdSeq(lines), 1, n)) = IF 1 <= n THEN n - 1 + 1 ELSE 0
        /\ \A i \in 1..(n - 1 + 1) : SubSeq(IdSeq(lines), 1, n)[i] = IdSeq(lines)[1 + i - 1]
    BY <2>1, <2>2, SubSeqProperties
  <2>5. /\ IdSeq(SubSeq(lines, 1, n)) \in Seq(Messages) /\ Len(IdSeq(SubSeq(lines, 1, n))) = n
        /\ \A i \in 1..n : IdSeq(SubSeq(lines, 1, n))[i] = lines[i].id
    <3> DEFINE c == SubSeq(lines, 1, n)
    <3>1. c \in Seq(Lines) /\ Len(c) = n /\ \A i \in 1..n : c[i] = lines[i]
      BY <2>1, <2>3
    <3> HIDE DEF c
    <3>2. IdSeq(c) \in Seq(Messages) /\ Len(IdSeq(c)) = n /\ \A i \in 1..n : IdSeq(c)[i] = lines[i].id
      BY <1>2, <3>1
    <3> QED
      BY <3>2 DEF c
  <2>6. /\ Len(SubSeq(IdSeq(lines), 1, n)) = n
        /\ \A i \in 1..n : SubSeq(IdSeq(lines), 1, n)[i] = lines[i].id
    BY <1>2, <2>1, <2>2, <2>4
  <2> QED
    BY <2>4, <2>5, <2>6, SeqEqual
<1>6. IdSeq(<<>>) = <<>>
  BY DEF IdSeq
<1> QED
  BY <1>2, <1>3, <1>4, <1>5, <1>6 DEF more

-----------------------------------------------------------------------------
(* A room is a log *)

\* Messages that have been posted; those that files and processes hold are.
Posted == {m \in Messages : m[2] <= posts[m[1]]}
PostedInv ==
  /\ Ids(file.lines) \subseteq Posted
  /\ \A p \in Processes : Ids(disk[p]) \subseteq Posted /\ ToSet(view[p]) \subseteq Posted

\* Before its code is known nobody has posted.
NothingYet == ~known => \A p \in Processes : posts[p] = 0

\* Nobody holds a message twice; the holder knows what the file holds, or has it to itself.
LogInv ==
  ~robbed /\ ~purged =>
    /\ file.is # "room" => file.lines = <<>>
    /\ file.tail # "glued"
    /\ IsInjective(IdSeq(file.lines))
    /\ \A p \in alive :
         /\ IsInjective(view[p]) /\ IsInjective(IdSeq(disk[p]))
         /\ pc[p] = "append" /\ file.is = "room" => file.tail = "clean"
         /\ pc[p] = "truncate" /\ file.is = "room" => disk[p] = file.lines
         /\ pc[p] = "fill" /\ p \in file.opened => file.is = "empty"

HistoryInv == PostedInv /\ NothingYet /\ LogInv

\* The new messages are of the view, are not on disk, and none is there twice.
LEMMA NewOnes ==
  ASSUME TypeOK, NEW p \in Processes
  PROVE  /\ NewMessages(p) \in Seq(Messages)
         /\ ToSet(NewMessages(p)) \subseteq ToSet(view[p])
         /\ ToSet(NewMessages(p)) \cap Ids(disk[p]) = {}
         /\ IsInjective(view[p]) => IsInjective(NewMessages(p))
<1>1. view[p] \in Seq(Messages)
  BY DEF TypeOK
<1> QED
  BY <1>1, FilteredMembers DEF NewMessages

\* A room as it is written anew: what was read, then the new messages.
LEMMA WholeIds ==
  ASSUME TypeOK, NEW p \in Processes
  PROVE  /\ IdSeq(disk[p]) \in Seq(Messages)
         /\ IdSeq(WholeRoom(p)) = IdSeq(disk[p]) \o NewMessages(p)
         /\ IsInjective(view[p]) /\ IsInjective(IdSeq(disk[p]))
              => IsInjective(IdSeq(disk[p]) \o NewMessages(p))
         /\ ToSet(IdSeq(disk[p]) \o NewMessages(p)) \subseteq Ids(disk[p]) \cup ToSet(view[p])
<1> DEFINE old == IdSeq(disk[p])
           new == NewMessages(p)
<1>1. old \in Seq(Messages) /\ ToSet(old) = Ids(disk[p]) /\ disk[p] \in Seq(Lines)
  BY IdSeqOfLines DEF TypeOK
<1>2. /\ new \in Seq(Messages) /\ ToSet(new) \subseteq ToSet(view[p])
      /\ ToSet(new) \cap ToSet(old) = {} /\ (IsInjective(view[p]) => IsInjective(new))
  BY <1>1, NewOnes
<1>3. WholeRoom(p) = Numbered(old \o new, 0)
  BY DEF WholeRoom
<1> HIDE DEF old, new
<1>4. /\ old \o new \in Seq(Messages) /\ ToSet(old \o new) = ToSet(old) \cup ToSet(new)
      /\ IsInjective(old) /\ IsInjective(new) => IsInjective(old \o new)
  BY <1>1, <1>2, Joined
<1>5. IdSeq(WholeRoom(p)) = old \o new
  BY <1>1, <1>3, <1>4, IdSeqs
<1> QED
  BY <1>1, <1>2, <1>4, <1>5 DEF old, new

\* A death leaves of it a beginning.
LEMMA CutRoom ==
  ASSUME TypeOK, NEW p \in Processes, NEW n \in 0..Len(WholeRoom(p))
  PROVE  LET ids == IdSeq(SubSeq(WholeRoom(p), 1, n)) IN
         /\ Promised!IsPrefix(IdSeq(disk[p]), ids) \/ Promised!IsPrefix(ids, IdSeq(disk[p]))
         /\ IsInjective(view[p]) /\ IsInjective(IdSeq(disk[p])) => IsInjective(ids)
         /\ ToSet(ids) \subseteq Ids(disk[p]) \cup ToSet(view[p])
<1> DEFINE old == IdSeq(disk[p])
           new == NewMessages(p)
           ids == SubSeq(old \o new, 1, n)
<1>1. WholeRoom(p) \in Seq(Lines)
  BY WholeRoomLines
<1>2. /\ old \in Seq(Messages) /\ new \in Seq(Messages) /\ IdSeq(WholeRoom(p)) = old \o new
      /\ ToSet(old \o new) \subseteq Ids(disk[p]) \cup ToSet(view[p])
      /\ IsInjective(view[p]) /\ IsInjective(old) => IsInjective(old \o new)
  BY WholeIds, NewOnes
<1>3. Len(WholeRoom(p)) = Len(old \o new) /\ IdSeq(SubSeq(WholeRoom(p), 1, n)) = ids
  <2>1. /\ IdSeq(SubSeq(WholeRoom(p), 1, n)) = SubSeq(IdSeq(WholeRoom(p)), 1, n)
        /\ Len(IdSeq(WholeRoom(p))) = Len(WholeRoom(p))
    <3> DEFINE l == WholeRoom(p)
    <3> HIDE DEF l
    <3>1. l \in Seq(Lines) /\ n \in 0..Len(l) /\ <<>> \in Seq(Messages) /\ 0 \in Nat
      BY <1>1, EmptySeq DEF l
    <3>2. IdSeq(SubSeq(l, 1, n)) = SubSeq(IdSeq(l), 1, n) /\ Len(IdSeq(l)) = Len(l)
      BY <3>1, IdSeqs
    <3> QED
      BY <3>2 DEF l
  <2> QED
    BY <1>2, <2>1
<1> HIDE DEF old, new
<1>4. n \in 0..Len(old \o new)
  BY <1>3
<1>5. /\ Promised!IsPrefix(old, ids) \/ Promised!IsPrefix(ids, old)
      /\ IsInjective(old \o new) => IsInjective(ids)
  BY <1>2, <1>4, PrefixOfCut
<1>6. ToSet(ids) \subseteq ToSet(old \o new)
  <2> DEFINE u == old \o new
  <2>1. u \in Seq(Messages)
    BY <1>2, ConcatProperties
  <2>2. Len(u) \in Nat /\ DOMAIN u = 1..Len(u) /\ \A i \in 1..Len(u) : u[i] \in Messages
    BY <2>1, LenProperties, ElementOfSeq
  <2> HIDE DEF u
  <2>3. n \in Nat /\ \A i \in 1..n : i \in 1..Len(u) /\ u[i] \in Messages
    BY <1>4, <2>2 DEF u
  <2>4. /\ SubSeq(u, 1, n) \in Seq(Messages) /\ Len(SubSeq(u, 1, n)) = n
        /\ \A i \in 1..n : SubSeq(u, 1, n)[i] = u[i]
    <3>1. /\ SubSeq(u, 1, n) \in Seq(Messages) /\ Len(SubSeq(u, 1, n)) = IF 1 <= n THEN n - 1 + 1 ELSE 0
          /\ \A i \in 1..(n - 1 + 1) : SubSeq(u, 1, n)[i] = u[1 + i - 1]
      BY <2>3, SubSeqProperties
    <3>2. n - 1 + 1 = n /\ (IF 1 <= n THEN n - 1 + 1 ELSE 0) = n /\ \A i \in 1..n : 1 + i - 1 = i
      BY <2>3
    <3> QED
      BY <3>1, <3>2
  <2>5. DOMAIN SubSeq(u, 1, n) = 1..n
    BY <2>4, LenProperties
  <2>6. ToSet(SubSeq(u, 1, n)) \subseteq ToSet(u)
    BY <2>2, <2>3, <2>4, <2>5 DEF ToSet
  <2> QED
    BY <2>6 DEF u
<1> HIDE DEF ids
<1>7. /\ Promised!IsPrefix(old, ids) \/ Promised!IsPrefix(ids, old)
      /\ IsInjective(view[p]) /\ IsInjective(old) => IsInjective(ids)
      /\ ToSet(ids) \subseteq Ids(disk[p]) \cup ToSet(view[p])
  BY <1>2, <1>5, <1>6
<1> QED
  BY <1>3, <1>7 DEF old
\* Then there is nothing in it.
LEMMA StillEmpty ==
  ASSUME TypeOK, PostedInv, NothingYet, ~known, NEW p \in Processes
  PROVE  file.lines = <<>> /\ disk[p] = <<>>
<1>1. \A m \in Messages : m[1] \in Processes /\ m[2] \in 1..MaxPosts
  BY DEF Messages
<1>2. Posted = {}
  BY <1>1, PostsAssumption DEF Posted, NothingYet
<1>3. ASSUME NEW l \in Seq(Lines), Ids(l) \subseteq Posted PROVE l = <<>>
  <2>1. DOMAIN l = 1..Len(l) /\ Len(l) \in Nat
    BY LenProperties
  <2>2. DOMAIN l = {}
    BY <1>2, <1>3 DEF Ids
  <2>3. Len(l) = 0
    BY <2>1, <2>2
  <2> QED
    BY <2>3, EmptySeq
<1> QED
  BY <1>3 DEF TypeOK, PostedInv

\* Only a post makes messages; a write puts some in the file that its process holds.
LEMMA Written ==
  ASSUME TypeOK, NEW p \in alive, AppendLines(p) \/ Fill(p) \/ Crash(p)
  PROVE  Ids(file'.lines) \subseteq Ids(file.lines) \cup Ids(disk[p]) \cup ToSet(view[p])
<1>1. p \in Processes /\ file \in Files /\ file.lines \in Seq(Lines) /\ Ids(<<>>) = {}
  BY DEF TypeOK, Files, Ids
<1>2. \A l \in Seq(Lines) : ToSet(IdSeq(l)) = Ids(l)
  BY IdSeqOfLines
<1>3. CASE UNCHANGED file
  BY <1>3
<1>4. CASE AppendLines(p)
  <2> DEFINE new == Numbered(NewMessages(p), Len(disk[p]))
  <2>1. new \in Seq(Lines) /\ Ids(new) \subseteq ToSet(view[p])
    BY <1>1, NewOnes, NumberedLines, LenProperties DEF TypeOK
  <2>2. Ids(file.lines \o new) = Ids(file.lines) \cup Ids(new)
    <3> HIDE DEF new
    <3>1. Range(file.lines \o new) = Range(file.lines) \cup Range(new)
      BY <1>1, <2>1, RangeConcatenation
    <3>2. \A t : Ids(t) = {x.id : x \in Range(t)}
      BY DEF Ids, Range
    <3> QED
      BY <3>1, <3>2
  <2>3. file'.lines = <<>> \/ file'.lines = file.lines \/ file'.lines = file.lines \o new
    BY <1>4, AppendFile
  <2> HIDE DEF new
  <2> QED
    BY <1>1, <2>1, <2>2, <2>3
<1>5. CASE Fill(p) /\ p \in file.opened
  <2>1. file'.lines = WholeRoom(p) /\ WholeRoom(p) \in Seq(Lines)
    BY <1>1, <1>5, WholeRoomLines DEF Fill
  <2> QED
    BY <1>1, <1>2, <2>1, WholeIds
<1>6. ASSUME NEW n \in 0..Len(WholeRoom(p)),
             file' = [file EXCEPT !.is = "room", !.lines = SubSeq(WholeRoom(p), 1, n), !.tail = "torn"]
      PROVE  Ids(file'.lines) \subseteq Ids(disk[p]) \cup ToSet(view[p])
  <2>1. ToSet(IdSeq(SubSeq(WholeRoom(p), 1, n))) \subseteq Ids(disk[p]) \cup ToSet(view[p])
    BY <1>1, CutRoom
  <2>2. \A l : ToSet(IdSeq(l)) = Ids(l)
    BY DEF ToSet, IdSeq, Ids
  <2>3. file'.lines = SubSeq(WholeRoom(p), 1, n)
    BY <1>1, <1>6 DEF Files
  <2> QED
    BY <2>1, <2>2, <2>3
<1>7. CASE file' = [file EXCEPT !.tail = "torn"]
  BY <1>1, <1>7 DEF Files
<1> QED
  BY <1>3, <1>4, <1>5, <1>6, <1>7 DEF Fill, Crash

\* Nothing is in a file, or held by a process, that was not posted.
LEMMA PostedStep == TypeOK /\ PostedInv /\ NothingYet /\ [Next]_vars => PostedInv' /\ NothingYet'
<1> SUFFICES ASSUME TypeOK, PostedInv, NothingYet, [Next]_vars PROVE PostedInv' /\ NothingYet'
  OBVIOUS
<1>1. \A m \in Messages : m[1] \in Processes /\ m[2] \in 1..MaxPosts
  BY DEF Messages
<1>2. ASSUME NEW p \in alive, Post(p) PROVE PostedInv' /\ NothingYet'
  <2> DEFINE m == <<p, posts[p] + 1>>
  <2>1. /\ p \in Processes /\ known /\ known' = known /\ UNCHANGED <<file, disk>>
        /\ posts[p] \in Nat /\ posts[p] < MaxPosts /\ posts' = [posts EXCEPT ![p] = posts[p] + 1]
        /\ view' = [view EXCEPT ![p] = Append(IdSeq(file.lines), m)]
        /\ posts \in [Processes -> 0..MaxPosts]
    BY <1>2, PostsAssumption DEF Post, TypeOK, fileVars
  <2>2. m \in Messages
    BY <2>1, PostsAssumption DEF Messages
  <2>3. Posted \subseteq Posted' /\ m \in Posted'
    BY <1>1, <2>1, <2>2, PostsAssumption DEF Posted
  <2>4. ToSet(Append(IdSeq(file.lines), m)) = Ids(file.lines) \cup {m}
    <3>1. IdSeq(file.lines) \in Seq(Messages) /\ ToSet(IdSeq(file.lines)) = Ids(file.lines)
      BY IdSeqOfLines DEF TypeOK
    <3> HIDE DEF m
    <3> QED
      BY <2>2, <3>1, Appended
  <2> HIDE DEF m
  <2>5. \A q \in Processes : ToSet(view'[q]) \subseteq Posted'
    BY <2>1, <2>3, <2>4 DEF PostedInv, TypeOK
  <2> QED
    BY <2>1, <2>3, <2>5 DEF PostedInv, NothingYet
<1>3. ASSUME UNCHANGED <<posts, view>>, known => known',
             \/ /\ UNCHANGED disk
                /\ \/ UNCHANGED file \/ file'.lines = <<>>
                   \/ \E p \in alive : AppendLines(p) \/ Fill(p) \/ Crash(p)
             \/ \E p \in alive : UNCHANGED file /\ disk' = [disk EXCEPT ![p] = file.lines]
      PROVE  PostedInv' /\ NothingYet'
  <2>1. Posted' = Posted
    BY <1>3 DEF Posted
  <2>2. Ids(file'.lines) \subseteq Posted
    <3>1. CASE file'.lines = <<>>
      BY <3>1 DEF Ids
    <3>2. ASSUME NEW p \in alive, AppendLines(p) \/ Fill(p) \/ Crash(p)
          PROVE  Ids(file'.lines) \subseteq Posted
      BY <3>2, Written DEF PostedInv, TypeOK
    <3> QED
      BY <1>3, <3>1, <3>2 DEF PostedInv
  <2>3. \A q \in Processes : Ids(disk'[q]) \subseteq Posted
    BY <1>3 DEF PostedInv, TypeOK
  <2> QED
    BY <1>3, <2>1, <2>2, <2>3 DEF PostedInv, NothingYet
<1>4. ASSUME NEW p \in alive, ReadDisk(p) PROVE PostedInv' /\ NothingYet'
  BY <1>3, <1>4 DEF ReadDisk, roomVars
<1>5. ASSUME NEW p \in alive, AppendLines(p) \/ Fill(p) \/ Crash(p) PROVE PostedInv' /\ NothingYet'
  BY <1>3, <1>5 DEF AppendLines, Fill, Crash, roomVars
<1>6. ASSUME NEW p \in alive, CreateFile(p) \/ Truncate(p) \/ EvictUnlink(p)
      PROVE  PostedInv' /\ NothingYet'
  <2>1. UNCHANGED <<posts, view, known, disk>>
    BY <1>6 DEF CreateFile, Truncate, EvictUnlink, roomVars
  <2>2. CASE CreateFile(p) \/ Truncate(p)
    <3>1. file'.lines = <<>>
      BY <2>2 DEF CreateFile, Truncate, Absent
    <3> QED
      BY <1>3, <2>1, <3>1
  <2>3. CASE EvictUnlink(p)
    <3>1. file'.lines = <<>>
      BY <2>3 DEF EvictUnlink, Absent
    <3> QED
      BY <1>3, <2>1, <3>1
  <2> QED
    BY <1>6, <2>2, <2>3
<1>7. ASSUME UNCHANGED <<posts, view, file, disk>>, known => known' PROVE PostedInv' /\ NothingYet'
  BY <1>3, <1>7
<1>8. CASE LockAges \/ Expire \/ UNCHANGED vars
  BY <1>7, <1>8 DEF LockAges, Expire, vars, fileVars, roomVars
<1>9. ASSUME NEW p \in alive,
             \/ TryLock(p) \/ StampLock(p) \/ Look(p) \/ StealStaleLock(p) \/ GiveUp(p)
             \/ ReleaseLock(p) \/ UnlinkLock(p) \/ Create(p) \/ Evict(p) \/ CheckTail(p)
      PROVE  PostedInv' /\ NothingYet'
  BY <1>7, <1>9 DEF TryLock, StampLock, Look, StealStaleLock, GiveUp, ReleaseLock, UnlinkLock, Create,
         Evict, CheckTail, fileVars, roomVars
<1> QED
  BY <1>2, <1>4, <1>5, <1>6, <1>8, <1>9 DEF Next, Step

\* Steps that leave file, disks and views alone, and bring nobody to where the file is written.
LEMMA LogMoves ==
  ASSUME LogInv, UNCHANGED <<file, disk, view>>, robbed => robbed', purged => purged',
         alive' \subseteq alive,
         \A q \in alive' : pc'[q] \in {"append", "truncate", "fill"} => pc'[q] = pc[q]
  PROVE  LogInv'
<1> SUFFICES ASSUME ~robbed', ~purged' PROVE LogInv'
  BY DEF LogInv
<1> QED
  BY DEF LogInv

\* What the writer of a file leaves in it, and what it will find there.
LEMMA LogFile ==
  ASSUME TypeOK, LockInv, Numbering, LogInv, NEW p \in alive,
         CreateFile(p) \/ ReadDisk(p) \/ CheckTail(p) \/ AppendLines(p) \/ Truncate(p) \/ Fill(p)
  PROVE  LogInv'
<1>1. /\ p \in Processes /\ alive \subseteq Processes /\ UNCHANGED <<view, purged, alive, robbed>>
      /\ file \in Files /\ Holding(p)
  BY DEF CreateFile, ReadDisk, CheckTail, AppendLines, Truncate, Fill, TypeOK, Files, Holding, lockVars,
         fileVars, roomVars
<1> SUFFICES ASSUME ~robbed, ~purged PROVE LogInv'
  BY <1>1 DEF LogInv
<1>2. PICK l : Goto(p, l)
  BY DEF CreateFile, ReadDisk, CheckTail, AppendLines, Truncate, Fill
<1>3. pc'[p] = l /\ \A q \in alive : q # p => pc'[q] = pc[q]
  BY <1>1, <1>2 DEF Goto, TypeOK
<1>4. \A q \in alive : q # p => pc'[q] \notin {"append", "truncate", "fill"}
  BY <1>1, <1>3, Alone DEF Holding
<1>5. IsInjective(IdSeq(<<>>))
  BY DEF IsInjective, IdSeq
<1>6. CASE CreateFile(p) \/ Truncate(p)
  <2>1. UNCHANGED disk /\ pc'[p] = "fill"
    BY <1>1, <1>6 DEF CreateFile, Truncate, Goto, TypeOK
  <2>2. file'.is = "empty" /\ file'.lines = <<>> /\ file'.tail = "clean"
    BY <1>6 DEF CreateFile, Truncate, Absent
  <2> QED
    BY <1>1, <1>4, <1>5, <2>1, <2>2 DEF LogInv
<1>7. CASE ReadDisk(p)
  <2>1. UNCHANGED file /\ disk' = [disk EXCEPT ![p] = file.lines]
    BY <1>7 DEF ReadDisk
  <2>2. pc'[p] \notin {"append", "fill"} /\ (pc'[p] = "truncate" => file.is = "absent")
    BY <1>1, <1>7 DEF ReadDisk, Goto, TypeOK
  <2>3. \A q \in alive : IsInjective(IdSeq(disk'[q]))
    BY <1>1, <2>1 DEF LogInv, TypeOK
  <2> QED
    BY <1>1, <1>4, <2>1, <2>2, <2>3 DEF LogInv
<1>8. CASE CheckTail(p)
  <2>1. UNCHANGED <<file, disk>> /\ pc[p] = "tail"
    BY <1>8 DEF CheckTail, fileVars
  <2>2. pc'[p] # "fill" /\ (pc'[p] = "append" => file.tail # "torn")
    BY <1>1, <1>8 DEF CheckTail, Goto, TypeOK, TornTail
  <2>3. file.is = "room" => disk[p] = file.lines
    BY <2>1 DEF Numbering
  <2>4. file.tail # "torn" => file.tail = "clean"
    BY <1>1 DEF LogInv, Files
  <2> QED
    BY <1>1, <1>4, <2>1, <2>2, <2>3, <2>4 DEF LogInv
<1>9. CASE AppendLines(p)
  <2>1. UNCHANGED disk /\ pc[p] = "append" /\ pc'[p] = "release"
    BY <1>1, <1>9 DEF AppendLines, Goto, TypeOK
  <2>2. file.is = "room" => file.tail = "clean" /\ disk[p] = file.lines
    BY <2>1 DEF LogInv, Numbering
  <2>3. CASE file'.is = "junk" /\ file'.lines = <<>>
    <3>1. file'.tail # "glued"
      <4>1. file.is # "room" \/ file.tail = "clean"
        BY <2>2
      <4>2. file' = [file EXCEPT !.is = "junk", !.lines = <<>>, !.tail = "clean"]
            \/ (file.tail = "clean" /\ file'.tail = "clean")
        BY <1>1, <1>9, <4>1, <2>3 DEF AppendLines, Files
      <4> QED
        BY <4>2, <1>1 DEF Files
    <3> QED
      BY <1>1, <1>4, <1>5, <2>1, <2>3, <3>1 DEF LogInv
  <2>4. CASE /\ file.is = "room" /\ file'.is = "room" /\ file'.tail = "clean"
             /\ file'.lines = file.lines \o Numbered(NewMessages(p), Len(disk[p]))
    <3>1. /\ NewMessages(p) \in Seq(Messages) /\ Len(disk[p]) \in Nat /\ file.lines \in Seq(Lines)
          /\ IsInjective(NewMessages(p)) /\ ToSet(NewMessages(p)) \cap Ids(file.lines) = {}
      BY <1>1, <2>2, <2>4, NewOnes, LenProperties DEF TypeOK, LogInv
    <3>2. IdSeq(file'.lines) = IdSeq(file.lines) \o NewMessages(p)
      BY <2>4, <3>1, IdSeqs
    <3>3. /\ IdSeq(file.lines) \in Seq(Messages) /\ ToSet(IdSeq(file.lines)) = Ids(file.lines)
          /\ IsInjective(IdSeq(file.lines))
      BY <3>1, IdSeqOfLines DEF LogInv
    <3>4. IsInjective(IdSeq(file'.lines))
      BY <3>1, <3>2, <3>3, Joined
    <3> QED
      BY <1>1, <1>4, <2>1, <2>4, <3>4 DEF LogInv
  <2> QED
    BY <1>9, <2>2, <2>3, <2>4, AppendFile
<1>10. CASE Fill(p)
  <2>1. UNCHANGED disk /\ pc'[p] = "release"
    BY <1>1, <1>10 DEF Fill, Goto, TypeOK
  <2>2. CASE p \notin file.opened
    BY <1>1, <1>4, <1>10, <2>1, <2>2 DEF Fill, LogInv
  <2>3. CASE p \in file.opened
    <3>1. file'.is = "room" /\ file'.tail = "clean" /\ file'.lines = WholeRoom(p)
      BY <1>10, <2>3 DEF Fill
    <3>2. IsInjective(IdSeq(WholeRoom(p)))
      BY <1>1, WholeIds DEF LogInv
    <3> QED
      BY <1>1, <1>4, <2>1, <3>1, <3>2 DEF LogInv
  <2> QED
    BY <2>2, <2>3
<1> QED
  BY <1>6, <1>7, <1>8, <1>9, <1>10

\* A post is of a room it has read, a message more that nobody has yet.
LEMMA LogPost ==
  ASSUME TypeOK, PostedInv, LogInv, NEW p \in alive, Post(p)
  PROVE  LogInv'
<1> DEFINE m == <<p, posts[p] + 1>>
<1>1. /\ p \in Processes /\ alive \subseteq Processes
      /\ UNCHANGED <<file, disk, alive, robbed, purged>> /\ pc' = [pc EXCEPT ![p] = "acquire"]
      /\ posts[p] \in Nat /\ posts[p] < MaxPosts
      /\ view' = [view EXCEPT ![p] = Append(IdSeq(file.lines), m)]
  BY PostsAssumption DEF Post, Goto, TypeOK, fileVars, lockVars
<1>2. m \in Messages
  BY <1>1, PostsAssumption DEF Messages
<1>3. m \notin Ids(file.lines)
  BY <1>1 DEF PostedInv, Posted
<1>4. IdSeq(file.lines) \in Seq(Messages) /\ ToSet(IdSeq(file.lines)) = Ids(file.lines)
  BY IdSeqOfLines DEF TypeOK
<1> HIDE DEF m
<1>5. IsInjective(IdSeq(file.lines)) => IsInjective(Append(IdSeq(file.lines), m))
  BY <1>2, <1>3, <1>4, Appended
<1> SUFFICES ASSUME ~robbed, ~purged PROVE LogInv'
  BY <1>1 DEF LogInv
<1>6. \A q \in alive : IsInjective(view'[q])
  BY <1>1, <1>5 DEF LogInv, TypeOK
<1>7. pc'[p] = "acquire" /\ \A q \in alive : q # p => pc'[q] = pc[q]
  BY <1>1 DEF TypeOK
<1> QED
  BY <1>1, <1>6, <1>7 DEF LogInv

\* A death in the middle of a write leaves a beginning of the room.
LEMMA LogCrash ==
  ASSUME TypeOK, LockInv, LogInv, NEW p \in alive, Crash(p)
  PROVE  LogInv'
<1>1. /\ p \in Processes /\ alive \subseteq Processes /\ alive' = alive \ {p} /\ file \in Files
      /\ UNCHANGED <<pc, disk, view, robbed, purged>>
  BY DEF Crash, TypeOK, Files, lockVars, roomVars
<1> SUFFICES ASSUME ~robbed, ~purged PROVE LogInv'
  BY <1>1 DEF LogInv
<1>2. CASE UNCHANGED file
  BY <1>1, <1>2, LogMoves
<1>3. Holding(p) => \A q \in alive' : pc[q] \notin {"append", "truncate", "fill"}
  BY <1>1, Alone DEF Holding
<1>4. CASE pc[p] = "append" /\ file' = [file EXCEPT !.tail = "torn"]
  <2>1. file'.is = file.is /\ file'.lines = file.lines /\ file'.tail = "torn"
    BY <1>1, <1>4 DEF Files
  <2> QED
    BY <1>1, <1>3, <1>4, <2>1 DEF LogInv, Holding
<1>5. ASSUME pc[p] = "fill", NEW n \in 0..Len(WholeRoom(p)),
             file' = [file EXCEPT !.is = "room", !.lines = SubSeq(WholeRoom(p), 1, n), !.tail = "torn"]
      PROVE  LogInv'
  <2>1. file'.is = "room" /\ file'.lines = SubSeq(WholeRoom(p), 1, n) /\ file'.tail = "torn"
    BY <1>1, <1>5 DEF Files
  <2>2. IsInjective(IdSeq(SubSeq(WholeRoom(p), 1, n)))
    BY <1>1, CutRoom DEF LogInv
  <2> QED
    BY <1>1, <1>3, <1>5, <2>1, <2>2 DEF LogInv, Holding
<1> QED
  BY <1>2, <1>4, <1>5 DEF Crash

\* Every step keeps it.
LEMMA LogStep ==
  TypeOK /\ LockInv /\ Numbering /\ PostedInv /\ LogInv /\ [Next]_vars => LogInv'
<1> SUFFICES ASSUME TypeOK, LockInv, Numbering, PostedInv, LogInv, [Next]_vars PROVE LogInv'
  OBVIOUS
<1>1. ASSUME NEW p \in alive, Step(p) \/ GiveUp(p) \/ Create(p) \/ Post(p) \/ Evict(p)
      PROVE  LogInv'
  <2>1. CASE \/ CreateFile(p) \/ ReadDisk(p) \/ CheckTail(p) \/ AppendLines(p) \/ Truncate(p)
             \/ Fill(p)
    BY <2>1, LogFile
  <2>2. CASE Post(p)
    BY <2>2, LogPost
  <2>3. CASE EvictUnlink(p)
    <3>1. /\ file' = Absent /\ UNCHANGED <<disk, view, alive, robbed>> /\ (purged => purged')
          /\ pc' = [pc EXCEPT ![p] = "idle"]
      BY <2>3 DEF EvictUnlink, Goto, lockVars, roomVars
    <3>2. \A q \in alive : pc'[q] = pc[q] \/ pc'[q] = "idle"
      BY <3>1 DEF TypeOK
    <3>3. /\ file'.is = "absent" /\ file'.lines = <<>> /\ file'.tail = "clean" /\ file'.opened = {}
          /\ IsInjective(IdSeq(<<>>))
      BY <3>1 DEF Absent, IsInjective, IdSeq
    <3> QED
      BY <3>1, <3>2, <3>3 DEF LogInv
  <2>4. CASE \/ TryLock(p) \/ StampLock(p) \/ Look(p) \/ StealStaleLock(p) \/ GiveUp(p)
             \/ ReleaseLock(p) \/ UnlinkLock(p) \/ Create(p) \/ Evict(p)
    <3>1. UNCHANGED view
      BY <2>4 DEF TryLock, StampLock, Look, StealStaleLock, GiveUp, ReleaseLock, UnlinkLock, Create,
             Evict, roomVars
    <3>2. \A q \in alive : q \in Processes
      BY DEF TypeOK
    <3> QED
      BY <2>4, <3>1, <3>2, LockMoves, LogMoves
  <2> QED
    BY <1>1, <2>1, <2>2, <2>3, <2>4 DEF Step
<1>2. ASSUME NEW p \in alive, Crash(p) PROVE LogInv'
  BY <1>2, LogCrash
<1>3. CASE LockAges \/ Expire \/ UNCHANGED vars
  BY <1>3, LogMoves DEF LockAges, Expire, vars, fileVars, lockVars, roomVars
<1> QED
  BY <1>1, <1>2, <1>3 DEF Next

\* With one rewriter at most, the room holds what that one has read, or what is in the file.
LEMMA LogBy ==
  \A p : Rewriters \subseteq {p} =>
           Log = IF p \in Rewriters THEN IdSeq(disk[p]) ELSE IdSeq(file.lines)
<1> TAKE p
<1> HAVE Rewriters \subseteq {p}
<1>1. CASE p \in Rewriters
  <2>1. Rewriters = {p}
    BY <1>1
  <2> HIDE DEF Rewriters
  <2>2. (CHOOSE q \in Rewriters : TRUE) = p
    BY <2>1
  <2> QED
    BY <1>1, <2>2 DEF Log
<1>2. CASE p \notin Rewriters
  <2>1. Rewriters = {}
    BY <1>2
  <2> QED
    BY <1>2, <2>1 DEF Log
<1> QED
  BY <1>1, <1>2

\* What it holds it holds once.
LEMMA LogIsOne ==
  TypeOK /\ LogInv /\ ~robbed /\ ~purged => Log \in Seq(Messages) /\ IsInjective(Log)
<1> SUFFICES ASSUME TypeOK, LogInv, ~robbed, ~purged PROVE Log \in Seq(Messages) /\ IsInjective(Log)
  OBVIOUS
<1>1. CASE Rewriters = {}
  <2>1. file.lines \in Seq(Lines) /\ IsInjective(IdSeq(file.lines))
    BY DEF TypeOK, LogInv
  <2> QED
    BY <1>1, <2>1, IdSeqOfLines DEF Log
<1>2. CASE Rewriters # {}
  <2> DEFINE q == CHOOSE p \in Rewriters : TRUE
  <2>1. q \in Rewriters
    BY <1>2
  <2>2. q \in alive /\ q \in Processes
    BY <2>1 DEF Rewriters, TypeOK
  <2>3. Log = IdSeq(disk[q])
    BY <1>2 DEF Log
  <2> HIDE DEF q
  <2>4. disk[q] \in Seq(Lines) /\ IsInjective(IdSeq(disk[q]))
    BY <2>2 DEF TypeOK, LogInv
  <2> QED
    BY <2>3, <2>4, IdSeqOfLines
<1> QED
  BY <1>1, <1>2

\* Nothing happens to the room while nobody writes its file anew, or whoever does goes on with it.
LEMMA LogStays ==
  ASSUME UNCHANGED <<file, disk>>, Rewriters' = Rewriters
  PROVE  Log' = Log
BY DEF Log

\* The holder of the lock, and it alone, may be the one who writes the file anew.
LEMMA OneRewriter ==
  ASSUME TypeOK, LockInv, ~robbed, NEW p \in alive, Holding(p)
  PROVE  Rewriters \subseteq {p}
BY Alone DEF Rewriters, Holding, TypeOK

\* The steps on the file make the log longer, or leave it.
LEMMA LogGrows ==
  ASSUME TypeOK, LockInv, Numbering, HistoryInv, ~robbed, ~purged, NEW p \in alive,
         CreateFile(p) \/ ReadDisk(p) \/ CheckTail(p) \/ AppendLines(p) \/ Truncate(p) \/ Fill(p)
  PROVE  Promised!IsPrefix(Log, Log')
<1>1. /\ p \in Processes /\ alive \subseteq Processes /\ UNCHANGED <<alive, robbed>>
      /\ file \in Files /\ Holding(p)
  BY DEF CreateFile, ReadDisk, CheckTail, AppendLines, Truncate, Fill, TypeOK, Files, Holding, lockVars
<1>2. PICK l : Goto(p, l)
  BY DEF CreateFile, ReadDisk, CheckTail, AppendLines, Truncate, Fill
<1>3. pc'[p] = l /\ \A q \in alive : q # p => pc'[q] = pc[q]
  BY <1>1, <1>2 DEF Goto, TypeOK
<1>4. Rewriters \subseteq {p} /\ Rewriters' \subseteq {p}
  <2>1. \A q \in alive : q # p => pc'[q] # "fill"
    BY <1>1, <1>3, Alone DEF Holding
  <2> QED
    BY <1>1, <2>1, OneRewriter DEF Rewriters
<1>5. ASSUME NEW S, S \subseteq {p} PROVE IF p \in S THEN (CHOOSE q \in S : TRUE) = p ELSE S = {}
  BY <1>5
<1>6. /\ Log = IF p \in Rewriters THEN IdSeq(disk[p]) ELSE IdSeq(file.lines)
      /\ Log' = IF p \in Rewriters' THEN IdSeq(disk'[p]) ELSE IdSeq(file'.lines)
  <2>1. /\ IF p \in Rewriters THEN (CHOOSE q \in Rewriters : TRUE) = p ELSE Rewriters = {}
        /\ IF p \in Rewriters' THEN (CHOOSE q \in Rewriters' : TRUE) = p ELSE Rewriters' = {}
    BY <1>4, <1>5
  <2> QED
    BY <2>1 DEF Log, IdSeq
<1>7. /\ p \in Rewriters <=> p \in file.opened /\ pc[p] = "fill"
      /\ p \in Rewriters' => p \in file'.opened /\ pc'[p] = "fill" /\ file'.is = "empty"
      /\ p \in file'.opened /\ pc'[p] = "fill" /\ file'.is = "empty" => p \in Rewriters'
  BY <1>1 DEF Rewriters, HistoryInv, LogInv
<1>8. /\ Log \in Seq(Messages) /\ IdSeq(disk[p]) \in Seq(Messages) /\ NewMessages(p) \in Seq(Messages)
      /\ file.lines \in Seq(Lines) /\ Len(disk[p]) \in Nat /\ IdSeq(<<>>) = <<>>
  <2>1. disk[p] \in Seq(Lines) /\ file.lines \in Seq(Lines) /\ Len(disk[p]) \in Nat
    BY <1>1, LenProperties DEF TypeOK
  <2> QED
    BY <1>1, <2>1, LogIsOne, IdSeqOfLines, NewOnes DEF HistoryInv, IdSeq
<1>9. CASE ReadDisk(p) \/ CheckTail(p)
  <2>1. pc[p] # "fill" /\ pc'[p] # "fill" /\ UNCHANGED file
    BY <1>1, <1>9 DEF ReadDisk, CheckTail, Goto, TypeOK, fileVars
  <2>2. Log' = Log
    BY <1>6, <1>7, <2>1
  <2> QED
    BY <1>8, <2>2, PrefixFacts
<1>10. CASE CreateFile(p) \/ Truncate(p)
  <2>1. pc[p] # "fill" /\ pc'[p] = "fill" /\ UNCHANGED disk
    BY <1>1, <1>10 DEF CreateFile, Truncate, Goto, TypeOK
  <2>4. p \in file'.opened /\ file'.is = "empty"
    BY <1>10 DEF CreateFile, Truncate, Absent
  <2>2. Log = IdSeq(file.lines) /\ Log' = IdSeq(disk[p])
    BY <1>6, <1>7, <2>1, <2>4
  <2>3. file.lines = <<>> \/ disk[p] = file.lines
    <3>1. CASE CreateFile(p)
      BY <1>1, <3>1, StillEmpty DEF CreateFile, Creating, HistoryInv
    <3>2. CASE Truncate(p)
      BY <3>2 DEF Truncate, HistoryInv, LogInv
    <3> QED
      BY <1>10, <3>1, <3>2
  <2> QED
    BY <1>8, <2>2, <2>3, PrefixFacts
<1>11. CASE AppendLines(p)
  <2>1. pc[p] = "append" /\ pc'[p] = "release"
    BY <1>1, <1>11 DEF AppendLines, Goto, TypeOK
  <2>2. Log = IdSeq(file.lines) /\ Log' = IdSeq(file'.lines)
    BY <1>6, <1>7, <2>1
  <2>3. file.is = "room" => file.tail = "clean"
    BY <2>1 DEF HistoryInv, LogInv
  <2>4. CASE file.is # "room"
    <3>1. file.lines = <<>> /\ file'.lines = <<>>
      BY <1>11, <2>4, AppendFile DEF HistoryInv, LogInv
    <3> QED
      BY <1>8, <2>2, <3>1, PrefixFacts
  <2>5. CASE file.is = "room"
    <3> DEFINE new == Numbered(NewMessages(p), Len(disk[p]))
    <3>1. file' = [file EXCEPT !.lines = file.lines \o new, !.tail = file.tail]
      BY <1>11, <2>3, <2>5 DEF AppendLines
    <3>2. file'.lines = file.lines \o new
      <4> HIDE DEF new
      <4> QED
        BY <1>1, <3>1 DEF Files
    <3>3. Log' = Log \o NewMessages(p)
      <4>1. IdSeq(file.lines \o new) = IdSeq(file.lines) \o NewMessages(p)
        BY <1>8, IdSeqs
      <4> HIDE DEF new
      <4> QED
        BY <2>2, <3>2, <4>1
    <3> QED
      BY <1>8, <3>3, PrefixFacts
  <2> QED
    BY <2>4, <2>5
<1>12. CASE Fill(p)
  <2>1. pc[p] = "fill" /\ pc'[p] = "release"
    BY <1>1, <1>12 DEF Fill, Goto, TypeOK
  <2>2. CASE p \notin file.opened
    <3>1. Log' = Log
      BY <1>6, <1>7, <1>12, <2>1, <2>2 DEF Fill
    <3> QED
      BY <1>8, <3>1, PrefixFacts
  <2>3. CASE p \in file.opened
    <3>1. file'.lines = WholeRoom(p)
      BY <1>12, <2>3 DEF Fill
    <3>2. Log = IdSeq(disk[p]) /\ Log' = IdSeq(WholeRoom(p))
      BY <1>6, <1>7, <2>1, <2>3, <3>1
    <3>3. Log' = Log \o NewMessages(p)
      BY <1>1, <3>2, WholeIds
    <3> QED
      BY <1>8, <3>3, PrefixFacts
  <2> QED
    BY <2>2, <2>3
<1> QED
  BY <1>9, <1>10, <1>11, <1>12

\* A death leaves the log, cuts it or adds to it.
LEMMA LogAtDeath ==
  ASSUME TypeOK, LockInv, HistoryInv, ~robbed, ~purged, NEW p \in alive, Crash(p)
  PROVE  Promised!IsPrefix(Log, Log') \/ Promised!IsPrefix(Log', Log)
<1>1. /\ p \in Processes /\ alive \subseteq Processes /\ alive' = alive \ {p} /\ file \in Files
      /\ UNCHANGED <<pc, disk, robbed, purged>>
  BY DEF Crash, TypeOK, Files, lockVars, roomVars
<1>2. Log \in Seq(Messages) /\ IdSeq(<<>>) = <<>> /\ <<>> \in Seq(Messages)
  BY LogIsOne DEF HistoryInv, IdSeq
<1>3. CASE UNCHANGED file /\ p \notin Rewriters
  <2>1. Rewriters' = Rewriters
    BY <1>1, <1>3 DEF Rewriters
  <2>2. Log' = Log
    BY <1>1, <1>3, <2>1, LogStays
  <2> QED
    BY <1>2, <2>2, PrefixFacts
<1>4. CASE p \in file.opened /\ pc[p] = "fill"
  <2>1. Holding(p) /\ file.is = "empty" /\ file.lines = <<>> /\ p \in Rewriters
    BY <1>4 DEF HistoryInv, LogInv, Holding, Rewriters
  <2>2. Rewriters \subseteq {p} /\ Rewriters' = {}
    <3>1. \A q \in alive' : pc'[q] # "fill"
      BY <1>1, <2>1, Alone DEF Holding
    <3> QED
      BY <2>1, <3>1, OneRewriter DEF Rewriters
  <2>3. Log = IdSeq(disk[p])
    BY <2>1, <2>2, LogBy
  <2>4. Log' = IdSeq(file'.lines)
    BY <2>2 DEF Log, IdSeq
  <2>5. CASE UNCHANGED file
    <3>1. Log' = <<>>
      BY <1>2, <2>1, <2>4, <2>5
    <3> QED
      BY <1>2, <3>1, PrefixFacts
  <2>6. ASSUME NEW n \in 0..Len(WholeRoom(p)),
               file' = [file EXCEPT !.is = "room", !.lines = SubSeq(WholeRoom(p), 1, n), !.tail = "torn"]
        PROVE  Promised!IsPrefix(Log, Log') \/ Promised!IsPrefix(Log', Log)
    <3>1. file'.lines = SubSeq(WholeRoom(p), 1, n)
      BY <1>1, <2>6 DEF Files
    <3>2. LET ids == IdSeq(SubSeq(WholeRoom(p), 1, n))
          IN  Promised!IsPrefix(IdSeq(disk[p]), ids) \/ Promised!IsPrefix(ids, IdSeq(disk[p]))
      BY <1>1, CutRoom
    <3> QED
      BY <2>3, <2>4, <3>1, <3>2
  <2> QED
    BY <1>4, <2>5, <2>6 DEF Crash
<1>5. CASE pc[p] = "append" /\ file.is = "room" /\ file' = [file EXCEPT !.tail = "torn"]
  <2>1. file'.is = file.is /\ file'.lines = file.lines
    BY <1>1, <1>5 DEF Files
  <2>2. Rewriters = {} /\ Rewriters' = {}
    BY <1>5, <2>1 DEF Rewriters
  <2>3. Log' = Log
    BY <2>1, <2>2 DEF Log, IdSeq
  <2> QED
    BY <1>2, <2>3, PrefixFacts
<1>6. p \in Rewriters => p \in file.opened /\ pc[p] = "fill"
  BY DEF Rewriters
<1> QED
  BY <1>3, <1>4, <1>5, <1>6 DEF Crash

\* Every step of the store is a step of the log, or leaves it.
LEMMA LogRefines ==
  /\ TypeOK /\ LockInv /\ Numbering /\ HistoryInv /\ TypeOK' /\ LogInv' /\ [Next]_vars
  => [Promised!Next]_(Promised!vars)
<1> SUFFICES ASSUME TypeOK, LockInv, Numbering, HistoryInv, TypeOK', LogInv', [Next]_vars
             PROVE  [Promised!Next]_(Promised!vars)
  OBVIOUS
<1>1. robbed \in BOOLEAN /\ purged \in BOOLEAN /\ robbed' \in BOOLEAN /\ purged' \in BOOLEAN
  BY DEF TypeOK
<1>2. CASE robbed' \/ purged'
  <2>1. Promised!Break
    BY <1>1, <1>2 DEF Promised!Break
  <2> QED
    BY <2>1 DEF Promised!Next
<1> SUFFICES ASSUME ~robbed', ~purged' PROVE [Promised!Next]_(Promised!vars)
  BY <1>2
<1>3. Promised!IsInjective(Log')
  <2>1. TypeOK' /\ LogInv' /\ ~robbed' /\ ~purged' => (Log \in Seq(Messages) /\ IsInjective(Log))'
    BY LogIsOne, PTL
  <2> QED
    BY <2>1 DEF IsInjective, Promised!IsInjective
<1>4. ASSUME ~robbed, ~purged, UNCHANGED <<alive, expired>>, Promised!IsPrefix(Log, Log')
      PROVE  Promised!Next
  <2>1. Promised!Post
    BY <1>3, <1>4 DEF Promised!Post
  <2> QED
    BY <2>1 DEF Promised!Next
<1>5. ASSUME ~robbed, ~purged, UNCHANGED <<alive, expired, file, disk>>, Rewriters' = Rewriters
      PROVE  UNCHANGED Promised!vars
  <2>1. Log' = Log
    BY <1>5, LogStays
  <2> QED
    BY <1>5, <2>1 DEF Promised!vars
<1>6. ASSUME NEW p \in alive, Step(p) \/ GiveUp(p) \/ Create(p) \/ Post(p) \/ Evict(p)
      PROVE  [Promised!Next]_(Promised!vars)
  <2>1. CASE \/ CreateFile(p) \/ ReadDisk(p) \/ CheckTail(p) \/ AppendLines(p) \/ Truncate(p)
             \/ Fill(p)
    <3>1. UNCHANGED <<alive, robbed, purged, expired>>
      BY <2>1 DEF CreateFile, ReadDisk, CheckTail, AppendLines, Truncate, Fill, lockVars, fileVars,
             roomVars
    <3> QED
      BY <1>4, <2>1, <3>1, LogGrows
  <2>2. CASE \/ TryLock(p) \/ StampLock(p) \/ Look(p) \/ StealStaleLock(p) \/ GiveUp(p)
             \/ ReleaseLock(p) \/ UnlinkLock(p) \/ Create(p) \/ Post(p) \/ Evict(p)
    <3>1. /\ UNCHANGED <<file, disk, purged, alive, expired>> /\ (robbed => robbed')
          /\ pc[p] # "fill" /\ pc'[p] # "fill" /\ \A q \in Processes : q # p => pc'[q] = pc[q]
      BY <2>2, LockMoves
    <3>2. Rewriters' = Rewriters
      BY <3>1 DEF Rewriters, TypeOK
    <3> QED
      BY <1>5, <3>1, <3>2
  <2>3. CASE EvictUnlink(p)
    <3>1. /\ file' = Absent /\ UNCHANGED <<alive, disk, expired, robbed>> /\ pc[p] = "evict"
          /\ purged' = (purged \/ ~Evictable)
      BY <2>3 DEF EvictUnlink, lockVars, roomVars
    <3>2. Log' = <<>>
      <4>1. file'.lines = <<>> /\ file'.opened = {}
        BY <3>1 DEF Absent
      <4>2. Rewriters' = {}
        BY <4>1 DEF Rewriters
      <4> QED
        BY <4>1, <4>2 DEF Log, IdSeq
    <3>3. CASE expired
      <4>1. Promised!Vanish
        BY <3>1, <3>2, <3>3 DEF Promised!Vanish
      <4> QED
        BY <4>1 DEF Promised!Next
    <3>4. CASE ~expired
      <4>1. file.is # "room" /\ file.opened \cap alive = {} /\ ~robbed /\ ~purged
        BY <3>1, <3>4 DEF Evictable
      <4>2. Rewriters = {} /\ file.lines = <<>>
        BY <4>1 DEF Rewriters, HistoryInv, LogInv
      <4>3. Log = <<>>
        BY <4>2 DEF Log, IdSeq
      <4> QED
        BY <3>1, <3>2, <4>1, <4>3 DEF Promised!vars
    <3> QED
      BY <3>3, <3>4
  <2> QED
    BY <1>6, <2>1, <2>2, <2>3 DEF Step
<1>7. ASSUME NEW p \in alive, Crash(p) PROVE Promised!Next
  <2>1. alive' = alive \ {p} /\ UNCHANGED <<robbed, purged, expired>>
    BY <1>7 DEF Crash, lockVars, roomVars
  <2>2. Promised!Death
    BY <1>3, <1>7, <2>1, LogAtDeath DEF Promised!Death
  <2> QED
    BY <2>2 DEF Promised!Next
<1>8. CASE Expire
  <2>1. UNCHANGED <<alive, pc, file, disk, robbed, purged>> /\ expired' = TRUE
    BY <1>8 DEF Expire, lockVars, fileVars
  <2>2. Log' = Log
    BY <2>1, LogStays DEF Rewriters
  <2>3. Promised!TimeIsOver
    BY <2>1, <2>2 DEF Promised!TimeIsOver
  <2> QED
    BY <2>3 DEF Promised!Next
<1>9. CASE LockAges \/ UNCHANGED vars
  <2>1. UNCHANGED <<alive, pc, file, disk, robbed, purged, expired>>
    BY <1>9 DEF LockAges, vars, lockVars, fileVars, roomVars
  <2> QED
    BY <1>5, <2>1 DEF Rewriters
<1> QED
  BY <1>6, <1>7, <1>8, <1>9 DEF Next

\* Whatever processes share the room, however their calls interleave and wherever they die: as
\* long as nobody living was robbed of the lock or of the room, it is one log that grows at its
\* end, has every message once, is cut by nothing but a death and goes when its time is over.
THEOREM LogImplemented == Spec => LogSpec
<1>1. Init => PostedInv /\ NothingYet /\ LogInv /\ Numbering /\ Promised!Init
  <2> SUFFICES ASSUME Init PROVE PostedInv /\ NothingYet /\ LogInv /\ Numbering /\ Promised!Init
    OBVIOUS
  <2>1. file.lines = <<>> /\ file.is = "absent" /\ file.tail = "clean" /\ file.opened = {}
    BY DEF Init, Absent
  <2>2. Ids(<<>>) = {} /\ ToSet(<<>>) = {} /\ IdSeq(<<>>) = <<>> /\ IsInjective(<<>>)
    BY DEF Ids, ToSet, IdSeq, IsInjective
  <2>3. PostedInv /\ NothingYet
    BY <2>1, <2>2 DEF Init, PostedInv, NothingYet
  <2>4. LogInv
    BY <2>1, <2>2 DEF Init, LogInv
  <2>5. Numbering
    BY <2>1 DEF Init, Numbering, Room
  <2>6. Log = <<>>
    BY <2>1, <2>2 DEF Log, Rewriters
  <2> QED
    BY <2>3, <2>4, <2>5, <2>6 DEF Init, Promised!Init
<1>2. TypeOK /\ LockInv /\ Numbering /\ PostedInv /\ NothingYet /\ LogInv /\ TypeOK' /\ [Next]_vars
        => PostedInv' /\ NothingYet' /\ LogInv' /\ Numbering' /\ [Promised!Next]_(Promised!vars)
  BY PostedStep, LogStep, NumbersStep, LogRefines DEF HistoryInv
<1> QED
  BY <1>1, <1>2, TypesHold, HoldersOwnLock, PTL DEF Spec, LogSpec, Promised!Spec

-----------------------------------------------------------------------------
(* The way past a dead owner *)

\* While the lock of the dead q is there, a step of p that has asked for the lock takes it to the
\* look at the lock and from there to the steal, or gives up after a steal.
PastTheDead(p, q) ==
  \/ pc'[p] = pc[p]
  \/ pc[p] \in {"acquire", "retry"} /\ pc'[p] = "look"
  \/ pc[p] = "look" /\ pc'[p] = "steal"
  \/ pc[p] = "retry" /\ pc'[p] = "idle"

LEMMA DeadOwnerStep ==
  ASSUME TypeOK, [Next]_vars, NEW p \in Processes, NEW q \in Processes, q \notin alive, lock.by = q,
         lock'.by = q, pc[p] \in {"acquire", "retry", "look", "steal"}
  PROVE  PastTheDead(p, q)
<1>1. DOMAIN pc = Processes /\ q # Nobody /\ Free.by = Nobody
  BY ProcessesAssumption DEF TypeOK, Free
<1>2. ASSUME NEW r \in alive, Step(r) PROVE PastTheDead(p, q)
  <2>1. ASSUME NEW l, Goto(r, l), r # p PROVE PastTheDead(p, q)
    BY <1>1, <2>1 DEF Goto, PastTheDead
  <2>2. \E l : Goto(r, l)
    BY <1>2 DEF Step, TryLock, StampLock, Look, StealStaleLock, CreateFile, ReadDisk, CheckTail, AppendLines,
                Truncate, Fill, ReleaseLock, UnlinkLock, EvictUnlink
  <2>3. CASE r = p
    <3>1. TryLock(p) \/ Look(p) \/ StealStaleLock(p)
      BY <1>2, <2>3 DEF Step, StampLock, CreateFile, ReadDisk, CheckTail, AppendLines, Truncate, Fill,
                        ReleaseLock, UnlinkLock, EvictUnlink
    <3>2. ~StealStaleLock(p)
      BY <1>1 DEF StealStaleLock, RemoveLock
    <3>3. CASE TryLock(p)
      BY <1>1, <3>3 DEF TryLock, Goto, PastTheDead
    <3>4. CASE Look(p)
      BY <1>1, <3>4 DEF Look, IsLockStale, Goto, PastTheDead
    <3> QED
      BY <3>1, <3>2, <3>3, <3>4
  <2> QED
    BY <2>1, <2>2, <2>3
<1>3. ASSUME NEW r \in alive, GiveUp(r) \/ Create(r) \/ Post(r) \/ Evict(r) PROVE PastTheDead(p, q)
  BY <1>1, <1>3 DEF GiveUp, Create, Post, Evict, Goto, PastTheDead
<1>4. CASE UNCHANGED vars \/ LockAges \/ Expire \/ \E r \in alive : Crash(r)
  BY <1>4 DEF vars, LockAges, Expire, Crash, PastTheDead
<1> QED
  BY <1>2, <1>3, <1>4 DEF Next

\* The lock of a dead process does not wait for its age, and it does not come back: it stays until a
\* living one removes it, and one that has asked for the lock does that with its third step, since no
\* look at the lock of a dead process says that it is held (file-room-store.ts,
\* isLockStale).
THEOREM DeadOwnerPassed ==
  Spec => [][\A p, q \in Processes :
               /\ q \notin alive => (lock'.by = q => lock.by = q)
               /\ /\ q \notin alive /\ lock.by = q /\ lock'.by = q
                  /\ pc[p] \in {"acquire", "retry", "look", "steal"}
                  => PastTheDead(p, q)]_vars
<1>1. TypeOK /\ [Next]_vars =>
        [\A p, q \in Processes :
           /\ q \notin alive => (lock'.by = q => lock.by = q)
           /\ /\ q \notin alive /\ lock.by = q /\ lock'.by = q
              /\ pc[p] \in {"acquire", "retry", "look", "steal"}
              => PastTheDead(p, q)]_vars
  <2> SUFFICES ASSUME TypeOK, [Next]_vars, NEW q \in Processes, q \notin alive, lock'.by = q
               PROVE  lock.by = q
    BY DeadOwnerStep
  <2>1. q # Nobody /\ Free.by = Nobody
    BY ProcessesAssumption DEF Free
  <2>2. lock' = lock \/ lock' = Free \/ lock' = [lock EXCEPT !.written = TRUE] \/ lock' = [lock EXCEPT !.old = TRUE]
        \/ \E r \in alive : lock' = [Free EXCEPT !.by = r]
    BY DEF Next, vars, lockVars, Step, TryLock, StampLock, Look, StealStaleLock, CreateFile, ReadDisk, CheckTail,
           AppendLines, Truncate, Fill, ReleaseLock, UnlinkLock, EvictUnlink, RemoveLock, LockAges, Expire,
           GiveUp, Create, Post, Evict, Crash
  <2>3. \A r : [Free EXCEPT !.by = r].by = r
    BY DEF Free
  <2>4. [lock EXCEPT !.written = TRUE].by = lock.by /\ [lock EXCEPT !.old = TRUE].by = lock.by
    BY DEF TypeOK
  <2> QED
    BY <2>1, <2>2, <2>3, <2>4
<1> QED
  BY <1>1, TypesHold, PTL DEF Spec
=============================================================================
