# A verification project for aluy-cli

aluy-cli is an agent for the terminal: a language model proposes tool calls, the
program decides whether each may run, runs it and feeds the result back, until the
model gives a final answer. The main agent may spawn sub-agents that run beside it.
Everything happens in one Node process; concurrency is that of promises, so code
between two `await`s is atomic and everything else interleaves. The exceptions are
the rooms' files and the service's pid file, which several processes share.

## 1. Inventory

Paths are under `src/packages/`; `core` is `cli-core/src`, `cli` is `cli/src`.

| Part | State | Operations | With whom |
|---|---|---|---|
| Agent loop (`core/agent/loop.ts`) | history of the run, self-check candidate and counters, watchdog series, own usage | an iteration: gate, drain messages, compact, call the model, run its tool calls, probe or accept the final | budget, history, permission gate, hooks, watchdog, quota pause |
| Shared budget (`core/agent/shared-budget.ts`, `limits.ts`) | iterations, tool calls, tokens used; limits | reserve, add, peek, extend, reset | all loops of a tree, the session |
| History and compaction (`core/agent/context.ts`, `interrupted-history.ts`, `compact.ts`, `auto-compact.ts`) | the items of a conversation | append, close an interrupted turn, summarise the older part | loop, session |
| Sub-agents (`core/agent/subagent.ts`, `flow-tree.ts`) | children, their channels, signals, idle timers, the pool of slots | spawn, outcome, idle timeout, stop one/all, detach | loops, budget, session |
| Session turns (`cli/session/controller.ts`) | phase, queues of messages (live, pending, returnable), seed of the next turn, conversation so far, detached trees | submit, retry, interrupt, inject, budget gate, wake-up, delivery of detached results | everything |
| Quota pause (`core/agent/quota-pause.ts`, `core/model/quota-pause.ts`) | one episode (waiters, probe, next probe, deadline, snapshots), one timer, `stopped` | gate, handle, ok, park, abort, resume now, stop and save, timer | loops, session |
| Rooms (`core/agent/rooms`, `cli/session/rooms/file-room-store.ts`) | a file per room, a lock file per room | create, acquire, steal a stale lock, release, append, rewrite a torn file, evict | sub-agents, other processes |
| Monitors (`core/agent/monitor`) | armed triggers, a queue with one event per monitor | arm, fire, drain, evict | session, loop |
| Cycle engine (`core/agent/cycle`) | cycles run, stalls, ceilings, paused | run, pause, reconfigure, wake up | session, budget |
| Journal (`core/agent/journal`, `core/agent/checkpoint`, `cli/session/undo-controller.ts`) | entries, blobs on disk; cursor, redo stack; points | capture, retention, undo, redo, mark a point, rewind | file tools, owner |
| Service (`cli/service`) | pid file, status, queued answers | start, ask the owner and wait, stop | another process, remote channel |
| The rest | | permission policy (pure), maestro (heuristics, off by default), providers, MCP, auth, sandbox, connector, UI, slash commands, memory, skills, workflows, plugins | see `PROJECT.json` for each and the reason it is left out |

What makes these hard: limits shared by runs that interleave; an abort that may come at
any await; a batch of tool calls cut in the middle by a limit, a message or an abort,
when the provider refuses an unanswered call; children that outlive the turn that
spawned them; one timer that serves two deadlines; a probe that may succeed, be
refused, fail, hang or be aborted; messages moved between four queues. The list with
lines is `hazards` in `PROJECT.json`.

What must hold, per part: the limits bound the whole tree and a live child's
consumption is never forgotten (budget); every prompt is one a provider accepts
(history); no effect after an abort, every abort comes to rest, no answer older than the
work it reports (loop); a waiter is never lost, one probe at a time, every pause ends
(quota pause); a message or a result reaches the agent exactly once and in order
(session); one writer at a time (rooms); a line of the owner is used once and no wait is left behind
(service); what the journal keeps can be given back, and undo and redo move along one line (journal).

## 2. Modules

| Module | What it is |
|---|---|
| `History` | items of a conversation, the shape a provider accepts, closing an interrupted turn, the cut of compaction |
| `AgentLoop` | the loops of a root and its children on one shared budget, with what the session and the spawner do around a run |
| `QuotaPause` | the coordinator of the quota pause and the calls that go through it |
| `RoomStore` | a room's file and its lock file, and the processes that create, post to and evict it |
| `RoomLog` | the abstract specification of a room, one log for all who write to it, which `RoomStore` implements until somebody is robbed |
| `SessionTurn` | the turns of a session, the queues that feed them, retry, stop, wake-up, fan-outs that outlive their turn |
| `Mailbox` | the abstract specification of the owner's messages, which `SessionTurn` implements |
| `SubAgentPool` | calls of spawn: workers and queues, flow trees across turns, nodes and channels known by label |
| `ServiceRunner` | the process of a service: sleep, turns, activities, the wait for the owner's answer, stop |
| `EditJournal` | contents kept before edits, undo and redo, points and rewind, beside tools at work |
| `Filtering` | `filter` of an array, written without the recursion of `SelectSeq` so that it can be proved about |
| `Filtering_proofs`, `AgentLoop_proofs`, `QuotaPause_proofs`, `RoomStore_proofs`, `SessionTurn_proofs`, `SubAgentPool_proofs`, `ServiceRunner_proofs`, `EditJournal_proofs` | inductive invariants and theorems of the module they name |
| `MCAgentLoop`, `MCQuotaPause`, `MCRoomStore`, `MCSessionTurn`, `MCSubAgentPool`, `MCServiceRunner`, `MCEditJournal` | the same for TLC: symmetry, a view, values of the constants |

How the modules fit. `SessionTurn` starts and ends what `AgentLoop` runs; to it a run is a
thing that drains queues, makes fan-outs and ends, which `RunsEnd` of `AgentLoop`
justifies. `SubAgentPool` is the inside of a fan-out, to which a child's loop is again a
thing that ends. `QuotaPause` is what a model call of `AgentLoop` may wait in. `RoomStore` and
`ServiceRunner` are processes beside these: an activity of a service is a session of its own.
`EditJournal` is what a tool call of `AgentLoop` does to files; to it an agent is a thing that calls tools.

### AgentLoop

Each agent has a `pc` at one of the await points of `runLoop` (top, prep, call, batch,
ask, hook, run, spawn, stuck) or is idle. One action is the stretch of code from one
await to the next, with everything it changes: `ToolEnds`, for example, appends the
observation, counts the success, and after the last call of the batch drains the
messages that came meanwhile and asks the watchdog. `used` and `limits` are
`SharedBudget`; `own` is `OwnUsage`; `check` holds `successfulToolCalls`,
`toolCallsAtProbe`, `verifiedFinal` and the number of probes; `inbox` is what
`pollInjected` would return; `waiting` are the children `spawnDetachable` still waits for,
`detached` the fan-outs it has let go, each with the goal it was made under, and `trees` the
goals whose flow tree the session keeps (`detachedTrees`); `Known` is whom F8 and the
budget's guard can still reach; `lastHistory` is `lastRunHistory`.

Abstractions. A tool, its arguments and its output do not matter: a call is its
position in the batch. A text matters only for whether it asks the owner to decide and
for how much of the work it had seen. What the policy decides, what the owner answers,
whether the watchdog alerts, whether compaction is worth it, what the model says: a free
choice. `IdleTimeout` reports a child and aborts it without stopping it, as the race in
`runChild` does, so a child may run on after its outcome was reported.

Left out of this module: the maestro seam and its continuation nudge (loop.ts
1773-1824), the re-anchor items and `skipWhenVerified` (they add items of the kind
`Text` or skip a probe), the event queue's drain and the queues around a turn
(`SessionTurn`), the quota gate (`QuotaPause`), automatic retry (`SessionTurn`), the
workers of a spawn (`SubAgentPool`; here all children of a call start at once), and the
compaction the owner may ask for when the budget is spent.

### QuotaPause

An agent is off, at work between two calls, in a call, in a call that is the episode's
probe, or parked. Instants are kept as the time left until them, so time is bounded
though the clock is not. `listening` tells a probe that was elected while it waited, whose
abort listener is still there, from one that became the probe at the gate and has none:
`removeWaiter` frees the place of the first only. A released promise resumes its agent
before any other event, so an agent that is let go is at its call in the same step. The
errors a call may end with are those `classifyQuota` tells apart (`Verdicts`). Labels are
unique in the model. `enabled: false` (no pause at all), the display fields and the
events are left out.

### RoomStore

A process does one operation at a time and its `pc` is the next call of the file system,
because another process may run between any two of them; this is the one component whose
actors do not share a thread. `lock` is the lock file: whose it is, whether its token is
in it yet, whether it is older than the 30 s after which it counts as stale. `file` is
the room's file: absent, empty (between its creation or truncation and the write), a room
with its lines, or junk; its tail says whether a piece of a line ends it. `view` is the room
the poster read without the lock, `disk` what `set` read again under it. What is unlinked
or renamed goes by the path, so `RemoveLock` takes whatever lock is there by then, and
`robbed` notes that it was a living process's; `purged` notes that a living room was
evicted. Both only serve the properties.

`RoomLog` is what all this is for: one line of messages for all writers, which grows at its end,
repeats nothing, is cut by a death only and goes only when the room's time is over. The map takes
what is in the file, and while the file is being written anew, what its writer has read
of it (`Log`). After a theft or an eviction of a living room anything may happen (`Break`).

Left out: the store in memory, the cap on the number of rooms, hops and writers of
`mesh.ts`, revocation, which no production code asks for, and the waiting of `room_read`.
A full file is a free choice of refusal. Rooms have random codes and meet in `evictDead` only,
so one room is enough, with the `create` of any other as `Evict`.

### SessionTurn

A run is one call of `runResolvedTurn` or `continueAfterBudget` that has not returned;
`Slots` has room for two, so that one too many shows. `phase` is what the terminal shows, `tree` and
`root` the current flow tree and what became of its root node, `brake` whose `abort` ESC
reaches. A message of the owner is in `live` (the running turn may drain it), `pending` (for
the next turn), `returnable` (to be handed back to the terminal), `orphans` (handed back,
not yet taken by the terminal's effect) or `tui` (the terminal's own queue). Results of
detached fan-outs go to a live turn, or to `seed` and the event queue; `transit` is what a turn has
drained and not finished with. JavaScript runs a handler to its end and the microtasks it
asked for before any other: `due` is a wake-up asked for, and while one is due nothing else happens.
`fan` says where each fan-out stands, coupled to its run or loose.

A line that names files with @mentions (`Mentions`) is not submitted at once: the files are read, which is
awaited, and then `controller.submit` is called without another look at the phase (App.tsx:2485-2533).
`resolving` are the lines of which that holds, `acked` is `unresolvedAckRef`: a line with a file that was refused goes
back to the composer, where the owner may send it again (`Refused` takes it from `sent`). A connector's message is
submitted whenever the root is not live, whatever the phase. `crossed` counts, for the properties only,
the messages that were submitted while a turn was at work.

What each action stands for is in the module, next to it; a run's end is one action with the
choice among the outcomes `runResolvedTurn` tells apart (done, budget, failure, stop), because
between the loop's return and the resting phase the code does not await.

Left out: Ctrl+B and the detach that a typed line may ask for, sending a message at once
(Ctrl+Enter), compaction with [k], stopping with the quota pause saved, focus on a sub-session, routing of a
line to a cycle or a workflow, /clear, an ESC that only hurries what waits, and the lag between
the controller's state and what the terminal has rendered of it.

### SubAgentPool

A fan-out is a call of `spawn`; `next` is the index its workers take from. A child is queued,
preparing (announced, its worktree being made), working, asking, leaving (its loop over,
its worktree being removed) or ended. Nodes are pairs of a tree, numbered by the turn that
opened it, and a label: `killed` ones have a fired signal, `finished` ones are terminal.
`nodeOf` is `childNodes`, `channel` is `liveChannels`, both by label; `hears` is the node
whose signal a working child was given when it started. Two calls may share a label, since
`spawn_agent` makes labels distinct within a call only.

Left out: the eviction of terminal nodes beyond 32, the signal a workflow's spawn passes of its own,
what messages between agents say, resumed histories, the choice of a model for a child, accounting.

### ServiceRunner

`pc` is the await `runServiceRunner` is in. `phase` is `currentPhase`, by which a typed line
is routed, and it is kept apart from `pc` because it lags: it stays at `awaiting-owner` while
the activity that was answered runs on. `pendingSay` and `queued` are the two lists a line may
wait in, `waiters` the pending resolvers of `LocalAnswerChannel`. What became of the lines `said` is kept for the
properties: `taken` by an activity, `dropped` with a step that the stop or the end of the hours kept
from opening one, or
`lost`, as the answer to an activity whose workflow cannot be run again. Of Telegram there is the list of
updates the server got, how many it has forgotten (`confirmed`) and how many the present
client has seen (`offset`), the only part of the protocol that the wait depends on: what a poll
returns, and so whether the wait ends, is decided by `updates` and `offset`, and what a later wait is given
again by `confirmed` (section 5). Time is
abstract: `late` says that a wait's 24 hours are over, `open` that today's `until` is still to
come, `alarm` which of the two instants a sleep ends at. `manifest` is what `service.md`
declares, any of eight combinations. The read of the workflow, of the manifest and of a child's
output may fail: a free choice.

Left out: a schedule that never fires, a runner without an attach socket (it always has one), the
test-only reply by environment variable, the limit on messages sent, the tail of
blocks, the start of each daemon, a crash of the runner, and `service start` and `stop` with the pid file.

### EditJournal

A content is a number, new for every edit, and 0 is a file that does not exist; the blob with the
content before an edit is known by the content the edit makes. Some contents no read gives whole (`Cut`): a file
above the limit is read up to it, a binary one as empty, one that is not UTF-8 with other characters in
place of its own. What a read gives of such a content `n` is written `-n` (`AsRead`), and since `write_file` with
`overwrite:true` takes it for the content before the edit, that is what the journal keeps and what undo and
rewind write. `tool` says at which await of
`edit_file`, `write_file` or `run_command` an agent is: it has read the file (`read`), the blob
is stored (`sealed`), the entry is pushed and retention runs (`retain`), the effect is due
(`effect`). Tools of several agents interleave there, and so do the owner's commands. An entry without a path
is a barrier. `cursor` is `UndoController`'s plus one, 0 being null; `undoing` is an `/undo`
between its check and its write; `armed` is `pendingUndoConfirm`. A point is its `journalSeq`,
and beside it what the files held, for as long as only edits in the journal have touched
them: that part, `moved` and `swept` serve the properties.

What may fail: the store of a blob and the append of an entry (`toolPort` swallows both, so the
tool goes on), a write of undo, redo or rewind, and the whole directory at the hands of another
process (`gcOrphans` looks at its age only). The owner is taken to wait for the note of
a command before giving the next.

Left out: the cipher, the form and rotation of the stack file (nobody reads it back), a blob
written by half, `degraded` (nobody reads it), the confinement of paths, the conversation's part of a
rewind, the pruning of points, entries with several targets, which no tool makes.

## 3. Runs

| Run | Bounds | Question and result |
|---|---|---|
| `solo` | one agent, one goal of four iterations and three tool calls, batches of up to two calls, one message, one probe, compaction keeping one item | prompts are well formed, no effect after an abort, the delivered answer is as recent as the work, types. 1.3 million states |
| `tree` | root and two children (symmetric), two goals, two fan-outs per goal, one `continue`, limits 3/2/2 with room to extend to 3 tokens, hooks on | the limits and the token overshoot hold for the tree, live consumption is counted. 2.0 million states. The view drops histories and answers, which no guard reads when compaction is off, and what these invariants do not read |
| `ends` | root and one child, three iterations, one probe, watchdog on, fairness | aborts come to rest, runs end |
| `quota` | principal and two sub-agents, ladders of length 1 and 2, waits of 3 and 4 ticks, resets of 1 and 3 with the short-retry limit at 2 | no orphan, one probe, timer, quiet after a stop, every episode ends. 165 thousand states |
| `rooms` | two processes, two posts each, deaths, sleep, eviction, fairness | one holder, ordered lines, nothing lost and `RoomLog` implemented, as long as no living owner is robbed; a dead owner's lock goes. 1.1 million states |
| `twins` | three processes, no faults | violated: see 5 |
| `session` | two typed lines, one of them with mentions, one fan-out, one event, two slots, two attempts, one stop, fairness | one turn but for lines submitted late, the phase tells it, no attempt after a stop, results, messages and events reach a turn. 1.1 million states |
| `mail` | the same two lines and a connector's message, one each of `continue`, retry, dismissal and stop, no fan-out and no event | a message is in one place, taken once and never again: `Mailbox` is implemented. 1.1 million states |
| `pool` | a call with three profiles for two workers and one whose only label is the first's, two turns, F8 at any step, one single stop, fairness | a stopped tree stays down, no ghosts, channels, every call returns. 580 thousand states |
| `stray` | one call with two profiles for one worker, two turns | violated: see 5 |
| `service` | two activities, two lines, two updates, all eight manifests, stop at any step, fairness | lines have one place and one fate, no wait is left behind, daemons outlive failures, waits and stops end. 520 thousand states |
| `journal` | two agents (symmetric), one file that exists or not, three new contents by edits, commands or the owner's editor, the first and the last of them not to be read whole, two edits kept and no room for barriers, one point, one command or failure | contents are kept exactly as long as their edits, the ceilings hold, undo and redo stay on one line, a rewind gives back what a read gave of the point. 7.8 million states |

Bounds, and why they suffice. `MaxGoals`, `MaxContinues` and `MaxSends` bound what the
owner may do: two goals (`tree`) are the least in which one goal's leftovers meet the next, one
message is enough to cut a batch, since the loop drains the inbox as a whole. A batch of two
has a first, a last and a skipped call. With limits of 2 to 4 every limit is met, each of
them first in some behaviour. Messages are exercised with one agent only (`solo`); with
children they cost more states than they show, as a child's drain is the root's code. Three
agents of the quota pause are the least with a probe, a waiter that is elected after it and
a third that arrives at the gate. The waits are chosen different from one another so that
deadline, ladder and announced reset come in every order. Two processes in a room make a
creator, two writers, a thief and its victim; what needs a third is shown by `twins`, without
faults, and by the theorem for any number. In `session` either line may meet any of the two
attempts, the stop and the fan-out's end; the second line
is what starts the turn that the first, still being resolved, is submitted over, and the second slot is
what that takes. [r], [c] and Esc on an error are in `mail`, which has the three ways a message can be
submitted and no fan-out. In `pool` the
third profile waits for a worker while a turn begins, and the shared label is registered in
two trees at once. In `service` two activities are the least with one to resume and one to
follow, two updates the least with one that is seen and one that is not. In `journal` two edits kept and a
third are the least with an eviction and an undo of two steps; three contents are enough for two
edits of one file after a point, and with the first and last cut a point may hold one, an edit may find
one and an edit may make one; with one file every edit meets every other. Edits of different files
share only the order of entries, which the theorems cover for any number of files.

The type invariants of `QuotaPause`, `RoomStore`, `SubAgentPool`, `ServiceRunner` and `EditJournal` are
proved (section 4); no run repeats them.

Deadlock checking is off for `AgentLoop`, where the session stops after `MaxGoals`, for
`SessionTurn` and `SubAgentPool`, where everything bounded may have happened, for
`RoomStore`, where the processes may all have died or posted, and for `ServiceRunner`, which
goes down; it is on for `QuotaPause`, which never stops, and for `EditJournal`, where the owner can always
ask for an undo.

Fairness. A run's own step is weakly fair (`Automatic`): model calls, hooks and tools have
time-outs of their own, so they end. What the owner decides is not, except that an abort
answers pending questions: the listeners on the signal resolve an ask, a watchdog pause
and a spawn, so those are fair once the run is aborted. `OrphanLockGoes` assumes that a
living process goes on with an operation it began; that it gives up after 10 s is allowed, never
assumed, and giving up is no part of the fair steps. `EpisodeEnds` assumes only that
time passes and that a due timer fires: a model call may hang for ever. In `SessionTurn` a
wake-up that is due is tried, a run goes on to its end, a fan-out ends and reports, and the
terminal's effects run (they take what is handed back, submit the head of their queue at
rest and feed a live turn); the owner may never do anything. In `SubAgentPool` a child's
preparation, loop and departure end (the first and last are a `git` call each, the loop ends by `RunsEnd` or
its idle timer); a question may wait for ever, unless the child is stopped. In
`ServiceRunner` requests end, timers fire and a stopped child dies, by SIGKILL after 8 s if need be;
an activity that nobody stops need not end, and neither the owner nor the next turn need come.

## 4. Theorems

Checked by TLAPS for every set of children, all limits and every size of batch.
`AgentLoop_proofs` proves the invariant `IInv`: the types; the place each run's turn
counter may be in; that only the root waits in `spawn` and only with the gate on is
anybody at `hook`; that no fan-out is dated by a goal to come; that the budget is within its
limits; that what the live runs the session knows have consumed is, all together, in what
the budget counts (`RunsCounted`); that the candidate of the self-check is dated by the
work at its probe. `BudgetRespected` needs the types alone of `used`, but `RunsCounted`
is inductive only with what ties `waiting`, `detached` and `trees` to `RearmBudget`: a reset
happens only when no tree is kept, and the root, idle then, waits for nobody. The sum is proved as the
size of a set, in which each run has one member for each unit it has consumed: a step adds a unit to
both sides, and the theorem on `LiveConsumptionCounted` then says that the sum over the runs is that size.
`AnswersAreCurrent` needs the candidate's date, and `NoEffectWithoutGate` that nobody is at
`hook` without a gate. `TokenOvershootBounded` is a bound with the dearest turn of every agent
(`TurnTokensAssumption`); what makes it inductive is that a call is only made while tokens are
left, and that a turn adds its cost as its agent leaves the set of those in flight.

`PromptWellFormed` has an invariant of its own (`HistoryInv`): a history is `Paired` outside a turn, and in one it
is paired up to the turn's calls, which have their results so far, in order (`MidTurn`); what the next goal
begins with is acceptable. It rests on lemmas about histories: a paired one followed by a paired one is
paired, a group of calls with its results is, what a compaction keeps is, and the repair of a turn
that was cut gives back what was paired already as it is (`ClosingKeepsPaired`) and completes a
group with the results that are missing and nothing else (`ClosingCompletesGroup`).

`QuotaPause_proofs` proves the type invariant and the four safety invariants of run `quota` for any number of
agents, all ladders, waits and resets, from the named assumptions of `QuotaPause` (ladders
are not empty and their waits are positive). Its `IInv` is: the types; the parked agents are the
waiters of the episode, each once; who left as a probe holds the probe's place; a closed
episode is empty; an open one has its timer; a stopped session has no open episode. The
stop invariant needs the emptiness of a closed episode, and that needs the place of the
probe. The proof goes by building blocks (joining, leaving, electing, closing: each keeps
program counters and episode in agreement), then one lemma per group of actions.

`RoomStore_proofs` proves, for any number of processes, posts and kinds of faults, that a living
process inside the critical section owns the lock file as long as no living owner was
robbed (`HoldersOwn`), and from it `MutualExclusion`. The condition is the point: run
`twins` shows that the code does rob living owners, and the theorem that nothing else in the
protocol, whatever dies or sleeps, lets two processes in. On the same footing stand the types,
`SeqsRise` and `StoredStays`. The first says that a line's number is its place in the file, which
needs that the room a holder has read is the one still on disk; the second that a message reported as
stored is in the file, or in the memory of the process that is just writing the file anew. `set`
filters the poster's view for what the disk lacks, and it is `FilteredMembers` of
`Filtering_proofs` that says what such a filter keeps.

`LogImplemented` is the refinement of `RoomLog`. Its invariant (`HistoryInv`) says that what files
and processes hold was posted, so that a new message is new to everybody; that a process which is about
to write the whole file has read what is in it, or there is nothing; and that nobody holds a message twice.
Then every step on the file appends to the log or leaves it: an append and a whole
write both come down to what was read followed by the new messages, and what a death leaves of a
whole write is a beginning of that (`CutRoom`), which is a prefix of the log or has the log as a prefix.

`SessionTurn_proofs` proves four properties of run `session` for any number of messages,
fan-outs, events, slots and bounds, with or without a connector. `OneTurn` and `PhaseAgrees` come from one
count (`TurnsInv`), neither being inductive without the other: a run more needs a phase that rests, or a message
submitted over a turn at work, which `crossed` counts; a run less makes the phase rest. Two kinds of message are
submitted that way, a line with @mentions and a connector's message, and the theorems say that no other
key, wake-up or queued line starts a second turn. Once it has happened, the code's other guards no
longer say what they
said: the signal a retry looks at is that of the new turn's tree, and both runs drain into one
`drainedResults`. `NoAttemptAfterStop` and `ResultsKept` therefore speak of sessions in which no message has
crossed a turn (`crossed = 0`), and so does `SessionInv` that they rest on: shape of the state; a
working phase exactly
when a run is active, and at most one is (`TurnInv`); a stopped run's root is stopped (`StopInv`, for
`NoAttemptAfterStop`); what has been drained has been heard by the run that is active, unless a budget was continued
(`HeldInv`, for `ResultsKept`).

The two properties of run `mail` are proved there too, with no assumption on the connector: `OneHome`, and
`MailboxImplemented`, the refinement. Their invariant (`MailInv`) is that no queue repeats a message and no two
queues share one, that whatever waits, was taken or was cleared had been sent, and that nothing taken
waits. A hand-over concatenates and filters queues, so each such step comes down to the members of the
sequences (`FilteredMembers`, and lemmas on concatenation and on the length of a sequence without
repetition); the map to `Mailbox` then looks at the set of those that wait.

The types, also with a connector, need that a backoff is only begun while attempts are left, and that
whoever runs or can be resumed has a tree (`TypesHold`). That the model has trees enough is a theorem too
(`TurnFindsTree`): a tree in use is a run's, the current one or that of a detached fan-out (`FanoutsHeld`),
which are fewer than `Trees`, so that the bound on trees never keeps a turn from starting.

`SubAgentPool_proofs` proves the type invariant, `StoppedTreeStaysDown`, `NoGhosts` and
`ChannelKept` for any calls, labels, workers, turns and stops. The first two facts need
`StopInv`: every node of a stopped tree is killed, a working child hears an existing node
and is aborted if that one is killed. `NoGhosts` needs in addition that a child is queued
exactly until its call's index passes it (`QueueInv`), that a node whose label is borne by one profile is
the one registered for it as long as it lives and terminal after (`SoleInv`), and that a living child
has a registered node (`NodeInv`).

`ServiceRunner_proofs` proves the type invariant, `SayHasOneHome`, `WaiterReady` and
`DaemonsOutliveFailures` for any numbers of activities, lines and updates. The three invariants are
inductive together: that a
wait is there only while the runner waits bounds `waiters`, and that a line lies in one queue
only is what makes one fate enough once it leaves. `SayHasOneHome` is kept queue by queue (`HomeInv`); lemmas about
`Append`, `Tail` and concatenation bring it back to the form above.

`EditJournal_proofs` proves the type invariant, `StackInStep` and `BlobsMatchEntries` for any files,
agents, ceilings and bounds. `BlobsMatchEntries` needs (`BlobInv`) that a content is made by one
tool call or one entry only, since a blob is known by it, and is never above `version`: else
one eviction would take the blob of another edit. `StackInStep` needs (`StackInv`) what an `/undo`
between its check and its write
remembers: as long as nothing moved, the entry it is about to take back is the one below the cursor.
`RewindRestores` needs (`PointInv`) that a point can answer for every file it vouches for: the first
edit since then found what a read gives of what the file held at the point, and while there is none,
the file itself and the
tools that have read it still have that. An edit that an undo holds or a rewind has yet to
take back must still be in the journal, and numbers must grow for the first edit to stay the first.
`RetentionHolds` is a matter of counting: an entry is in the journal once, so the entries kept are those of
a rank above the surplus (`RanksGrow` of `Filtering_proofs`), and the tools that have pushed and not yet
evicted are a finite set, each of them one entry above the ceiling at most.

### What is proved of the liveness properties

That something happens in the end rests on fairness, which the prover does not reason about, and on a state
from which every way leads there, which it does. The second half is proved, for every value of the constants, in
the form a fair step needs: a step that counts brings the system nearer, and no step of anybody else takes it back.

| TLC checks | proved |
|---|---|
| `AbortCeases` | `AbortedRunsSink`: an aborted run keeps its signal until it rests, and each of its steps, whatever it waits for, brings it nearer; four are enough. |
| `RunsEnd` | `IterationsArePaid`: a step uses up some of the iteration (five steps a call and four more) or takes a new iteration from the budget of the whole tree. |
| `EpisodeEnds` | `EpisodesRunOut`: an episode opens with `MaxWait` at most, no probe, late joiner or "try now" adds to that, and at its deadline the timer is due. |
| `EveryFanoutReturns` | `WorkersAtWork`: a call under way has at least one child in hand, as many as its workers while profiles wait, and is back exactly when all its children have ended; `ChildrenGoForward`: a child never goes back, and the steps the scheduling owes it take it further. |
| `RunnerMovesOn` | `StoppedRunnerSinks`: a stop is not forgotten, and two moves lead down from anywhere; `LateWaitEnds`: a wait whose time is over is not prolonged. |
| `OrphanLockGoes` | `DeadOwnerPassed`: who asks for the lock of a dead process looks, steals and has removed it, and it does not come back. |
| `ComposerHeard` | `NothingLeftBehind`: while nothing was stopped and no message crossed a turn, at rest the turn's queue is empty and what waits for the next turn is announced, so that the terminal takes it back. |
| `EventsHeard` | `NoWakeUpLost`: while no message crossed a turn, events are in the queue at rest, with no wake-up due, only while a fan-out is still to end or to report, and will ask; or after a stop or an error dismissed. |

The last two are about sessions in which no message has crossed a turn, the first of them with nobody but the
terminal (`Connector = {}`), and need the kind of the run (`KindInv`): the latch `waking` is that of a wake-up
turn under way, a live root is a turn's, and a resumed run makes no second attempt. `NoWakeUpLost` then is about one
step, a wake-up that is tried at rest and does not happen (`WakeTried`): a detached tree kept it back, that tree is a
fan-out's, and the fan-out has reported only if it has set the flag that lets a wake-up through (`WakeInv`).
`WorkersAtWork` counts: while profiles are left the children in hand are as many as the workers, and after
that each end of a child is the end of a worker (`WorkersOf`).

Only model-checked: the liveness properties themselves, and the two runs that expect a violation. Every invariant and
every action property of the other runs is the subject of a theorem. Where a definition of the community modules is
recursive (`FlattenSeq`, `MapThenSumSet`), the theorems of the library that take an operator cannot be used;
the proofs name a solution of the recursion and show that there is no smallest argument at which it
fails (`Extremes` of
`Filtering_proofs`).

## 5. Where the code and its documentation differ

Shown by a run:

* `twins`: a lock file that is still empty, or already gone, when a contender reads it counts as
  corrupt, and the contender renames away whatever lock is there by then. Two processes write
  at once and number their lines alike, with no death and no slow process. The code says nobody
  deletes another's lock, its tests that the numbers are unique.
* `stray`: a profile still queued when F8 stops its call is announced in whatever tree is
  current when a worker comes free. If a new turn has begun by then, the child starts in that
  turn's tree, unaborted, and spends its budget.

Met while modelling, and in the models as the code has it:

* Agent loop. Between the abort check and the tool stands `await preToolGate`; the hook does not
  see the signal and nobody looks again (loop.ts:2129), while the comments there promise that
  no tool starts after an abort. After a probe, `answer` is the earlier candidate also when the new
  final asks the owner to decide (loop.ts:1832): the history ends with the question, the
  result does not have it. Two fan-outs detached under one goal share a tree, which is
  forgotten when the first ends (controller.ts:9138-9139): the next goal's reset then wipes what
  the other has consumed, against the comment at 3088-3090, and F8 no longer reaches it.
* Quota pause. The path of `handle` for a probe that fails with an error that is not a
  quota neither dissolves an episode without waiters nor removes the agent's snapshot
  (quota-pause.ts:270). The timer then re-arms with a delay of 0 until the deadline.
* Rooms. The eviction reads rooms without their locks and deletes what it cannot read; a room
  that is being created or written anew is empty for a moment (file-room-store.ts:583).
* Session. A line typed when the turn's root has ended while sub-agents run is in no queue
  (App.tsx:2700 does not look at what `injectIfPlainText` returns, whose comment at 2622-2624
  says the caller queues it). A line with @mentions is submitted when its files have been read, with
  no second look at the phase (App.tsx:2485-2533): if a wake-up, the next queued line or another
  line typed at rest has started a turn
  meanwhile, there are two at once in one session. A connector's message right after ESC starts a second turn beside
  the one that is still ending, too. `OneTurn` counts both. The tree, the root, the queues, the drained results and
  the handle of the abort are the session's, so the older run then works under the newer one's: a stopped
  run may begin another attempt, the end of one drains what was meant for the other, and what the one had drained
  the other may forget. A line whose mention is refused leaves the queue for the composer, behind
  what is queued. Messages drained into an attempt that fails are not seen by the
  retry (controller.ts:4773). A message typed earlier may come after one typed later when a retry hands some of them
  back (7672). An error dismissed with Esc does not wake the events that wait (2969). A run
  continued after its budget that then fails gives nothing back of what it had drained; `ResultsKept` excepts it.
  Several results that come while a turn lives share one event and only the last is delivered there; one that comes at
  rest is in the next turn's seed and in the event queue, so that its turn may read it twice.
* Sub-agents. A label stopped and spawned again in the same turn finds its old node, already
  terminal: the child is dead at birth (subagent.ts:1430). With one label in two calls the end of one child closes the
  node of the other, and one node stays open for ever; `NoGhosts` speaks of labels borne once.
* Service. Each wait makes a client of its own that reads Telegram from the start (channel.ts:122), and the
  server forgets a message only when a later poll passes beyond it: the message that answered
  one question answers the next, too, and one written before a question answers it, while
  channel.ts:287-288 says only an instruction of the owner ends the wait. In the same way a
  line typed while the resumed activity runs, or after a wait's time is over, is kept for
  the next question, because the phase still says `awaiting-owner`.
  Lines drained for an activity that is skipped because the hours are over, or the runner stops, go with it, and
  so does the answer to a question then. The answer is lost as well when the workflow is gone, invalid or
  shorter when its activity is to be resumed (runner.ts:1347-1366): it is an argument of the call that
  returns there. service-messages.ts:131-132 says of a line that it is never silently discarded
  (`SayHasOneHome` names these cases and allows no other: the lines for the next activity outlive a workflow
  that cannot be run). An alert about an invalid manifest, or a wait for the owner, that lasts past `until` leaves
  the daemons up until the next turn. `stop` removes the pid file of a runner started meanwhile, and a runner's own
  shutdown does the same.
* Journal. `write_file` with `overwrite:true` does not look at whether the read of the old content was complete
  (native.ts:391-434; only the refusal without `overwrite` does), and the journal keeps what was read: the
  first part of a file above the limit, nothing of a binary one. The comment at native.ts:43-48 says an editor
  must never write over a partial read. An undo or a rewind then writes that part, or an empty file, and reports
  success. A file that is not UTF-8 but has no NUL counts as read completely (read-bounded.ts:83-87), so `edit_file`
  rewrites and journals it in the same way. `RewindRestores` says what is given back, which is the content of
  the point only where a read gives it whole. After an undo, a new edit lies above the cursor: the
  next `/undo` takes back an older
  edit instead, and the redo list is kept, although the comment on `syncCursor`
  says a new edit makes it void (undo-controller.ts:80). `/redo` advances by one though undo may have
  skipped barriers, and writes without the check that undo makes. The cursor is an index and
  shifts when retention takes entries away; an undo confirmed after that may overwrite a file whose change
  nobody was asked about. A redo whose content was evicted stays on top of the stack and blocks what
  is below it. A rewind past evicted edits restores what the oldest kept edit found, and
  does not say so. `degraded` is set but never read, though journal.ts:116 says
  `/undo` warns. `cleanup` is never called: a session's blobs stay until a later start sweeps
  directories older than a day (wiring.ts:812-813), and that sweep takes a live session's directory
  as well.
  `StackInStep` and `RewindRestores` state the conditions under which none of this happens.

## 6. Plan

Next come the cycle engine (`core/agent/cycle`, with what the session does around a cycle), the
service process (start, stop, attach, pid file) and the monitors' store.
