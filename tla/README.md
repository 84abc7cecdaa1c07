# TLA+ models of ShellSpan2

ShellSpan is a desktop SSH, SFTP and terminal client with a built-in Agent. An Electron main process
runs the *Node Core* in a child process (`electron/node-core/`), which owns everything that has state;
the renderer (`src/`) shows it. These modules model the parts of the Node Core whose correctness rests
on the order of asynchronous steps, on crashes and on partial failure. Paths below are relative to the
repository.

## The system

| component | state it keeps | operations | interacts with | what is hard | what makes it correct |
| --- | --- | --- | --- | --- | --- |
| Agent event store (`electron/node-core/agent-store.ts`) | one JSONL file per Session in an active or an archive directory; the same events in memory; a promise chain per Session | create, append, archive, open (load, repair, quarantine) | called by the runtime; emits events to the renderer through a pipe that may be backpressured | a kill in a write, torn tails, failing writes, a clock that jumps back, two creators | what anybody has seen survives; fsync before publication; an archive never changes; one failing operation blocks nothing |
| Agent runtime (`agent-runtime.ts`) | the log (through `agent-projection.ts`); in memory one controller per running Turn, pending decisions, pending questions | create, follow-up, steer, start, resume, interrupt, cancel, archive, approve, reject, answer, set permission, rename, mutate Inbox, recovery | appends to the store; calls the provider (`llm-runtime.ts`) and tools; commands from the renderer | every `await` lets another command in; double clicks; cancel against approve; crash between dispatch and result | no tool without authority, twice, or after the end; no message lost or delivered twice; every Turn settles |
| Agent projection (`agent-projection.ts`) | none: a fold over the log | Inbox, status, recovery checkpoint, surface | read by runtime and renderer | an old event masks a newer one | the checkpoint tells of every effect in flight |
| Agent Session client (`src/lib/ai/agent-session-client.ts`) | the renderer's copy of the log, a buffer during connect | connect, live event, backfill, full resync | events and pages from the Core | pages and live events overlap at awaits | its copy is a prefix of the log, without gaps, and catches up |
| Subagents and Fleet (`agent-runtime.ts` 1930-2249) | a tree of Sessions, waves | spawn, wait, cancel, reconcile | one Turn each | cancel against spawn; concurrent admission | a child never exceeds its parent; waves admit what they may |
| Path operation queue (`src/stores/transferStore.ts`) | queued and granted operations on paths, active transfers | run, cancel, close owner, drain | transfers of `remote-fs.ts` | a drain that is skipped, cancellations | overlapping operations exclude each other, in FIFO order, and none starves |
| Terminals (`terminal.ts`, `electron/terminal-flow.ts`) | gated output, credits | output, flush, pause, acknowledge, finish | PTY, renderer | output during a flush; acknowledgements that never come | output in order, bounded, not stuck |
| Port forwards (`port-forward.ts`) | one entry per forward with its SSH connection | start, stop, stop all | SSH connector | start against stop around the connect | at most one forward per configuration; a stopped one is closed |
| Core process host (`electron/core-process.ts`) | pending requests, readiness, timers | invoke, receive, fail, stop | Node Core process | response against failure, exit against terminal channel | every request is settled once; one exit event |
| Storage (`storage*.ts`) | SQLite file, staging and backup files | migrate, restore, recover | main process | a kill between renames | one recoverable database at any moment |
| Credential vault (`credential-store.ts`, `credentials.ts`) | a vault entry, legacy entries, tombstones | set, get (migrates), delete | system keyring | one step of several fails | a secret is neither lost nor revived |
| Remote files, SSH, host trust, LLM runtime, dispatcher, UI | | | | mostly I/O, protocol and view code | |

The full list of hazards, each at its line, is kept with the project's manifest (`PROJECT.json`).

## Modules

| module | models |
| --- | --- |
| `DurableLog` | what the store promises: a log that only grows, and readers who have seen a prefix of it |
| `AgentEventStore` | `agent-store.ts` for one Session; shown to implement `DurableLog` |
| `AgentEventStore_proofs` | the theorems about its invariants |
| `AgentEventStore_refinement` | the theorems about the log it implements: `DurableLog`, acknowledged appends, archives |
| `AgentRuntime` | `agent-runtime.ts` for one Session, over an abstract append queue |
| `AgentRuntime_proofs` | the theorems about it |
| `SessionStream` | the renderer's copy of one Session's log: `agent-session-client.ts`, the calls of the adapter that connect it, and `getEvents` of the core |
| `SessionStream_proofs` | the theorems about it |
| `TerminalOutput` | the output of one terminal session across three processes: `terminal.ts`, `terminal-flow.ts`, `terminal-registry.ts` |
| `TerminalOutput_proofs` | the theorems about it |
| `PathQueue` | the queue, the rows and the tasks of the SFTP tabs: `transferStore.ts` and the hooks that use it |
| `PathQueue_proofs` | the theorems about it |
| `PortForward` | the forwards of one connection profile: `portForwardStore.ts` in the renderer, `port-forward.ts` in the core |
| `PortForward_proofs` | the theorems about it |
| `Induction` | lemmas on natural numbers and sequences that several proofs use |
| `MCAgentEventStore`, `MCAgentRuntime`, `MCSessionStream`, `MCTerminalOutput`, `MCPathQueue`, `MCPortForward` | constants, and symmetry where it is sound, for TLC |

Every module but `DurableLog` composes the parts that interact: the two ends of a call and the messages
between them are in one next-state relation, because what goes wrong in this program goes wrong between them.

### AgentEventStore

A file is a sequence of lines; a line is an event or `Torn`, text that does not parse; `ended` says
whether the last line has its newline and `synced` how many lines an fsync has covered. `record` is the
in-memory record, `queue` the Session's promise chain with the running operation at its head and `pc`
where that stands. `append` (207-255) is split where it awaits: `AppendWrite` (tests, events, `writeFile`),
`AppendCommit` (`sync`, `close`, `push`), one `AppendEmit` per event, `AppendDone`; `AppendRefused`,
`AppendFails` and `SyncFails` are its error paths. `create`, `archive` and `open`/`loadFile` are split in
the same way. `Kill`, `KillInCreate`, `KillInAppend` and `KillInRepair` end the process between and within
writes; `PowerLoss` takes what was not fsynced. A *clean* kill, the only one in `store_kill`, falls between two steps or
in the write of a creation or an append, and cuts it anywhere but between a complete line and its newline. A kill in the
rewrite of a repair (117, which truncates the file first) and a cut that takes only the newline are the faults
`repairCrash` and `unterminated`: with either of them the code loses committed events (see the observations).
`committed` is a history variable: the longest log a
reader (a snapshot, a page, an event) has been able to see.

Abstractions: an event is its sequence number, time and origin; a batch of one call is any batch of up to
`MaxBatch` events; the byte bound of the log is counted in lines; a line that does parse but is not an
event does not occur in files that only this program writes. Artifacts (270-315) and the limit on the
number of Sessions are left out.

### AgentRuntime

The runtime runs on one thread and appends everything it does to the log. `queue` holds the appends in the
order they were asked for, each with what continues after it (`then`). `Commit` makes the head's events
visible and `Resumes(..)` lets its caller continue; between the two the store emits the events and may
await the drain of the pipe (`events.ts`, `entry.ts`), so other commands can come in. `turn` is the local
state of `runTurn` and `processTool` with `pc` the append or promise it awaits; `pendingDecision` and
`pendingQuestion` are the maps of the same name for this Session; `starting` counts `start` commands that
await `prepareAgent`.

| `pc` | awaits | next |
| --- | --- | --- |
| `claiming` | the claim (620-661) | `Claimed` |
| `asking` | the provider (668-709) | `Respond`, `ModelFails` |
| `answering` | `assistant/message` | `Answered` |
| `calling` | `tool/call` (861) | `Called`: reject, ask, dispatch, or throw |
| `requesting` | `tool/approval` or `question/requested` | `Requested`: only here are the pending entry and the abort listener registered |
| `waiting`, `deaf` | the user; `deaf` when the abort came before the listener | `Decided`, `QuestionSettled`, `Abort`, `Cancel` |
| `dispatching` | `tool/execution` (896-903) | `Dispatched` |
| `executing` | the tool | `ToolEnds` |
| `completing`, `recording` | `tool/result`, inside or outside the `try` (905-930) | `Recorded` |
| `stopping`, `finishing`, `continuing` | `step/end` (745-752) | `StepEnded` |
| `ending`, `failing` | the last append | `TurnEnded` (the `finally` of 820) |

`Crash` empties the memory and keeps any prefix of the append being written, which is what
`AgentEventStore` shows to be possible; `Refused` is an append that throws, because the log is archived,
full or cannot be written. `CancelRefused` is a refused `question/cancelled`: nothing catches it, and
`entry.ts` (113-121) turns an unhandled rejection into the end of the process.

Abstractions: tool calls are one of five kinds (`Kinds`); the permission modes that do not ask are one
(`operator`); events that steer nothing (`request/header`, `assistant/chunk`, `request/usage`, artifacts)
are left out, as are compaction, which needs 32 messages, images, the CAS commands on the Inbox, the
recovery commands and subagents. Ids come from one counter, so that a Turn or call never gets an old id.

### SessionStream

`committed` is how many events the core has committed; an event is its sequence number. `wire` holds the
live events on their way to the renderer, `client` the fields of the client (`events`, `unlisten`,
`buffering`, `buffered`), and `proc` what each `connect`, `reconnect` and the promise chain `work` awaits.
A connect subscribes (`Subscribed`), asks for the snapshot (`Snapshot`), reads pages until the snapshot's
sequence (`Page`) and takes in what it buffered (`Ingest`, `Connected`). `ingestLive` skips what is known,
appends what follows, and backfills a gap; what it cannot fill starts `fullResync` (`resync1`, `refetch1` after a failure,
`resync2`, `refetch2` after a gap). `Lose` drops a live event, `CallFails` fails any call that is awaited.
`Quiet` makes microtasks run before the next event of the loop.

Abstractions: what an event says, and the checks of it (`validateEnvelope`), the snapshot value and the
view projection are left out. A client of the adapter that is replaced is not followed further.

### TerminalOutput

The chunks of the output are numbered and follow one path: `core` is the Session in `TerminalManager`
(its gate `ready`/`paused`, its buffer), `emitting` the loops of `flush` and of the end that await a full
pipe, `wire` the terminal pipe, `flow` the `TerminalFlow` of the main process with its credits, `ipc` and `acks`
Electron's queue and the acknowledgements, `page` the controller in `terminal-registry.ts` with its entry
in `terminalStore`, `commands` the chain of `set_session_output_paused` calls, `screen` what xterm was given.

| action | code |
| --- | --- |
| `Output`, `Flush`, `Finish` | `output`, `flush`, `finish` of `terminal.ts` |
| `Drained` | the await in an emitting loop ends |
| `Push`, `Ack`, `PageReady`, `Navigation` | `push`, `acknowledge`, `terminal-ready` and the reload of the page |
| `Listen`, `ServeStatus`, `Reconcile`, `MarkReady` | a controller that subscribes, asks for the status and opens the gate |
| `Dispatch`, `Parsed` | an event is handed to xterm; xterm has parsed it, and the watermarks are tested |
| `ServePause`, `PauseReturns`, `PauseFails`, `Retry` | the pause calls, their failure and the retry timer |
| `Detach` | dispose, or the entry is rebound to another session |

`lost`, `slips` and `unseen` are history variables: they record when the code has discarded output, when an
emit has overtaken a flush, when a failed call has left the Session paused, and when a session ended
unseen. The properties name them as their only exceptions.

Abstractions: a chunk has size one; a frame goes into the pipe as a whole; `ssh-status` and `ssh-closed`
are one event; creation, input, resize, output filters, the context buffer of the AI and reconnection are
left out.

### PathQueue

`row` is the transfer list by operation, `request` the queue and the tasks by sequence number: a request is
`queued`, `granted`, in its `command`, in `backoff` before another attempt, `settling` (its directory is listed), or
`gone`. `Submit` and `Retry` put requests (`runPathOperation`, `retryOperation`), `Enqueue` adds the pending
row of a batch that was dropped while another one runs, and every action that changes what keeps paths busy ends in `drain`, as
`pathOccupancyRevision` makes the code do. `CommandReturns`, `Backoff` and `Settle` are the task,
`CoreEmits` and `Deliver` a progress event that may come after its command has ended, `CancelRunning`,
`CancelReturns` and `CancelFails` the cancel call, `Discard` the X of a row and `Close` the closing of a tab.
`PathsOverlap` is `sftpPathsOverlap`: equal, or one inside the other, the root being inside nothing.

Abstractions: paths are short sequences; the scope of an operation is fixed; rows have one `full` flag
instead of counters; the conflict dialog, the chain of dropped batches and local panes are left out; one
progress event is under way at a time.

### PortForward

An operation (`Op`) is one forward that somebody asked for. `core` is the manager's entry with its SSH
connection and listener, `rows` the store's runtimes with their owners, `proc` the calls in progress and
`inbox` what is on its way to the renderer. `start` is split where it awaits (`Connect`, `Listen`, `Started`,
`StartFails`), and so is `stopOne` (`StopReleases`, `StopCloses`, `StopAnswers`). In the store, `Find` is
`startRule` when it looks for a row (at once, when the row it waits for is no longer active, or when
`waitForPortForwardEnd` gives up after 5 s), `Prepared` what runs once the connection is prepared, `OnEvent`, `OnStarted`,
`OnFailed`, `OnActive`, `OnList`, `OnStopped`, `OnRefused` are what it does with each message, and `LeaveNext` is
one round of `stopOwner`.

Abstractions: a call is handled by the core when it is made, and all the delay is in `inbox`, where an event
may overtake earlier answers (in `core-process.ts` an event is emitted at once, an answer resolves a promise); the
snapshot of the start and its answer are one step; local and remote forwards share one model. `stopAll`, byte counters,
sockets, a reload of the renderer, the removal of a rule, and a `Leave` before its `Open` are left out.

## Runs

| run | module and bounds | shows |
| --- | --- | --- |
| `store_kill` | two appends of up to 2 events, one archive, one create, 3 starts, two clock values, log of 5 lines; clean kills | `CommittedSurvives`, `AckedAsOneBlock`, `ArchiveImmutable`, and that the store implements `DurableLog` |
| `store_faults` | the same with all four fault kinds and fairness | `TypeOK`, `LogReloadable`, `AppendsPublishedInOrder`, `OneHome`, `QueueDrains` |
| `runtime_commands` | 3 user commands, 2 Steps, commands and questions, 1 crash, appends may be refused | `TypeOK`, `EffectsAuthorized`, `DispatchedOnce`, `DecidedOnce`, `EffectsBeforeEnd`, `DeliveredOnce` |
| `runtime_fair` | 3 user commands, every kind of call, fairness | `TurnsDoNotOverlap`, `TurnSettles` |
| `runtime_interrupted`, `runtime_steering` | 2 user commands | two violations, below |
| `stream_follow` | 2 calls of connect or reconnect, pages of one event that the core accepts, 2 events, 1 lost, 1 failing call | `TypeOK`, `PrefixOfLog`, `ConnectReadsAll`, `ShownGrows`, `Follows` |
| `stream_limit` | the code's limits, 1024 and 1000 | a violation, below |
| `terminal_flow` | 2 chunks, gate of 1, pipe of 2, reads of 2, credits 2/1, screen 1/0, two failing calls or reloads | `TypeOK`, `OrderKept`, `CreditsExact`, `PauseAgrees`, `OutputShown`, `EndShown` |
| `terminal_order` | 3 chunks, no fault, no overflow | a violation, below |
| `path_grants` | an upload into `/a`, a deletion of `/a`, a copy of `/b` to `/a/b` from another tab; 3 requests, 1 retry by the setting, 1 cancel call | `TypeOK`, `Exclusive`, `NoOvertaking`, `NothingOverlooked`, `OccupancyOwned`, `StillWanted`, `QueueServed` |
| `forward_serve` | one automatic rule, two owners and the user, two starts in all, one message under way when the core goes on | `TypeOK`, `RowsAgree`, `NothingLeftBehind`, `OwnerlessStops`, `StartReturns` |

Why the bounds are enough:

* Store: a torn tail, its repair and a second crash after it need three starts (a crash during the repair is a fault
  that `store_faults` has and `store_kill` has not);
  a batch of two is the least that a crash can cut between two whole events; two appends are the least that
  can follow each other on a torn line.
* Runtime: a race is between the Turn and at most two commands that a third one (the start) made possible; a
  repeated submission needs the submission, a crash or a commit that is late, the repetition, and the Turn that a start or resume brings. One
  message is enough where the property compares two deliveries of the same one. In `runtime_commands` `MaxSteps` is 2,
  so that the second Step, which takes `nextStep` messages, and the exhausted step budget both occur.
* Stream: a gap needs two events, the first of which is lost; a page of one event makes every read of two take
  two pages with an await between them; two calls are the least that overlap. Which await a call is at decides what
  can go wrong, not the number of events on either side of it.
* Terminal: two chunks are the least that have an order and that fill the credits; every limit is reached with
  them (the gate at 1, the pipe at 2, the credits at 2, the screen at 1).
* Paths: three operations, each of which overlaps the other two or only one of them (the upload and the copy
  do not overlap), are the least in which a free request waits behind a blocked one; the theorems say
  the same for any number.
* Forwards: two starts of one rule are the least that duplicate each other; two owners are the least of which
  one leaves while the other one stays; one message under way can be overtaken by what the store itself does.

Deadlock is not checked in any run: the system stops when the user does nothing more.

### Violations

* `runtime_interrupted`: an interrupt or cancel after the model's answer and before `authorizeTool`
  (1124) or `requestQuestions` (1074) has registered its abort listener is not heard; the Turn waits for the user,
  holding the controller of a Session that the log shows as idle or cancelled.
* `runtime_steering`: messages in the `nextStep` lane when the first Step claims the Inbox are removed from
  it (642-652) and not given to the model (653).
* `terminal_order`: `flush` (`terminal.ts` 243) emits its chunks one await at a time; what the shell
  writes meanwhile is emitted at once and is shown before the rest of the buffer.
* `stream_limit`: the client asks for pages of 1,024 events (`agent-session-client.ts` 14), the core refuses
  more than 1,000 (`agent-runtime.ts` 379); connect always fails. The tests of the client replace the
  transport. `stream_follow` therefore uses a page size the core accepts.

### Fairness

* Store (`AppendStep`, `ArchiveStep`, `LoadStep`; in the runtime `StoreStep`): a file operation completes or fails.
* Runtime: `TurnStep` is fair because the provider and every tool have timeouts and
  promise continuations are run by Node's scheduler; `CommandStep` for the same reason. User commands and
  crashes are never fair: nobody has to decide an approval, so `TurnSettles` ends in a state where the user
  can. Its one exception, `AnswerOvertook`, is what the code does when an answer is committed before the
  question is registered; listing it in the property shows that there is no other.
* Stream: live events arrive, and each call, and the chain `work`, goes on when what it awaits returns. Commits, losses
  and calls of the user are not fair.
* Terminal: the event loops of the three processes run and a page that loads finishes loading. The shell, its end,
  reloads, failures and the user are not fair.
* Paths: one condition per request: the task starts, its command returns with a result or an error, timers fire.
  Nothing is assumed of the user, of progress events or of cancel calls.
* Forwards: the awaits in the core end, one way or the other, messages arrive and microtasks run. Nothing is assumed of
  the user or of owners.

## Proofs

All theorems are checked by tlapm for every value of the constants that the named assumptions of the models
allow (`ConstantsAssumption`, `SentinelsAssumption`, `RuntimeAssumption`, `SentinelAssumption`, `StreamAssumption`,
`OutputAssumption`, `QueueAssumption`, `ForwardAssumption`: types, lower bounds, and that `None`, `Torn`,
`Goal` and `User` are nothing else). TLC evaluates them in every run. The only other hypotheses are
`CleanKills` and `OneCreator` of the store, `~AppendsFail` for one theorem of the runtime, and the page size for one of
the stream.

`Induction` holds what several proofs need and the provers cannot do with the library's induction theorems, which take
a predicate as a parameter: induction stated of a set of numbers (`SetInduction`, from the library's
well-foundedness of `<`), recursion on `0..n`, and that a sequence without repetition is no longer than its range.

### AgentEventStore

| theorem | states | under |
| --- | --- | --- |
| `TypeCorrect` | `[]TypeOK` | every fault, any number of creators |
| `Reloadable` | `[]LogReloadable` | every fault, any number of creators |
| `SingleHome` | `[]OneHome` | every fault, one creator |
| `PublishedInOrder` | `[]AppendsPublishedInOrder` | every fault, one creator |
| `Durability` | `[]CommittedSurvives` | clean kills, one creator |
| `Refinement` | `ImplementsDurableLog` | clean kills, one creator |
| `Atomicity` | `[]AckedAsOneBlock` | clean kills, one creator |
| `ArchiveReadOnly` | `ArchiveImmutable` | clean kills, one creator |

With the other faults or with two creators TLC finds that the code does lose committed events and does cut
acknowledged appends, so these hypotheses are needed where they stand.

`CommittedSurvives` is not inductive: it says nothing of the in-memory record, from which the next append
takes its sequence number, nor of where in the file a running append stands. The inductive invariant is
`Structure /\ Durable`. `Structure` ties the phases of the store together (which of `record`, `queue`, `pc`
and `batch` can be set in each, where the file is). `Durable` says what the lines of the file are in each
phase: with an open store, the file is the record's events, followed by the running batch once it is
written; while loading, the good prefix of the file extends `committed`. Each action has a lemma that shows
it keeps `Durable`; the theorems combine them.

`AgentEventStore_refinement` builds on it. What a restart would find (`Recovered`) is the log of
`DurableLog`, and what readers have been shown is a prefix of it; every step of the store is one of few: it
leaves both alone, it lets the log grow at its end, or it shows more of it. Atomicity adds where in that log the
events of an acknowledged append are, and that nothing can come between them.

### PathQueue

* `TypeCorrect`: `[]TypeOK`.
* `MutualExclusion`: `[]Exclusive`, and `FirstComeFirstServed`: `[]NoOvertaking`.
* `NoneOverlooked`: `[]NothingOverlooked`.
* `NoOrphanedOccupancy`: `[]OccupancyOwned`, and `WaitingIsWanted`: `[]StillWanted`.

The argument has three parts. *Draining* is about `Drain` alone: it grants what it may and nothing else, and
leaves nothing behind that it could grant. *Changing* says of each action what the queue is before it is drained: it keeps what
was granted or ends it (`Kept`), adds one request at the end (`Pushed`), or leaves paths and requests alone (`Still`).
*Steps* puts the two together, one lemma per action. The inductive invariants: `Typed` is `TypeOK` with the
counting of attempts and the fact that sequence numbers after `last` are unused, which keeps a new request
after all others; `Ordered` is mutual exclusion, order and nothing overlooked together, since none of the three
is inductive alone (a drain grants in order because nothing that could be granted was left, and keeps exclusion because it
tests the requests before); `Owned` is stronger than `OccupancyOwned`: a row that is complete by its counters
must have an unsettled task too, or late progress could make it active without one. `StillWanted` is inductive.

### SessionStream

* `TypeCorrect`: `[]TypeOK`, and `CopyIsPrefix`: `[]PrefixOfLog`.
* `ShowsMoreAndMore`: `ShownGrows`, and `ConnectIsComplete`: `ConnectReadsAll`.
* `FailsOnlyIfRefused`: with a page size that the core accepts, a connect fails only if a call did. So the
  disagreement that `stream_limit` finds is the only other reason.

`Typed` bounds everything in the model, live events, pages, cursors and buffers, by what has been committed, and says
that the client's events are `Log(m)` for some `m`. `Gapless` says, while no call has failed, that no process
has entered a resync and that whoever reads on has asked late enough. `Stuck` is the case of a page size that the core
refuses: then no call gets past its first page, and either nothing has been shown that the client does not have or
the client stays empty for good. The models' sort is a choice of a permutation; that it exists is proved by
induction on the length.

### AgentRuntime

| theorem | states | under |
| --- | --- | --- |
| `TypeCorrect` | `[]TypeOK` | |
| `RunsOnce` | `[]DispatchedOnce` | |
| `DecidesOnce` | `[]DecidedOnce` | |
| `RunsAuthorized` | `[]EffectsAuthorized` | |
| `RunsBeforeTheEnd` | `[]EffectsBeforeEnd` | |
| `DeliversOnce` | `[]DeliveredOnce` | |
| `TurnsSeparate` | `[]TurnsDoNotOverlap` | no append fails |

The Inbox is a recursive function of the length of the log; that it is defined for every log, its type, and what it
holds (`InboxHolds`: messages submitted to the lane and not claimed since, each once) are
inductions over that length. Then every step is shown to be one of a dozen *forms* (`Steps`): a commit, a command
that is served, a decision, a restart, or one of the eight forms of a step of the Turn. A form says what can
happen to the queue (its head leaves, entries join at its end), to the Turn and to the pending maps, and forgets the rest;
the invariants are proved for forms and not for the twenty-odd actions.

`Base` is the invariant everything else rests on: `TypeOK`; `Owned`, what each entry of the queue is and whose
it is, at most one being the Turn's, with the events that its `pc` says; `Held`, which `pc` the Turn
can be at while a decision is pending. On it stand `Dispatches /\ Effects` (a call's dispatch record is in the log, or underway, or the
Turn has not reached it, and only one of the three), `Decisions` (one verdict for each call, in the log or in the queue, and then none can
follow), `Calls /\ Authorisations` (between the record of a call and its dispatch there is an approval or a mode that asks for
none) and `Endings` (a `session/ended`, in the queue or after the last `turn/start` of the log, means that the Turn has been aborted).

`Separate` says of each `turn/start` in the log that its Turn has written its `turn/end` since, or the process has been
restarted since, or it is the Turn that runs and its end is not in the log yet; the next `turn/start` can be committed only when the last
is not the case. It needs that a Turn leaves only when its end is committed, and that is not so when appends fail: then
a Turn whose `turn/end` was refused gives the controller back (`Refused`), and the next one starts
with no end before it. TLC finds such a history when `TurnsDoNotOverlap` is added to `runtime_commands`.
That an archived log refuses does no harm, as nothing is written to it afterwards.

For `DeliveredOnce` the log is read as a ledger. `Submissions`: what is put in the Inbox is a message of the user.
`Deliveries`: what has been given was submitted to a lane and claimed
from it later, and what is about to be given has not been given, and is claimed by an event before it in the same append, so that a crash
in the middle of the append cannot give without claiming. A Step that begins is fresh by `InboxHolds`: of what it finds in the Inbox,
a message that the log shows submitted once (`Once`) waits once and has no claim after its submission, so it has not been given.
`Enqueue` looks at the log only, as the code does, so that `Once` has to be a hypothesis of the property; a submission
repeated after the first was committed, with crashes in between, is refused and needs no hypothesis.

### TerminalOutput

| theorem | states |
| --- | --- |
| `BaseHolds` | the inductive invariant below |
| `TypeCorrect` | `[]TypeOK` |
| `StaysInOrder` | `[]OrderKept` |
| `NeverTwice` | no chunk is shown twice, also where one overtakes a flush |
| `CreditsCorrect` | `[]CreditsExact` |
| `PausesAgree` | `[]PauseAgrees` |

An event of the output is in one of five places, one behind the other: held by the Session, on the wire, on its way to
the page, on the screen, acknowledged. `Pipe` says of a relation that it holds between each event and all those behind it, within
and across the places. For "is another one" that is so always, and `NeverTwice` follows; for "is an earlier
one" until output overtakes a flush, and `OrderKept` follows. Every step moves a head to the next place, so one lemma serves
both relations. `Gate` says what the buffer and the hands of waiting flushes hold, `Conserved` that a
chunk is in one of the places or recorded as lost. `Credits` and `Believed` are two more invariants on top.

The proof of `PausesAgree` did not go through at first: with two failing calls a pause can be queued behind
the one that fails, and neither is repaired. `terminal_flow`, which then had one failure, could not see it; it has two now, and
`Forgets` lists the case (see the observations).

### PortForward

* `TypeCorrect`: `[]TypeOK`.
* `ReleasesAll`: `[]NothingLeftBehind`.
* `RowsAgreeAtLast`: `[]RowsAgree`.

`Base` ties the two ends together: an answer finds its caller where it waits, nobody gets two answers,
and each start that the core works on is awaited by exactly one call. `Releasing` says, for each state of a forward's
`start` and for the stops at work on it, which of server, connection and map entry it can have. `RowsAgree` speaks only
of moments when nothing is underway, so it is far from inductive; `Agreeing` says for every moment that somebody still
owes an answer about the forward, or that the last message underway that says something of it, or else the row
itself, says what is so in the core (an active state only of a forward that is in the map and in that state), and that
those before it are overwritten. For the answer of a stop it needs `Halting`: when `stopOne` answers, the forward is
stopped, or a start that went on has it in the map again.

### Only model-checked

* Liveness (`QueueDrains`, `TurnSettles`, `Follows`, `OutputShown`, `EndShown`, `QueueServed`, `OwnerlessStops`,
  `StartReturns`): the prover has no rule for fairness and ENABLED.
* The four violations, which are counterexamples.

## Observations

What the models showed of the code beyond the four violations, mostly as the reason for an exception in a
property or an assumption of a run. Each can be reproduced by removing that exception.

* Store. A write or fsync that fails part-way (`agent-store.ts` 246) leaves bytes in the file; the next
  append continues them, is acknowledged, and the next start quarantines the Session (`AckedAsOneBlock` with
  write errors). `create` (200) publishes the creation events without the fsync that
  `docs/migration/stage-6-completion.md` 22 describes; after a power loss the Session may be empty or gone.
  A repair rewrites the whole log in place (117): a kill in that rewrite loses committed events, against
  `docs/migration/stage-6-completion.md` 22, "truncates only a malformed final record". A kill that cuts a write
  exactly between a line and its newline leaves a line that the next start reads as an event; the next append runs into
  it, and the start after that discards both or quarantines the Session. `store_kill` and the theorems under `CleanKills`
  leave both kills out.
* Runtime. `start` tests that the Session has not ended (579) before two awaits; a cancel in between is
  overrun and the Turn runs. `EffectsBeforeEnd` allows this one case. `enqueue` (421-430) looks a submission up among
  the committed events only: when the renderer has waited 15 s for an append (`agent-session-adapter.ts` 421-454) and the
  user sends the message again before it is committed, both are appended and the model is given the message twice.
  `DeliveredOnce` leaves out what was submitted twice in this way (`SubmittedTwice`).
* Stream. After a rejected `subscribe`, `buffering` stays true (not modelled). A failed reconnect leaves the adapter's
  subscribers without a subscription; two overlapping reconnects leave a listener registered that
  nobody removes. `ConnectReadsAll`, `ShownGrows` and `Follows` therefore leave out behaviours in which a call failed,
  and `Follows` the events that were lost.
* Terminal. The limit of the gate is not tested while the session is paused (`terminal.ts` 233). Output
  held by the gate when the session finishes is discarded. A session that ends before its controller has
  subscribed stays `connecting`. A pause call that fails with another one behind it, or after
  a resumption that failed too, and a resume call that fails while the entry is `connecting`, leave the Session paused for
  good, with a controller that believes it is not (`"forgotten"`).
* Paths. The root overlaps nothing but itself. The X of a running row hides the row and stops nothing. When the
  cancel call itself fails the row reads failed while its command runs on, and a retry then repeats a
  completed transfer. After a part of a batch failed, `addOperation` (`useSftpConnection.ts` 621) overwrites
  `cancelling` with `running`, so that another attempt is made after the user has cancelled, against the comment at
  `transferStore.ts` 297. A retry of a remote copy starts with the old counters.
* Forwards. A forward stopped while its `listen` is awaited (`port-forward.ts` 138) is set back to
  `running`, with its SSH connection closed and its port held; the row says running too, so that a second stop
  releases it. Two starts of one rule can both be `starting`, because the test (55-85) precedes an await, against
  the "duplicate protection" of `docs/migration/stage-4-completion.md` 25; the second fails to listen.
  `stopOwner` keeps a copy of the owners across awaits (`portForwardStore.ts` 284-299): with two rules, an
  owner that joined meanwhile is overwritten and its forward stopped. An owner that closes while its own
  `startAutoForOwner` still runs is added afterwards and its forward runs on, against the comment at 203-205. That
  the SSH connection was lost is not noticed.

## Not modelled

The implementation has 84,468 lines, most of which have no state worth a model: generated types, the
two locales, React components and view projections, provider adapters, protocol and file I/O. The modules cover the
parts in which the order of asynchronous steps decides what is correct; a coverage of 30% of the lines is not within
reach of faithful models, since the control of the whole program is less than that. Of what has state, the following is left out:

* subagents and the Fleet, the compare-and-set commands on the Inbox, renaming and the recovery checkpoint of the
  runtime: they share its log and its await structure and would multiply the states of `AgentRuntime`; each needs a module of its own;
* the Core process host, storage recovery and the credential vault: planned;
* the directory of Sessions (`MAX_SESSIONS`) and artifacts of the store;
* the SFTP pool, the SSH connector and host trust: mostly I/O of `ssh2`.

## Plan

1. Proofs: every safety property that a passing run checks has its theorem. What remains is the refinement of item 4,
   step by step, and the theorems of the modules below.
2. `AgentInbox` and `AgentRecovery`: the CAS commands and the checkpoint of `projectRecovery`, with the
   property that an effect whose outcome is unknown is reported.
3. `CoreRpc`, `StorageRecovery`, `CredentialVault`.
4. `AgentRuntime`'s queue as an abstraction of `AgentEventStore`: `Commit`, `Refused`, `Rename` and `Crash`
   as steps of a common abstract module that both implement.
