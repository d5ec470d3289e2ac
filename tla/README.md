# Styr in TLA+

Styr is a server that runs coding agents. A *session* is a conversation with an
agent CLI (Claude Code or Codex), run as a child process in a workspace. On top
of sessions sit *runs* (one unattended session with a report), *loops* (runs in
a row), *pipelines* (a graph of runs), *triggers* (webhooks that start runs) and
*schedules* (cron lines that start runs). This directory holds TLA+ models of
the parts of the server that are hard to test, TLC runs that check them on small
instances, and TLAPS proofs of the main results for every value of the
constants.

Paths below are relative to the root of the repository.

## 1. Inventory

| Component | State | Operations | Talks to | Correct when |
|---|---|---|---|---|
| **Sessions service** `internal/sessions/{service,runner,scheduler,approvals,model}.go` | `procs`, `closing`, `starting` under one mutex; a semaphore of process slots; the state column of every session row; approval rows | `Create`, `Send`, `SwitchModel`, `Close`, `Interrupt`, `Decide`, `Shutdown`; one pump goroutine per process; the maintenance loop (`reapIdle`, `expireApprovals`) | the harness (start, send, decide, close, event channel), the database, the bus | no process and no slot is ever lost, never more than `max_open_sessions` processes, one process at work per session, one answer per permission request, every close and every wait ends |
| **Harness** `internal/harness/claude/process.go` | a child process, its stdin, a bounded event channel | `Start`, `Send`, `Decide`, `Interrupt`, `Close`; a reader goroutine that ends with the exit event | the CLI | the exit event is the last one, and gets through once stdout is at its end |
| **Pipelines** `internal/pipelines/{executor,advance}.go` | rows of pipeline runs and step runs, one mutex | `Start`, `Cancel`, `RetryFailed`, `Tick`, the handler of `run.finished`; `advanceLocked` | the runs engine, sessions, the bus | success means every node succeeded, no step starts before what it needs, retries stay in budget, every run ends |
| **Runs and loops** `internal/runs` | run and loop rows, a set of runs already finished | `Start`, the bus loop, the timeout sweep, loop iterations, `Stop` | sessions, the bus, notify | a run is closed once and keeps its outcome, a loop has one running iteration and ends |
| **Pipeline definitions** `internal/pipelines/def.go` | none | `Validate`, `topo`, `Graph` | the executor | a definition is accepted if and only if it passes the checks, and its steps with ids are ordered |
| **Triggers** `internal/triggers` | trigger and delivery rows | `Deliver`, `Replay`, `Test`: dedupe, cooldown and storm cap; CRUD | runs, pipelines | overlapping calls exceed the gate by no more than their number, every run has its delivery |
| **Schedules** `internal/schedules` | schedule rows and firings | `Tick`, `RunNow`, `Create`, `Update`, `Delete` | runs, pipelines | a schedule does not overlap itself and fires once per fire time of its cron, when that has any |
| **Event bus** `internal/events/bus.go`, `api/events_handlers.go` | a buffered channel per subscriber, a counter of drops | `Publish`, `Subscribe`, the returned unsubscribe, the stream handler | everybody | nothing is sent on a closed channel, nobody waits, every loss is counted |
| **Notifications** `internal/notify`, `api/notifications_handlers.go` | channel rows | `Create`, `Patch`, `Delete`, `Test`; `Publish`, `Send` | the runs engine, other servers | every channel is tried, and retried at most once |
| **Resources** templates, triggers, schedules, pipelines | rows with an owner and foreign keys | `Create`, `Update`, `Delete` of each | — | nothing refers to what is gone, nobody changes what is another's |
| **Access** `internal/auth`, `api/middleware.go`, users, tokens | users, login sessions, API tokens, credentials, a cached runtime per provider | `BeginLogin`, `CompleteLogin`, dev login, logout, roles, token and credential handlers | an OIDC provider, a verifier | one bootstrap admin, an admin remains, a session belongs to the login that asked for it |
| **Workspaces** `internal/workspaces` | workspace rows, access lists, directories | `Create`, the clone goroutine, `Retry`, `Update`, `SetAccess`, `Delete` | git, sessions | a ready workspace has its directory, an active session keeps it |
| **Worktrees and review** `internal/sessions/{worktree,review,review_actions}.go`, `internal/gitops` | worktrees, branches, checkpoints, review comments | attach, checkpoint, `Commit`, `Rewind`, `Discard`, `AddComment`, `SendReview` | git, sessions | work is lost only when a reviewer or the agent deletes it, a comment marked sent was delivered |
| **Codex harness** `internal/harness/codex` | the turn in flight, its child, a bounded channel | `Send`, `Interrupt`, `Close`; a goroutine per turn | the CLI | one result per turn, the exit event is the last |
| **Backup, restore, serve** `cmd/styr` | the data directory: database, log, pid file, archive | `backup`, `restore`, `serve` | the file system, SQLite | what the server wrote survives a bad restore |
| Database layer `internal/db` | SQLite | statements | — | conditional updates, unique indexes and foreign keys decide races |
| Stats, risk, template rendering, config, crypto, doctor, wiring, web | — | text, reports, I/O | — | not modelled: see section 8 |

What is hard here: many goroutines share the registry of processes and drop the
lock between looking and acting; the state column is written by callers, pumps
and the maintenance loop without a common lock; children exit at any moment and
may keep a pipe blocked; the bus drops messages; the server may stop between any
two writes and every component is expected to pick up from its rows.
`PROJECT.json` lists these hazards at the lines where they bite.

## 2. Plan

Done, in this order: `Sessions` with its abstract pool of slots `SlotPool`, and
`Pipelines`, both checked and proved; then, checked, `Runs`, `Triggers`,
`Schedules`, `Resources`, `Access`, `Workspaces`, `Worktrees`, `Codex`,
`Backups`, `Definitions`, `Bus` and `Notify`; then the proofs about `Runs`,
`Access`, `Bus` and `Schedules`, `Resources`, `Triggers`, `Notify`,
`Definitions`, `Codex`, `Backups`, `Workspaces` and `Worktrees`. Every safety
property that a passing run checks is now stated by a theorem.

Left:

1. An abstract `Process` that both the harness processes of `Sessions` and
   `Codex` implement: the exit event is the last, a turn has one result.
2. `Runs` in the place of the action `FinishOfRun` of `Pipelines`, and the fault
   "a write fails" for `Pipelines`.
3. `Snooze`, which needs deadlines in `Sessions`, and `CreatePR`.

## 3. Modules

| Module | What it is |
|---|---|
| `Sessions` | the sessions service, its harness processes and approvals |
| `SlotPool` | abstract specification: a pool of slots, each with one owner, handed from the thread that starts a process to the process's pump |
| `MCSessions` | instances of `Sessions` for TLC (symmetry of callers and processes) |
| `SessionsProofs` | the proofs: types, registry, slots, approvals and the theorems |
| `Pipelines` | the executor, one pipeline run, and the runs it starts |
| `PipelinesProofs` | the proofs about `Pipelines` and `Definitions` |
| `Definitions` | `Validate` and the order of the steps of a definition |
| `MCPipelines` | instances of `Pipelines` and `Definitions` for TLC |
| `Runs`, `RunsProofs` | the runs engine: runs, their sessions seen from outside, loops |
| `Resources` | templates, pipelines, triggers and schedules as owned rows that refer to each other |
| `Triggers` | deliveries to one trigger |
| `Notify` | notification channels and the events that go out to them |
| `MCOutside`, `OutsideProofs` | instances of `Resources`, `Triggers` and `Notify` for TLC, and the proofs about them |
| `Schedules` | one schedule, its ticker and its operators |
| `Bus` | the event bus and the streams that read from it |
| `MCBackground` | instances of `Schedules` and `Bus` for TLC |
| `BackgroundProofs` | the proofs about `Schedules`, `Bus` and `Codex` |
| `Access`, `MCAccess`, `AccessProofs` | logins, roles, tokens and credentials |
| `Workspaces` | workspace rows and the directories behind them |
| `Backups` | the data directory under `serve`, `backup` and `restore` |
| `MCHost`, `HostProofs` | instances of `Workspaces` and `Backups` for TLC, and the proofs about them |
| `Worktrees`, `MCWorktrees`, `WorktreesProofs` | worktrees that sessions share, and reviews |
| `Codex` | one process of the Codex harness |

`MCPipelines`, `MCOutside`, `MCBackground` and `MCHost` each hold components
that share no state. A variable `part`, chosen at the start, says which of them
a behaviour is of; the others stay as they began. What TLC explores is the union
of the components' states, not their product, and each property is about its
own part.

Definitions called *mutant* in a comment are not part of a model: each is a
plausible bug of the definition that follows it, and shows that a property
would catch it.

### Sessions

A goroutine is a thread with a program counter `pc`, the name of its call `op`
and its local variables (`sid` the session, `pid` a process, `rid` a request,
`vid` the session it is about to close). An action is the code between two
points where another goroutine can get in: a critical section of `Service.mu`,
one database statement, one channel operation, one write to a child.

| Code | Actions |
|---|---|
| `Create`, `Send` with `waitForStartingProcess` | `Create`; `Send`, `SendLocked`, `WaitForStartingProcess`, `Deliver`, `Unmark` |
| `startProcess`, `slots.acquire`, `evictOldestIdleUnattended`, `registerProcess` | `Acquire`, `Evict`, `CloseTracked`, `AwaitGone`, `CloseCancelled`, `AcquireWait`, `HarnessStart`, `RegisterProcess`, `DropDuplicate`, `StartSetRunning`, `StartSend`, `StartFailed` |
| `SwitchModel`, `closeLiveProcess` | `SwitchModel`, `CloseLiveProcess`, `CloseLiveProcessWait` |
| `Close`, `Interrupt` | `Close`, `CloseLocked`, `CloseStdin`, `CloseSetState`; `Interrupt` |
| `pump`, `handlePermission`, `handleExit`, `unregisterProcess` | `PumpToolUse`, `PumpResult`, `HandlePermission`, `PumpPermissionState`, `HandleExit`, `ExitSetState`, `UnregisterProcess`, `ReleaseSlot` |
| `Decide`, `expireApprovals` | `Decide`, `DecideSetRunning`, `DecideLookup`, `DecideTell`; `ExpireList`, `ExpireDecide`, `ExpireLookup`, `ExpireSetState`, `ExpireTell` |
| `reapIdle`, `Shutdown`, startup of `serve` | `ReapIdle`; `ShutdownBegin`, `ShutdownClose`, `ShutdownSetState`; `Restart` |
| the CLI (external) and the reader goroutine | `ChildToolUse`, `ChildAsk`, `ChildResult`; `ChildExit` |
| a stdout that stays open, a `write` that does not return | `Hold`; `Jam`, `JamEnds` |

Abstractions. Messages, transcripts, costs and access checks are left out, and
so is `Snooze`, which moves a deadline the model does not keep: whether a
session is idle for long enough is a nondeterministic choice. A child works on a
number of turns, may use a tool, ask for a permission, answer or exit; it exits
at any time, and must exit once its stdin is closed, since `process.Close` kills
it after ten seconds. Three things may come between. A request that is cancelled
makes `Close` kill the child and return at once (`killed`), so that a duplicate
may still be dying when its slot is given back. A process that a tool left
behind may keep stdout open (`held`): the exit event comes only at its end, and
whoever waits for it waits for ever. A child may stop reading with a write to it
under way (`jammed`): the write holds `p.mu`, which `Close` needs first, until
the child is gone. A database error is modelled where the code has a path that
makes up for it (a start that fails, an approval that cannot be recorded).

### Pipelines

All operations of the executor hold `e.mu`, so `pc` is the position of the one
that holds it, `at` the step `advanceLocked` has come to. Each write to the
database is an action of its own, because the server may stop between any two
(`Restart`). Runs finish at any time (`FinishOfRun`, the runs engine seen from
outside), and the message that says so may be dropped.

| Code | Actions |
|---|---|
| `Start` | `Start`, `CreateStepRun` |
| `advanceLocked`, `expand`, `startStep`, `settle` | `Expand`, `ExpandItem`, `StartStep`, `StartStepFails`, `MarkRunning`, `NextStep`, `Settle` |
| `stopSteps`, `finishRun` | `StopStep`, `FinishRun` |
| `handle`, `completeStep` | `Handle`, `CompleteStep`, `CreateRetry` |
| `Tick`, `reconcile` | `TickTimeout`, `Tick`, `Reconcile` |
| `Cancel`, `RetryFailed` | `Cancel`; `RetryFailed`, `ReopenStep`, `Reopen` |

A step run is `<<s, i, a>>`: attempt `a` of item `i` of step `s`, steps numbered
in yaml order. `Validate` enforces that a step with an id (`Named`) needs only
such steps before it, which `DefinitionOK` assumes; of a step without one it
leaves the needs unchecked, and so does `DefinitionOK`. The rows of all steps
without an id are those of one node (`Node`), and one whose needs never succeed
is passed over by `settle`, or keeps a run waiting that was retried (`Stuck`).
What a `foreach` renders to is a choice: no list or too long, empty, or up to
`MaxItems` items. `torn` is a history variable: the server stopped while the
lock was held. Reports, costs, worktrees, a database that fails, and a
definition that stops parsing under a running run are left out.

### Runs

A thread is a caller of `Start`, the engine's goroutine (bus loop and sweep take
turns in one `select`), or an operator's `Stop`. `outcome` holds the run rows,
`loop` the loop rows, `completed` and `notified` the two sets in memory that a
restart empties, `queue` and `sess` what the session still does and its state.
`finish` is followed write by write: the once-set, `Runs.Finish`, the bus, the
verdict of the loop, the next run row, `Loops.Update`, `Send`. The bus holds
`MaxBus` messages and drops the rest; a `DbFails` call lets a write fail. `lost`,
`torn`, `revived` and `stray` are history: a run whose closing write failed, a
loop that a restart or a failure left between two writes, a loop that
`nextIteration` set to running after it had ended, a session that a failed start
could not close. A start that cannot write its run closes the session
(`CloseOrphan`) and fails the loop (`FailLoop`); each may fail on its own.

### Resources, Triggers, Schedules, Notify

`Resources` gives each kind of row its owner and its references. A request reads
and checks, then writes; between the two, another request may do anything.
Foreign keys and the unique slug are those of the migrations, at the statement
that meets them; the row of a pipeline run keeps its trigger as a text, which is
no key. `Triggers` follows one delivery from the lookup of the slug to
`failDelivery`, with the clock that cooldown, dedupe window and storm cap are
measured by; the trigger is rotated, disabled or deleted meanwhile. What a
payload normalizes and renders to is its dedupe key, a model value. `broken` are
the deliveries whose pipeline run was created although its start failed.
`Schedules` counts seconds; a cron line is of one of four kinds: one with dates
(the multiples of a number), `@every`, one that fits no date, whose next run is
the zero time, and one that no longer parses. The ticker reads the due rows,
looks for an overlap, starts, records the firing and plans the next run, each a
step. `Notify` keeps channels, who wants an event, and the posts each channel
got, with what came of them: reached, refused, failed, or lost after it arrived.

### Bus

Publishers hold the read lock for one send per subscriber; `Subscribe` and the
body of the `sync.Once` take the write lock. The stream handler reads, and may
hang in a write to its client; the goroutine of `Subscribe` watches the context.
`unseen` counts, beside the code, what each reader should have got.

### Access

A request is a thread that goes through the middleware and one handler. Browsers
hold the two cookies; the provider answers a flow with any subject. Kept are the
lock of the first user, the runtime built outside the lock, state and login
rows, roles, API tokens, and the credential that is verified, stored and marked.
Hashing, expiry and cookie attributes are left out.

### Workspaces, Backups

`Workspaces` has a thread per call and clone, a row per workspace and a `disk`
that says what is in each directory and who put it there. `harm` names the ways
a workspace was hurt by what the code does not exclude (a shared directory, two
calls that crossed, a write lost halfway, a session that came late, a failed
creation whose row was left because the `DELETE` failed as well); each
property names the ways it excepts, so it says that there are no others.
`used` are the rows that a template or a pipeline refers to.
`Backups` has a process per command and a file per path; a rename, a write, an
open, a vacuum is one step, and a kill may come between any two. Only the stat
and the rename of `replaceDatabase` are one (`Aside`). SQLite is taken as the
code uses it: an open makes the file if there is none, applies the log that lies
beside the path, and deletes it beside an empty file; `backup` looks for the file
first (`StatSource`) and opens it later (`vacuumBackup`), and counts as having it
open until it closes. `mishaps` plays the part of `harm`; `alone` is the server
that runs without another.

### Worktrees

Sessions attach to worktrees, turns create and delete files, checkpoints save
them, and the calls of the review do to the worktree what their git commands do,
one command a step. What a process does (`turn`) and what its row says (`state`)
are apart, as in the code: a message to a live process leaves the row as it is
until the pump hears of a tool use (`Uses`) or a permission (`Asks`), the pump may
write *open* over a turn that has just begun (`Opens`), and late writes of other
calls may do so too (`Overwrites`). `late` is the set of sessions that came, or
went on, after a call had looked; `dropped` the files an agent has deleted;
`again` the comments that overlapping reviews carried twice.

### Codex

Each turn is a child with a pipe, read by its own goroutine, which emits the
codec's events into the bounded channel, waits for the child and, when the child
told no result, makes one up. `Send`, `Interrupt` and `Close` hold `p.mu` between
their waits. `held` is a child whose own child keeps the pipe open.

### Definitions

A definition is a list of steps with ids, needs, a worktree mode and retries,
and the few facts of its text a check asks for. `topo` proceeds level by level as
the code does, by in-degrees; the properties are stated over graphs. `Passes`
says what `Validate` asks of a text, apart from the order in which it asks.

## 4. Runs

Pass (states as counted by TLC; each takes about a minute with two workers). The
cfg names conjunctions, so that one pass over the states checks all of a part's
properties; in brackets are their conjuncts, each a definition of its own with
its own mutants:

| Run | Instance | Checks |
|---|---|---|
| `SessionsEvict` | an attended and an unattended session, 1 caller, 3 processes, 1 slot; `Create`, `Send`, `SwitchModel`, `Close`, shutdown, restart, cancelled requests; 1.4M | `LiveBounded`, `RegistryFollows` (`NoOrphan`, `PumpOwnsEntry`, `ClosingIsTracked`), `ImplementsSlotPool` |
| `SessionsApprovals` | 1 session, 2 callers, 2 processes, 2 slots, 1 request; `Create`, `Send`, `Close`, `Interrupt`, `Decide`, expiry; 2.0M | `AnsweredOnce`, `OneWorkingChild` |
| `SessionsExpiry` | 1 session, 1 caller, 2 processes, 1 request, 1 slot; the sweeps, restarts, held output, blocked writes; 85k | `SweepsEnd` (`PendingEnds`, `ReapEnds`), `WaitsEnd` (`ClosingEnds`, `StartEnds`): stale approvals expire, idle processes are closed, every close completes, no call waits for ever |
| `PipelinesEnds` | a fan-out of up to 2 items, a step behind it and a fan-out without an id that needs no step there is, 2 runs, 1 automatic and 1 manual retry; cancel, timeout, drops, restarts; definitions of up to 3 steps for `Validate`; 430k | `SuccessMeansAll`, `DepsFirst`, `AttemptsOK` (`AttemptHistory`, `RetryBudget`), `OverIsOver`, `RunEnds`; `TopoOK` (`LevelsOrder`, `CyclicIsCyclic`), `ValidateOK` (`AcceptsExactly`, `AcceptedIsOrdered`) |
| `RunsFinish` | 1 loop of 2 iterations, a bus of 1 message, 2 approvals, 1 restart, failing writes, `Stop`; 437k | `RunsOK` (`OneRunning`, `NoOrphanSession`, `NotifiedOnce`, `PagedOnce`), `LoopVerdict`, `OutcomeFinal`, `WorkEnds` |
| `OutsideCalls` | 2 calls in flight; 1 template, 1 pipeline, 2 triggers, 1 schedule, a member and an admin, 3 requests, slugs with 2 suffixes; 3 deliveries of 2 keys on both sides of a clock tick, cap 1; 2 channels, 3 changes, 1 event; 1.3M | `ResourcesOK` (`RefsExist`, `SlugsUnique`), `RequestsOK` (`SlugFixed`, `OthersUntouched`, `AnswerHonest`); `GateBound` (`StormBound`, `DedupeBound`), `DeliveriesOK` (`AcceptedHasRun`, `RunHasDelivery`); `PublishOK` (`EveryChannelTried`, `RetriedOnce`), `ChannelAsAsked` |
| `BackgroundWork` | a cron line of each of the 4 kinds, 4 seconds, 2 runs, 1 call of an operator, 1 failure; 1 publisher of 2 messages, 2 readers with 1 place each; 306k | `SchedulesOK` (`OneAtATime`, `NextFollowsCron`), `FiresOnce` (`OncePerFireTime`, `DueFires`); `BusOK` (`NoSendOnClosed`, `DropsAccounted`), `BusEnds` (`PublishEnds`, `SubscriptionEnds`) |
| `AccessBootstrap` | 2 threads, 2 browsers, 2 subjects and the dev user; an empty server, one at the provider, one with users; 188k | `AccessOK` (`LockInside`, `AdminRemains`, `DevNeverConflicts`, `OneRuntime`, `StoredIsVerified`), `SessionBelongs`, `OneBootstrapAdmin` |
| `HostFiles` | 2 workspaces of one slug, 2 threads, 4 calls; 2 servers with a backup and a restore, or 2 restores of 2 versions; 1.0M | `WorkspacesOK` (`ReadyHasDir`, `CloningHasJob`, `AccessAsAsked`), `KeptUnderSession`; `RestoreOK` (`KeptAside`, `NeverMixed`, `ManifestTells`, `NotNewer`), `ServerIsSeen` |
| `WorktreesReview` | 2 sessions, 2 threads, 1 file, 2 comments, 3 calls and reviews, 1 fault; comments are about one session, so a state with one has no other (`ReviewOfOne`); 1.4M | `NothingLost`, `LeftAlone` (`RemovedNotInUse`, `NotMidTurn`), `ReviewOK` (`SentMeansDelivered`, `DeliveredOnce`) |
| `CodexTurns` | 2 turns, 2 callers, 3 calls, a channel of 1; 196k | `EventsOK` (`ExitIsLast`, `OneResultPerTurn`, `InterruptedWasAsked`, `ResultIsKnown`, `OneConversation`, `ExitCodeOfLastTurn`), `CloseEnds` |

Each `...OK` also holds its module's type invariant where there is one.
`WorkEnds` of `Runs` is `<>[](NoRunLeft /\ NoLoopLeft)`: with the bounds on what
is begun, from some moment on every run has an outcome and every loop is over,
but for what a failed write (`lost`) or a stop between two writes (`torn`,
`revived`) left behind.

Violation (it refutes a sentence of the repository, quoted in `PROJECT.json`
under `findings`):

| Run | What TLC finds |
|---|---|
| `ExitFinalizes` | The pump runs before `startProcess` writes *running*. A child that exits at once is finalized first, and the late write leaves the session *running* without a process. |

Other known disagreements. These definitions state what a comment of the code
says, and TLC refutes each when it is named in the cfg of its module's run:

| Definition | Comment | What TLC finds |
|---|---|---|
| `Sessions!SwitchStrandsNothing` | `model.go:23` | `SwitchModel` refuses a session that is *waiting*, but the pump may move it to *waiting* after the check: the process that asked is closed and its approval stays pending. |
| `Sessions!IdleEnds` | `scheduler.go:126` | An approval that expires after its process is gone moves the session to *open*; `reapIdle` only closes sessions that have a process. |
| `Pipelines!OwnResult` | `advance.go:203` | `Cancel` then `RetryFailed` puts the same step run back to work with a new run. The result of the first run, still on its way, completes it. |
| `Runs!OwnReport` | `runs/loop.go:162` | The reconciliation after `Start` and a late message can close a later iteration from the result of an earlier one. |
| `Runs!StoppedStays` | `runs/loops.go:331` | `nextIteration` sets the loop to running without looking: a loop stopped meanwhile goes on. |
| `Resources!OwnershipWidens` | `triggers/templates.go:60` | An update that read the template before an admin shared it writes the old owner back. |
| `Workspaces!LeftoverOnly` | `workspaces/service.go:515` | Two names with one slug share a directory: the Retry of one removes the clone of the other. |
| `Worktrees!NotUnderneath` | `review_actions.go:23` | `Commit` and `Rewind` look at their own session only; another one that shares the worktree may be in the middle of a turn. |

Bounds. Two callers are enough for every race between two requests; the janitor,
pumps, tickers and engines are threads of their own, and three processes let a
session have a process, its duplicate and a successor. Channels of one place are
full as often as possible. One slot makes every start compete; two slots are
needed for a duplicate. For pipelines, two items make a partial fan-out, a
partial stop and a parallel failure possible; a start when no run is left fails,
as a start may anyway. Two iterations are the shortest loop with a next one. A
storm cap of one whose window is a single unit, a cooldown of one and a dedupe
window of two let deliveries fall on both sides of the first two edges; the far
edge of the dedupe window is beyond the clock of the run. Two turns are needed
for a stale flag and for a resumed thread. One fault, restart or kill per
behaviour may come at any step. Where a system may really stop, because calls
are bounded or all work is done, deadlock is not checked.

Also seen while modelling, without a run of its own (in the models; a property
that such a behaviour would break names it as its exception):

- `Close` during a start finds no process (it does not look at `starting`),
  writes *closed* and returns; after `Create` the process then lives on under a
  closed session (`service.go:316`: "A closed session has no tracked process").
- `Send` to a live process leaves the row *open*, so eviction and the reaper may
  take a process that is at work for an idle one (`scheduler.go:69`). So does
  `busy`: until the first tool use a `Commit` or `Rewind` passes it in the middle
  of a turn, as it does when the pump writes *open* over a turn that has begun
  (`runner.go:95`), or after a permission that could not be recorded has made the
  row *failed* (`docs/REVIEW.md:102` says both are refused while it is running).
- A request that is cancelled while it drops its duplicate kills the child, does
  not wait for its end and gives the slot back (`process.go:160`,
  `service.go:706`): for a moment there are more processes than
  `max_open_sessions`.
- A process that a tool leaves behind with the stdout of the CLI open keeps
  `Close` waiting for ever, and so does a write to a child that does not read,
  which holds the lock `Close` needs (`process.go:115`). One such process stops
  the maintenance loop for all sessions, and `Shutdown`.
- `Decide` answers the process the session has now, which need not be the one
  that asked (`approvals.go:64`).
- `RetryFailed` on a pipeline run that timed out reopens it with its old
  `started_at`; the next sweep times it out again.
- `RetryFailed` on a `foreach` step that could not be expanded starts the step
  once, without an item, instead of expanding it.
- `docs/PIPELINES.md:67` says a step's `id` is required and `:82` that a need of
  an unknown id fails; `Validate` accepts steps without an id and leaves their
  needs unchecked (`def.go:282`), and a definition of no steps. Such a step never
  starts when it needs what is not there: `settle` sees only rows that exist
  (`advance.go:170`) and ends the run as a success without it.
- `pipelines.Start` may fail after it has created the running pipeline run
  (`executor.go:419`): its delivery then says *failed* (`docs/TRIGGERS.md:149`: "a
  run that fails to start"), and a schedule has no firing that names the run, so
  that the next tick may start another (`docs/SCHEDULES.md:56`: "A schedule never
  runs two of its own instances concurrently"). `RunNow` does not look at all.
- `docs/PIPELINES.md:262` lists as a known gap that a pipeline schedule never
  skips on overlap and piles up concurrent runs. The code has closed it: with the
  reader that `cmd/styr/wire.go` sets, `overlapping` looks at the pipeline run
  (`tick.go:92`).
- A cron line that fits no date, such as `0 0 31 2 *`, is accepted; its next run
  is the zero time, which is stored and due at every tick (`crud.go:39`, `:115`,
  `tick.go:77`), although `tick.go:68` means to keep a schedule without a next run
  from looping.
- A trigger of a pipeline can never be updated: `db/triggers.go` writes its empty
  template id as a text, which the foreign key refuses. Templates and pipelines
  that have ever started a run, and triggers that have started the run of a
  template, cannot be deleted, although comments speak of a cascade; a trigger
  that has only started pipeline runs can, since these keep it as a text.
- A start that cannot record its run closes the session and fails the loop, and
  only logs that either failed (`runs.go:201`, `:224`, `:229`): a session then
  works on with no run, or a loop stays *running* (`stray`, `torn`).
- If `Runs.Finish` fails, the run keeps its place in the once-set and nothing in
  this process closes it (`WorkEnds` needs `lost`).
- An accepted delivery whose run was never started, because the server stopped
  in between, makes every later Grafana alert with its key a duplicate.
- `Patch` of a notification channel and `Update` and `SetAccess` of a workspace
  write back the whole row they read, over what another call wrote meanwhile.
- A workspace that was cloning when the server stopped stays cloning; `Delete`
  of a workspace with closed sessions removes the directory and then fails on
  the foreign key, as it does while a template or a pipeline names it.
- The `DELETE` that takes back a failed creation of a workspace has the context
  of the request and its error is ignored (`workspaces/service.go:354`, `:360`,
  `:424`): when the client has gone away in the middle of `git init`, the
  directory is removed and the row stays *ready*; a git row may stay *cloning*.
- A `Commit` that git refuses has already folded the checkpoints, so that a
  `Rewind` to one of them is refused from then on. What only a checkpoint still
  held, because the agent has deleted or renamed the file since, is gone with the
  fold (`checkpoint.go:118`; `docs/REVIEW.md:114` speaks of what is on disk).
- Two reviews sent at the same time, or a stop before `MarkSent`, send a comment
  twice.
- A second `serve` on one data directory writes and then removes the pid file of
  the first, and closes its sessions before its own listen fails on the port that
  is taken; from then on a restore does not see the first.
- Two restores within a second give the old database the same name. A kill
  between the renames of a database and of its log leaves them apart, and a
  restore that is then run again finds no database, does not move the log and
  installs the new one beside it (`restore.go:226`). So do three restores that
  overlap: between the renames of the first, the second installs its database and
  the third moves it, with the log of the first.
- A backup that has found the database before a restore begins, and opens it
  between the two renames, makes an empty `styr.db` (`backup.go:125`, `:129`), and
  SQLite deletes the log beside it: what the log held is lost.
- A process that a Codex child leaves behind with its stdout open keeps `Close`
  waiting for ever (`CloseEnds` needs `held`).
- If the server stops inside an operation of the executor, nothing but the
  timeout moves a run whose steps are all pending (`RunEnds` needs `torn`).

## 5. Fairness

`Sessions!Fairness`: goroutines that can run do run (weak fairness of threads,
pumps and shutdown). Strong fairness of the exit of a child whose stdin is
closed, since `process.Close` kills it; `ChildExit` is not enabled while its
stdout is held, so that nothing is assumed of such a child. The denial of a pump
whose child died in the middle of it fails in the end. A write that does not
return is never assumed to. Strong fairness of the sweeps for each session and
each request: the maintenance loop runs on a ticker for as long as the server
does. The server does not restart for ever (`<>[][~Restart]_vars`), but as often
as it likes. Nothing is assumed of users, or of a child that is not being
closed; no request has to be cancelled. Each property excepts what waits for a
`Stuck` process, for the sweeps also one that stops the maintenance loop.
`Pipelines!Fairness`: the holder of the lock goes on; the sweep comes on a
ticker and gets the lock in the end, as Go's mutex guarantees; every run
finishes, because the engine fails it when it times out. The bus may drop every
message: nothing is assumed of `Handle`. The pipeline's own timeout is not
assumed to come.

`Runs!FairSpec`: callers of `Start` and `Stop` and the engine's goroutine go on.
Strong fairness of the sweep for each run: it comes on a ticker and takes every
run that is over its time. Nothing is assumed of sessions or messages.
`Schedules`: the ticker and the clock go on; operators need not. `Bus`:
publishers go on, and so do the goroutines that end a subscription once its
context is done or its reader is through; a reader may hang for ever.
`Codex`: the goroutine of a turn and a `Close` or `Interrupt` in progress go on,
the grace included, and the pump of the sessions service takes events. A child
need neither speak nor exit; it ends when it is killed.

## 6. Proofs

`SessionsProofs` proves, for all sets of sessions, callers, processes and
requests and all bounds (assumption `SessionsAssumption`):

| Theorem | Statement |
|---|---|
| `TypeCorrect` | `Spec => []TypeOK` |
| `SlotAccounting` | `Spec => []SlotsAccounted` |
| `LiveBound` | `Spec => []LiveBounded` |
| `NothingLost` | `Spec => []RegistryFollows`, the conjunction of `NoOrphan`, `PumpOwnsEntry` and `ClosingIsTracked` |
| `OneWorker` | `Spec => []OneWorkingChild` |
| `AnswerOnce` | `Spec => []AnsweredOnce` |
| `SlotRefinement` | `Spec => ImplementsSlotPool` |

All rest on `Invariance`, `Spec => []Inv`, with

    Inv == TypeOK /\ FrameOK /\ RegistryOK /\ SlotsOK /\ ApprovalsOK

None of the parts is inductive alone. `FrameOK` says what the local variables of
a thread mean at its program counter: a thread about to close or to tell a
process knows one that has a pump. `RegistryOK` ties the registry to pumps and
threads: an entry is a process of that session whose pump has not unregistered
it (`EntriesOK`), a process without a pump belongs to exactly one thread
(`StartsOK`), an exit event implies a process that is gone (`ProcessesOK`). This
is why deleting by session id in `unregisterProcess` deletes the right process:
while a pump has not unregistered, `registerProcess` refuses every other
process of the session. `SlotsOK` counts slots: the owners are the threads
between `acquire` and `registerProcess` and the pumps that have not released, and
each step adds, moves or removes one owner (`SlotStep`), which is also what
the refinement needs. `LiveBounded` follows by an injection from live processes,
but for the duplicates that were killed and are not waited for (`Dropped`), to
owners. `ApprovalsOK` says that a request is in one channel at most and has
at most one thread that may answer it, the one whose update found it pending.

`PipelinesProofs` proves, for every definition `Validate` accepts, steps without
an id included (`DefinitionOK`), and all numbers of items, runs and retries
(`BoundsOK`; its inequality only says that there are enough attempt numbers):

| Theorem | Statement |
|---|---|
| `PipelineTypes` | `Spec => []TypeOK` |
| `SuccessIsComplete` | `Spec => []SuccessMeansAll` |
| `DependenciesFirst` | `Spec => []DepsFirst` |
| `AttemptsInOrder` | `Spec => []AttemptsOK`, the conjunction of `AttemptHistory` and `RetryBudget` |
| `NothingRunsOn` | `Spec => []OverIsOver` |

`SuccessMeansAll` speaks of the nodes with an id: one without may be left out.
They rest on `PipelineInvariant`, `Spec => []Inv`, where `Inv` adds three parts
to the properties. `RowsOK`: a step run that names a run is not pending, a run
knows a step run that exists. `CursorOK`: what the holder of the lock knows of
the run and the step it works on, for instance that the step run it marks
running is the newest attempt and its dependencies have succeeded. `PassOK`:
the walk leaves a node without rows behind only if some newest attempt has not
succeeded; it is what makes `settle` right, which looks only at the rows that
exist. The argument has one middle layer: every action is one of five changes of
a row (`RowStep`: a step run ends, starts, is put back, is retried, or appears),
and attempts, budget, dependencies and types are proved of those five instead
of the two dozen actions. A succeeded node is touched by none of them
(`RowStepKeepsSuccess`), so no success is ever taken back.

Of `Definitions`, for everything that may be handed to `Parse` and any limits
(`InputsOK`: the fields have their types), the same module proves:

| Theorem | Statement |
|---|---|
| `DefinitionsInvHolds` | `DefinitionsSpec => []DefinitionsInv`, the inductive invariant |
| `LevelsAreAnOrder` | `DefinitionsSpec => []TopoOK` |
| `ValidateAccepts` | `DefinitionsSpec => []ValidateOK` |

The invariant (`Sorting`) says what `topo` keeps: an in-degree is the number of
needs that name a step and are not in the levels yet (`Unmet`), the queue holds
the steps without any that have no level themselves, and a set of steps of which
each needs one of the set (`Closed`) never gets into the levels. The last is why
what is left out is the largest closed set, for any graph. `AcceptsExactly` goes
by the least position: if each need were of a step before and yet steps were
left out, the first of them would need one before it. `Passes` leaves out the
needs of a step without an id, as the code does; what is promised of an accepted
definition (`AcceptedIsOrdered`) is what `DefinitionOK` of `Pipelines` assumes of
the steps with one. A need without an id is unknown to the code, because
`idIndex` has no empty id; the instances of TLC hold such a need.

`RunsProofs`, for any number of callers and iterations, any depth of the bus and
any instance of faults (`RunsAssumption`):

| Theorem | Statement |
|---|---|
| `InvHolds` | `Spec => []Inv`, the inductive invariant |
| `RowsAndMemoryAgree` | `Spec => []RunsOK` |
| `ExhaustedMeansAll` | `Spec => []LoopVerdict` |
| `OutcomesAreFinal` | `Spec => OutcomeFinal` |

Nothing guards a run but the once-set of `finish`, which a restart empties. So
the invariant says of every thread what it may still do to which run. A thread
that is about to close a run (`Closable`) has found it running, or somebody in
this process was quicker and the run is in the once-set; the thread that closed
it owns it (`Owned`) until the operator has been told, and as long as it is about
to move the loop no later run exists. A run exists only after all before it
succeeded (`Chain`), so that only the newest can be running. Of a start that
failed it says only what its two compensating calls leave when they may fail:
its session is closed or on record as `stray`, its loop failed or as `torn`.

`AccessProofs`, for any number of requests, browsers and people
(`AccessAssumption`: finitely many people, and names that are no other's):

| Theorem | Statement |
|---|---|
| `InvHolds` | `AccessSpec => []Inv`, the inductive invariant |
| `OverlapIsSafe` | `AccessSpec => []AccessOK` |
| `NoSessionOfAnother` | `AccessSpec => []SessionBelongs` |
| `OnlyTheFirstIsAdmin` | `AccessSpec => OneBootstrapAdmin` |

What a request may be is a matter of the request alone (`Legal`). The rest
relates requests to the tables: a request is in the section that counts users if
and only if it holds `firstUserMu` (`Locked`), so that what it has counted stays
true until it creates the row (`Creating`); the first user is an admin, and a
change of roles that has been decided on is not about that user (`FirstIsAdmin`,
`Patching`); a login goes by a flow that its browser began and somebody answered
(`Began`), neither of which is ever taken back.

`BackgroundProofs`, for any finite set of streams, any number of publishers, any
buffer, and any set of cron lines of the four kinds (`BusAssumption`,
`SchedulesAssumption`):

| Theorem | Statement |
|---|---|
| `BusInvHolds`, `SchedulesInvHolds` | the inductive invariants |
| `BusKeepsCount` | `BusSpec => []BusOK` |
| `NoOverlap` | `SchedulesSpec => []SchedulesOK` |
| `FireTimesAreUsedOnce` | `SchedulesSpec => OncePerFireTime` |

A publisher holds the read lock, so that the set of subscribers does not change
while it has some left to visit (`VisitsSubs`); a subscription enters that set
once, before anybody can have ended it (`Fresh`), and its channel is closed only
after it has left the set (`ClosedAfter`). `DropsAccounted` is a sum over
streams; each step changes one summand. For the schedule: unless an operator ran
it by hand, a start failed half-way or a firing was lost, every tick is later
than the one before, so that one firing is the newest, and a run that is running
is the one it tells of or the one the tick is about to record (`OneNewest`);
unless two writers overlapped, at most one thread is about to write the row, and
until it does the row's next run is what its cron calls for after the last tick
(`OneWriter`). `NextFire` is the library's; only what it returns for each kind is
used (`Planned`, `TimeToFire`).

`OutsideProofs`, for any rows, users, payloads, channels and limits and any
finite set of senders (`ResourcesAssumption`, `TriggersAssumption`,
`NotifyAssumption`):

| Theorem | Statement |
|---|---|
| `ResourcesInvHolds`, `TriggersInvHolds`, `NotifyInvHolds` | the inductive invariants |
| `TablesAgree` | `Spec => []ResourcesOK` |
| `RequestsAreRight` | `Spec => RequestsOK`, an action property |
| `LogMatchesRuns` | `TriggersSpec => []DeliveriesOK` |
| `GateHolds` | `TriggersSpec => []GateBound` |
| `RowsAreFinal` | `TriggersSpec => DeliveryFinal`: a delivery's row changes only by the call that wrote it, from accepted |
| `EveryoneHears` | `NotifySpec => []PublishOK` |
| `ChannelsAreAsAsked` | `NotifySpec => []ChannelAsAsked` |

For requests, keys and slugs are kept by the database at each write; what has to
be shown is that a write based on a row read earlier is still right. The owner
of a row can only have become *shared* since it was read (`Entitled`), so that
who was allowed to change it is no stranger to it now. For deliveries, the gate
reads the log and writes to it later, so that neither the cap nor the window
bounds the rows alone. What is bounded is a tally: the accepted rows, and the
calls that have passed the gate and have no row yet. A step can only make it
smaller, except for that of a call passing the gate (`TallyShrinks`, `CapStays`,
`KeysStay`); at that moment the rows alone are below the limit, and there are no
more calls in hand than senders. For notifications, a channel that is due has a
post or is still to go (`DueOrPosted`), where its sender is says how many posts
it has and how the first ended (`PostsByPlace`), and its row is what the calls
asked for or what the one change in flight is about to write (`AsAskedOrSoon`).

`BackgroundProofs`, about `Codex`, for any number of callers, calls, turns and
lines and any sizes of pipe and channel (`CodexAssumption`; the three lines that
begin and end the output of a child are none of its items):

| Theorem | Statement |
|---|---|
| `CodexInvHolds` | `CodexSpec => []Inv`, the inductive invariant |
| `ChannelKeepsContract` | `CodexSpec => []EventsOK` |

What is out is the queue of the channel and what the pump has received; each
place of a turn's goroutine says how many results of the turn are out and what
it has left to send (`TurnOK`). The turn at work is the newest one, and an
`interrupted` flag beside a turn at work means that this turn was asked to stop
(`Serial`). A child that has reported prints nothing more, so that the decoder
cannot see a second result. One caller at most is inside `Close`, and once it is
past the wait no turn is at work (`CloseOK`): this is why the exit is the last
event although `Close` reads `cur` under the lock and acts on it later, and why
`lastExit` cannot change under an exit event that is on its way. It rests on
`Send` refusing a closed process; the wait for the end of the turn and the order
of clearing the turn before its end is announced do the rest.

`HostProofs`, about `Backups`, for any number of servers, restores and backups
and any versions of their binaries (`BackupsAssumption`: no process is of two
kinds, and the clock has a second):

| Theorem | Statement |
|---|---|
| `BackupInvHolds` | `BackupsSpec => []BackupInv`, the inductive invariant |
| `RestoreCanBeUndone` | `BackupsSpec => []RestoreOK` |
| `TheServerIsSeen` | `BackupsSpec => []ServerIsSeen` |

A database is at one path or in the hand of one restore (`PlacesOK`), so that a
rename takes nothing of another path away. As long as there was no mishap
(`SafeOK`), whoever has a database open, a backup included, has that of
`styr.db` with its log beside it; a restore between its two renames is alone,
nobody has a database open, and the log at `styr.db` is that of the database it
has just moved. A kill there keeps this until `styr.db` is next used. So each
acknowledged write is in a database, or in a log that lies beside it or is about
to follow (`Kept`), and only the last process to close a database, which applies
the log, takes one away. `Between` names who uses `styr.db` between the two
renames of a restore: any open, whether it makes an empty file or not, and an
install by another. `SeenOK` says that a server without another beside it has
the pid file as long as it runs, whatever file a killed one has left.

`HostProofs`, about `Workspaces`, for any number of calls, names, directories and
rows (`WorkspacesAssumption`):

| Theorem | Statement |
|---|---|
| `WorkspaceInvHolds` | `WorkspacesSpec => []WorkspaceInv`, the inductive invariant |
| `WorkspacesAgree` | `WorkspacesSpec => []WorkspacesOK` |
| `KeptForSessions` | `WorkspacesSpec => KeptUnderSession` |

A row never changes the directory it was created with, and two live rows that
have one directory are on record (`TwiceOK`), so that what a call has read of a
row says where its own removal will fall. Unless calls on it crossed, a
workspace has at most one clone and says that it is cloning while it has one
(`JobsOK`), and one that a session or a call has seen ready stays ready
(`ReadyStays`); a session that started after a Delete had looked is on record
(`LateOK`); a clone that ended well has its files until its outcome is written
(`ClonedOK`). Between the two writes of `SetAccess` the mode is already the one
asked for (`ListOK`), unless calls on the workspace crossed. A creation that
failed leaves no row, or one that is on record as `left`, because something
refers to it or the `DELETE` failed.

`WorktreesProofs`, for any finite set of sessions and any calls, files, comments
and bounds (`WorktreesAssumption`: a session always has an id):

| Theorem | Statement |
|---|---|
| `WorktreesInvHolds` | `WorktreesSpec => []WorktreesInv`, the inductive invariant |
| `ReviewsAreTrue` | `WorktreesSpec => []ReviewOK` |
| `WorkIsKept` | `WorktreesSpec => NothingLost` |
| `ChecksStillHold` | `WorktreesSpec => LeftAlone` |

A worktree that is being made is empty and no row or other call names it
(`CreateOK`), so that removing it again after a failed write takes nothing from
anybody. What a commit holds is in all later ones and among the files, but for
what an agent has deleted (`Grown`), in spite of checkpoints, rewinds to an
earlier one and edits in between. Therefore folding the checkpoints of a Commit
(`reset --soft`) loses nothing but that, even when the call is cut off before
its own commit. A turn the row has told of is one that a busy row shows, unless
another call has overwritten the row (`ShownOK`), so that such a turn under a
Commit or Rewind came after its check; after Discard has closed the process
there is none, but for one that came later (`GoneOK`), and another session that
works in the worktree came after the count. This needs that a row's worktree
changes only once, from none, while no such call can be on the session (`NewOK`,
`StartOK`). A comment that no two reviews carried at a time is with one call at
most; before the message it has not gone out, after it it has gone out once and
that call will mark it (`CarriedOK`, `CountedOK`).

Each inductive invariant was given to TLC on the instance of its run before it
was proved. `SlotsAccounted` of `Sessions` and `DeliveryFinal` of `Triggers` are
proved and no run names them.

Only model-checked:

- Liveness (`SweepsEnd`, `WaitsEnd`, `RunEnds`, `WorkEnds`, `FiresOnce`'s
  `DueFires`, `BusEnds`, `CloseEnds`): the prover does not reason about fairness
  and `ENABLED`.

`ExitFinalizes` is not a theorem: the run of that name shows the code does
otherwise (section 4).

## 7. How to run

    tlc -config SessionsEvict.cfg MCSessions
    tlc -config PipelinesEnds.cfg MCPipelines
    tlc -config RunsFinish.cfg Runs
    tlapm PipelinesProofs.tla
    tlapm SessionsProofs.tla

`PROJECT.json` names the module of every run.

## 8. Not modelled

- `Snooze` and `CreatePR`, see section 2.
- Text: the codec of the Claude protocol, template rendering and payloads,
  parsing yaml and cron lines, diffs, redaction, request and response bodies.
- Reports over rows: stats, costs, views, lists; the risk classes of commands.
- `doctor` and `migrate`, the wiring of the services, configuration.
- Cryptography: sealing, hashing and random values are taken as what they are
  for.
- The git binary, the CLIs, the OIDC provider and the servers behind
  notification channels are external and modelled by what the code uses of them.
- An `os.RemoveAll` that fails: a directory that is to be removed is gone.
- Profiles and the Codex credential: rows that are stored and read, the latter
  with the steps of the Claude token.
- The web client only calls the API.
