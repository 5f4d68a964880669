# Verification of Scamatic Builder

TLA+ specifications of the parts of Scamatic Builder whose correctness depends
on the order of things: commands on their way to a device, the queues, workers
and documents they pass through, what a runtime page sees of them, the drafts
and versions of a project, the tokens of its connectors, simulation, accounts and
sessions, the processes that carry telemetry, and the pages in the browser: their
charts and the editing of a project. TLC checks small instances; TLAPS proves the
theorems for every value of the constants.

Every definition that models code is listed in `PROJECT.json` ("map") with the
lines it translates. Run a check with `tlc -config X.cfg M`, a proof with
`tlapm M.tla`.

## 1. The system

Scamatic Builder is a SCADA screen builder with a secured runtime. A browser
(builder and runtime UI) talks to a Node.js API (`api/_handlers`, served by
`server/index.js` or as serverless functions). A separate Node.js process, the
connector worker (`server/connector-worker.js`), keeps a WebSocket per
connector to ThingsBoard, streams telemetry to browsers, and executes
commands. API and worker share nothing but MongoDB and an optional wake-up
message; self-hosted, the server forks the worker and gets its telemetry over
IPC, and a Rust process may shadow it.

| Component | State it keeps | Operations | Interacts with |
|---|---|---|---|
| Command gateway, `api/_handlers/commands.js` | none of its own; `CommandEvent` and `AuditEvent` documents | POST (admit, create, refuse or authorize), GET status | MongoDB; wakes the worker |
| Command execution, `server/connector-worker.js`, `connectors/command-completion.js` | tasks in memory | poll, claim, send, accept, complete, audit, recover audits, shut down | MongoDB, queue, connector runtimes, stream hub |
| Keyed task queue, `connectors/keyed-task-queue.js` | lanes, counters, ids, idle waiters | enqueue, task end, close | command execution |
| Connector runtime and driver, `connectors/connector-runtime.js`, `thingsboard-driver.js`, `async-queue.js` | socket, last values, freshness, feedback waiters | connect, subscribe, consume, write, stop | ThingsBoard, writers, hub |
| Poller and recovery scheduler, `wakeable-poller.js`, `adaptive-recovery-scheduler.js` | timer, running promise, rerun flag | start, request, run, stop | command execution |
| Deferred writers, `coalescing-batch-writer.js`, `telemetry-batch-writer.js` | pending values, in-flight batch, back-off | enqueue, flush, close | MongoDB |
| Worker reload, `connector-worker.js` 207-268 | map of runtimes by connector | periodic reload | MongoDB, runtimes |
| Retention janitor, `command-retention-janitor.js` | lease, progress | acquire, mark, purge, release | MongoDB |
| Stream hub, tickets, IPC, `runtime-stream-hub.js`, `runtime-ipc.js`, `managed-connector-worker.js` | clients, tickets, bounded IPC queue | connect, publish, revalidate, restart child | browsers, worker |
| Rust shadow, `rust-shadow-worker.js`, `data-plane-rs/` | mirror queue, shadow state | mirror, compare, restart | worker |
| ThingsBoard auth, `api/_lib/thingsboard-auth.js` | tokens, refresh lease | get token, refresh | ThingsBoard, MongoDB |
| Drafts and versions, `draft.js`, `publish.js`, `versions.js`, `svg.js`, `projects.js` | draft revision, versions, active version | save, rename, upload, publish, restore, delete | MongoDB, builder pages |
| Accounts, members, sessions, `auth.js`, `google-auth.js`, `signup.js`, `members.js`, `runtime-session.js` | users, memberships, project assignments, sessions | sign in, sign up, change password, switch, add and change members, revoke | MongoDB |
| Project PIN, `project-pin.js`, `projects.js` | PIN and its version, unlock records | unlock, lock, set, recover, remove | MongoDB |
| Server, `server/index.js` | child processes | start, shut down | worker, mirror, hub |
| Simulation, `simulator.js`, `simulation-rpc-state.js`, `simulation-telemetry-queue.js` | simulated RPCs, responder lease, telemetry queue | lease, poll, record, answer, publish | runtime pages, ThingsBoard |
| Pure logic, `shared/*` | none | lifecycle ranks, rules, freshness, numbers, conversion to and from Node-RED | all |
| Charts, `RuntimeCanvas.jsx`, `runtime-history.js`, `runtime-history-archive-queue.js`, `chart-telemetry-store.js` | history of a tag, archive queue, the range that is chosen, answers | append, archive, choose a range, read, draw | hub, API |
| Builder and runtime UI, `src/` | React state | edit, bind, place, undo, autosave, import and export, show commands | API, hub |

Hard behaviours: handlers and workers interleave at every `await`; MongoDB
calls fail before or after they took effect; the worker crashes, restarts, or
is shut down with work under way; requests are duplicated; feedback races its
timeout; what one process read is stale when another acts. `PROJECT.json`
("hazards") lists them with their lines and the properties that cover them.

What makes each component correct:

- command path: at most one RPC per command, whatever is duplicated or fails;
  a status never taken back; outcomes that are the device's; no audit lost;
  commands of a connector in order; everything authorized eventually claimed;
- queue: capacity, order within a lane, one running task per lane, nothing
  forgotten, close returns and tells the truth;
- accounts: a session ends with the password or role it was opened with, the
  workspace keeps an owner, an unlock counts for its own PIN only;
- data plane: samples in order, drops counted, no status given up, restarts,
  and nothing left running after a shutdown;
- runtime and reload: one live socket per connector, no unnoticed disconnect;
- poller, scheduler: no lost wake-up, no overlap, stop waits;
- writers: per key the newest value wins, bounds, what close may drop;
- janitor: nothing is purged before it was audited, whoever holds the lease,
  and what may be forgotten goes in the end;
- token refresh: replaced credentials do not come back, whoever refreshes late;
- simulation: ThingsBoard gets one answer per RPC and every pulse, though pages
  take over from each other and requests are repeated;
- drafts and versions: no lost update, one version per publish request, what
  was validated is what is published;
- runtime pages: a stream ends with its login and comes back after a break; a
  command's outcome that is shown is its own, and no button waits for ever;
- charts: what is shown is the range that was chosen, without a hole between
  archive and page, and every sample is archived or accounted for;
- builder: numbers stay in their limits and mean what they say, references lead
  somewhere after every edit and undo, components stay on the canvas, and a flow
  means the project it was made of.

## 2. The modules

| Module | What it is |
|---|---|
| `CommandStore` | statuses, ranks, `commandStatusCanReplace`; the documents, one operator per database call |
| `CommandWorker` | the worker, `EXTENDS CommandStore`, queue operators by `INSTANCE` |
| `CommandPipeline` | the API handler beside the worker; properties, fairness, inductive invariants |
| `CommandContract` | abstract: the lifecycle of a command |
| `CommandPipelineProofs` | theorems about `CommandPipeline` |
| `KeyedTaskQueueOps` | the queue as a record and operators on it |
| `KeyedTaskQueue` | the queue as a state machine |
| `WorkerBuffers` | queue, archive and writer (`INSTANCE`), one at a time |
| `SerialLanes` | abstract: one line per key |
| `WorkerBuffersProofs` | theorems about the three |
| `CoalescingWriter` | the writer that keeps the newest value per key |
| `TelemetryWriter` | the chart archive's queue |
| `WakeablePoller` | the poller's timer, wake and rerun |
| `RecoveryScheduler` | the recovery passes over owed audits, and their timer |
| `WorkerLoops` | poller (`EXTENDS`), scheduler (`INSTANCE`) and tasks together, from the worker's start to its shutdown |
| `WorkerLoopsProofs` | theorems about the three |
| `ConnectorRuntime` | one connector: its loop, driver, queue and `stop()` |
| `WorkerReload` | `reload()` over the Map of runtimes |
| `DataPlane` | the managed worker, its IPC, the mirror, the server's shutdown |
| `ConnectorProcesses` | the three together |
| `ConnectorProcessesProofs` | theorems about them |
| `ProjectPin` | the PIN of a project and its unlocks |
| `WorkspaceAccess` | accounts, members and sign-in sessions, beside `ProjectPin` |
| `WorkspaceAccessProofs` | theorems about both |
| `DraftEditing` | editors of a draft: history, autosave, recovery, uploads |
| `ProjectPublishing` | publish, restore and delete around it (`EXTENDS DraftEditing`) |
| `VersionHistory` | abstract: an append-only history of versions |
| `ProjectPublishingProofs` | theorems about `ProjectPublishing` |
| `RuntimeStream` | sessions, tickets, the hub and the pages' sockets; logout |
| `CommandView` | what a page shows of the commands of a component |
| `CommandRetention` | the janitors that purge old commands |
| `ConnectorSecrets` | refresh and rotation of ThingsBoard tokens |
| `ServerlessCommands` | commands the API executes itself, without a worker |
| `RuntimeServer` | the five together |
| `RuntimeServerProofs` | theorems about these parts, alone and as composed |
| `SimulationBridge` | the RPCs to a simulated device and who answers them |
| `SimulationTelemetry` | the values a simulating page publishes |
| `SimulatedCommands` | operation shifter, toggle buttons and the AUTO recipe of a simulation |
| `RuntimeSimulation` | the three together |
| `RuntimeSimulationProofs` | theorems about the bridge, the telemetry and the commands |
| `ChartHistory` | the history of a tag on a page, the queue to the archive, and a chart with its ranges, its reads and what is drawn |
| `NumericTags` | ranges, limits, triggers, sliders and gauges of a draft |
| `SchematicEditing` | components, references, tags, clipboard, undo and drags |
| `CanvasPlacement` | components on the canvas: grid, guides, arranging |
| `FlowExchange` | a project as a Node-RED flow, and back |
| `BrowserPages` | the five together |

The small instances a run checks (definitions that begin with `MC`) stand at the
end of the composition it checks.

`CommandPipeline` has the gateway and composes it with worker and documents; it has the queue but
takes the timing of polls and recovery passes as given. `WorkerLoops` has that
timing and reduces a task to its beginning and end. Between them the fairness
`CommandPipeline` assumes of `PollStep` and `RecoveryStart` is what
`WorkerLoops` shows of the timers.

An operator whose comment begins with "Mutant" is a wrong variant of its
neighbour; `PROJECT.json` ("mutants") says which property finds it out.

### Queue

`q` is the closure state of `createKeyedTaskQueue`: `accepting`, the counters
`active` and `queued`, the set `pendingIds` and the lanes. Each operator of
`KeyedTaskQueueOps` is one synchronous stretch of the code. In
`KeyedTaskQueue`, `BeginTask` is the microtask that calls a task (line 47),
`EndTask` the `finally` block, `Close`/`CloseTimesOut` the two ways `close()`
returns. A lane the code deletes is an empty lane; statistics are left out.

### Command path

`status`, `auditPending`, `created` and `audits` are the documents. A handler
of the API is in one of the states of `HandlerStates`, each the stretch up to
its next `await`. A check that says no (`PolicyRejects`, and the stale session in
`Admit`, which is checked before the duplicate is) goes through `reject()`, which
writes its own audit (`AuditRejected`); `Abandon` is a database error or the death of
the API process. In the worker,
`poll` is `dispatchCommands`: it awaits the candidates and then their versions,
while tasks go on; the loop that enqueues them has no `await`, so while
`poll[w].pc = "enqueuing"` nothing else in that process steps. What the query
sorts by is the order in which documents were inserted: `createdAt` is taken as
the same clock for all API processes (`Before`).
`task[w][c]` is where `claimAndExecuteCommand` stands, `immediate` and
`recovery` are the terminal audit writes, `phase` the life of the process.
`sent`, `outcome`, `stream` and `ahead` are history: the RPCs sent, what the
device said, what the hub published last, what a command found waiting.

A database call of the worker may fail (`Fault`), applied or not: the driver
cannot tell. `MaxFaults` bounds them. `Crash` may happen at any time,
`MaxStops` bounds crashes and shutdowns.

### Writers

`pending` is the Map in insertion order, `batch` and `flush` the write in
progress. A flush is three steps, as in the code: it takes its batch when it is
called, the write ends, and the `finally` block runs in a microtask of its own,
between which an `enqueue` may come. A value is a number that grows per key, so
that "newer" can be compared; `offered`, `stored`, `dropped` are history. A
failed bulk write may have applied any of its updates (`WriteFails(applied)`),
for the coalescing writer and the archive alike. In `TelemetryWriter` samples
are numbered in order of arrival; `disturbed` notes that `close()` met a write
in progress, more than three batches or a failure.

### Poller, scheduler, and the worker around them

`run` is `runPromise`, with the step its work has reached; `rerun`, `started`,
`stopped` are the flags of the same names, `timer` is the delay class that is
armed. An item is a command: stored, its wake on its way (or lost), accepted,
read. A poll is told how much it may read when it begins (`room`), returns at
once if that is nothing, and what it leaves unread is the timer's business
(`excused`) unless a rerun has been noted. `WorkerLoops` computes that room from
the queue and the limit of the query (`Room`), and adds what `connector-worker.js` does with them: `phase`
goes through lines 271 to 341 in order, `Dispatch` puts into the queue what a
poll has found, `Complete` and `Defer` are a task's end and its deferred audit,
and shutdown stops poller, queue and scheduler one after the other.

### Runtime

`pc` is the `await` at which `#run` stands. `link` is the socket upstream,
`held` whether the driver still refers to it, `listening` whether `subscribe()`
has attached its handlers, `queue` and `queueEnd` the `AsyncQueue`. Time is
left open: a tag with a periodic policy may be found late at any moment, which
covers every learned interval. `HealthFails` is a failing `onHealth`.

### Reload

`reload[r].pc` is where a call of `reload()` stands; the interval does not wait
for the call before, so there may be several. A runtime is a slot: `live` are
those that were started and not stopped yet and are in the Map or awaited, `stray`
the connectors of those that are in neither. Whether the loop of a started one has
ended by itself is told by `ConnectorRuntime`. `config` stands for what the fingerprint covers.

### Drafts and versions

`draft` is the ProjectDraft document. Its content is the set of the changes
that made it, so that "a change was lost" can be said; `ed[e]` is a builder
page: what it shows, the two stacks of `useEditorHistory`, `dirty`, whether the
autosave timer is armed, the revision it knows; `auto[e]` is the autosave switch of its
browser. Changes named in `bound.faulty` bring a blocking validation issue, with which
`saveDraft` returns without a word and without the timer being armed again; it is put
right by a later edit or an undo. Saving by hand stops the timer, and the end of what kept
the page busy starts it again (`Rearm`). `save[e]` is the PUT the page
waits for and `adrift` the ones nobody waits for any more, which still reach
the server. The PUT, its check of the revision included, is one `findOneAndUpdate`
and one action; the upload of the base SVG is the read and the later `save()`.
`req[q]` in `ProjectPublishing` stands between two database calls of `publish.js`
or `versions.js`; the transaction is one action. The deletion of a project
runs its deletes in parallel: versions and draft go in either order.

### Streams, commands shown, retention, tokens

`RuntimeStream`: `sessions` are the RuntimeSession documents with their ticket
and, since a page opens one socket per session, the place of that socket in
`#authenticate` (`sock`) and whether it is `open`. Each check of the
authentication is an action (the ticket, the session, the login, the project
with its version), so a revocation can come between any two; `logout` walks
through `revokeSessionHierarchy`: the list is read, then its three updates come
in any order. A request that fails sends a page that has had a socket back to its
reconnect timer; a page whose bootstrap fails is `invalid` and stays so
(`AfterFailure`).

`CommandView`: `view` is the entry of `rememberCommandResult` for a component,
`cached` what `receiveCommandPush` keeps, `loop[k]` a call that waits for the
outcome of request k (of `runCommand` or of the reconciliation that
`restoreRecentCommands` starts), `wire` the pushes on their way. `odd` notes the
exceptions of the properties: a 4xx to a request whose command an earlier
request had created (`misjudged`), a push for a command the page had given up
(`revived`), a history that failed to load (`unrestored`) or that did not list
a command (`overlooked`). The outcomes failed and timeout behave as one.

`CommandRetention`: `doc` is the CommandEvent, its dates reduced to what the
queries ask of them; `janitor[j].pc` goes through `#cycle`: select, check the
recorded values, delete, find, match with audits, mark. A stop of a process
leaves what it had begun; a lease lapses while its holder goes on.

`ConnectorSecrets`: `secret` is the ConnectorSecret, its `stamp` the version the
compare-and-set filters on, `root` the administrator's credentials its pair
descends from (history). `call[c].pc` goes through
`getThingsBoardAccessToken`; `authentication` has the lease. `noted` names what the
properties leave out: a device token stored over a refresh (`undone`), two
administrators at once (`overlap`), a lease that was lost (`freed`) or a pair
described late (`late`).

### Simulation

`rpc[i]` is the SimulationRpcLifecycle, with its claimed `stage` and who
claimed it; `work[p]` the request `/api/simulator` is working on for page p, at
one of its database or ThingsBoard calls; a broken connection leaves the
request running as the `Orphan`'s. An answer is named by the page that computed
it and how often that page had applied the RPC, so that "two stories" can be
told apart. `SimulationTelemetry` is the publisher of one page: `jobs` the queue,
`published` what the page believes ThingsBoard has, `request` and `answer` the two
writers, `clock` the timestamps. `turn` numbers the ordered changes a job stands for.

`SimulatedCommands`: `history` is the CommandEvents, in the order the queries sort them by,
`calls` the HTTP requests with the database call each comes to next, `screen[p]` what a page
shows, waits for, and the AUTO run it drives. What a toggle starts from and a reload shows is
not stored anywhere: `Kept` and `KeptMode` derive it from the history, as
`simulation-command-state.js` does. `crossed` notes buttons for which two calls were under way
at once, or whose step was given up with its run; `strayed` a page that does not know what
became of a call. A step answered after its run ended is recorded but dropped by the page
(`RuntimeApp.jsx:757`), which is why `ShownIsRestored` leaves out what is `crossed`.

### Commands without a worker

`ServerlessCommands`: `order[c]` is the CommandEvent with the outcomes it was given, in order
(`settled`), what the device confirmed and how often it was pressed (history); `serving[i]`
where the function of call i stands, in the press or the release of a pulse. `caught` says that
it is past the `try`, or about to be, so that a failure now goes to the caller; an outcome
other than acknowledged is awaited inside of the `try`, and when its audit fails the
`catch` stores failed over it. A function may be stopped at any call; what it has
sent may reach the device.

### Accounts and PIN

`request[r].pc` is the database call a request of `WorkspaceAccess` comes to next,
`found` the sessions a listing has found, which a later call revokes. A session
is its AuthSession document; `proof` (history) says which password it was opened
with, 0 for Google. `cookie` is the browser's OAuth transaction, one for all its
tabs. One shared workspace is managed, with one project that operators and
viewers are assigned to; whoever signs up has a workspace of his own. `crossed`
notes a change of an owner by one who was no longer owner, `tangled` the accounts
of which two updates overlapped or one was cut short, `ended` the sessions that
were ended by something else than the cap, `overtaken` a sign-in of the bootstrap owner
that read a later version than the one its password was checked with. In `ProjectPin`, `security` is the
project's subdocument, `unlock[h]` the record of a session with the PIN it was
granted for (history), `call[c].seen` the project as a call has read it;
`overlapped` notes a change saved over one it had not seen.

### Data plane

`sink` is the `IpcRuntimeEventSink` in the worker process, `wire` the messages on
their way, `worker` the `ManagedConnectorWorker` with the `run` of its child and
the run whose `health` it holds, `mirror` the `RustShadowWorker` with its pending
map and its frames, `rust` what the mirror's process has been told, `server` the
step of the shutdown. Samples of a tag are numbered; `evicted` counts what full
maps pushed out, `cut` notes that something else was lost: with an exit, or a
frame that was given up.

### Charts

`live` is the history of one tag (`runtime-history.js`) with what is remembered of
it in the `WeakMap` (`known`), so that the append without a search can be compared
with the search it saves. `stamp` says of each sample when the value it belongs to was
published to ThingsBoard: only then is it queued for the archive, under that time
(`Published`), and the value of several samples may be published once. `entries` is the queue to the archive with its batch in
flight; a call may fail after it stored. The second half of the module has the state of the
component `ExpandedChart`: `rangeId`, `upper`, `loaded`, the answers that are kept,
and in `reads` the requests under way, of which `lastRead` names the newest. Time
is a number; a bucket is the time it begins at. `crossed` notes the choice of a
kept answer while a read was under way.

### Builder

`NumericTags`: `sheet` is the draft as far as one tag and the parts bound to it go,
edited one field at a time; saving and opening a project are actions, opening
an older one migrates it. What the fields show and a runtime resolves are
operators. `SchematicEditing`: `doc`, `past` and `future` are `useEditorHistory`,
`before` its transaction, a document the components and tags with their
references; each tool of the page is an action on what is `selected`. `adrift`
and `mixed` name what the properties leave out (section 5). `CanvasPlacement`:
one axis of the canvas, a drag with the boxes as they were when it began and the
guides it looks at. A press with shift or ctrl changes the selection and drags what was
selected before, so that an arrow key may then move a part of the group; `torn` notes
that until the pointer moves again. `FlowExchange`: `plant` is the project that is open, `flow` the file
that was exported and perhaps edited, `imported` what an import just did. An export is a
set of nodes with wires, and what is understood of it is computed twice: from the
comment the exporter leaves, and from the nodes alone.

### Compositions

The five parts of `RuntimeServer` and of `BrowserPages`, the three of `ConnectorProcesses`,
`RuntimeSimulation` and `WorkerBuffers`, and the two of `WorkspaceAccess` share no state, or documents they only read of each other. They
are composed side by side: a scenario bounds what happens to each, and gives all
but one nothing to do (`part` and `buffer` say which, in those without bounds), so
that the state space is the sum of the parts' and not their product.

Left open rather than modelled: the age of a pending command (so the cooldown
may or may not refuse), the health of the connector that is read, the order in
which a recovery pass takes documents, and the time-outs' lengths.
Left out: what a poll reads of the versions; command health summaries; statistics; the text of messages.

## 3. The runs

| Run | Instance | Shows |
|---|---|---|
| `buffers` | queue: 4 tasks, 2 lanes, capacity 3; archive: 9 samples, batches of 2, room for 7; writer: 3 keys, 4 values, batches of 1, room for 2 | bookkeeping, capacity, clean close, refinement of `SerialLanes`; no task forgotten if tasks settle; only counted drops, oldest first; every sample is archived or dropped; the newest value of each key survives and is stored, nothing older overwrites it; `close()` returns even if a task or every write does not end well |
| `pipeline_faults` | 1 command requested twice, 1 worker, 2 faults, 1 stop | one RPC, genuine outcomes, stream, audits, refinement of `CommandContract`; authorized commands are claimed, claimed ones end, owed audits are written |
| `pipeline_order` | 2 commands of one connector, 1 worker, 1 stop, no fault | order of claims, one RPC at a time |
| `worker_loops` | 2 commands, one of which may have an audit owed by a former worker, a queue of 1, pages of 1 | no lost wake or request, no command read for which the queue has no room, idle delay only when caught up, store to audit, shutdown |
| `processes` | runtime: 2 tags, one event-driven, backlog 2; reload: 2 connectors, 2 at a time, 1 edit, 1 failure; data plane: 6 instances of samples of 2 tags, statuses, health beats, exits, failed starts, a broken pipe | `ProcessInv`: quality while reconnecting, what `stop()` releases, one runtime per connector, health of the right process, nothing left after a shutdown; `FlowInv`: order and books of samples, statuses in order; `RuntimeSettles`: a stop ends, a lost connection is replaced; configuration applied; restart and shutdown |
| `access` | 2 accounts, 2 requests at a time: sign-ins of each kind against password and role changes, members changed at once, workspaces switched, requests cut short; 2 sessions, 2 calls, 2 PINs | sessions end with password and role, an owner remains, assignments follow roles, the cap keeps the newest session, unlocks count for their PIN |
| `publishing` | 2 editors, up to 2 changes, an undo, an upload, a lost answer; 1 editor, 3 changes of which one brings a blocking issue, saves by hand, the autosave switch; 3 requests, or 2 with one key and a deletion | no saved change undone, every change saved or its loss told, refinement of `VersionHistory`; what is published was validated |
| `draft_uploads` | 1 editor, an upload | finding: an upload overwrites what was saved meanwhile |
| `server` | 23 scenarios: 2 pages, 2 requests, 2 commands and 2 janitors, 2 callers and 2 administrators; without a worker: 2 calls for one command, or for two of one or of two users, plain outputs and pulses, failed calls, a stopped function | streams settle or end with the login; shown outcomes are true and none is waited for in vain; purges are safe and happen; no replaced token comes back; `ServerlessInv`: one press per command, no unconfirmed success, outcomes stand, undisturbed commands are concluded |
| `pages` | charts: 4 points, a short and a long range, batches of 1 and 2; numbers: 6 projects, 2 edits; schematic: 11 documents with their tools, 2 or 3 edits; canvas: 4 boards, 2 moves; flows: 5 projects, 3 or 4 exports, imports and edits | history in order, nothing forgotten on its way to the archive, shown is chosen, no hole; numbers in their limits, saved is applied; no reference dangles, undo is a chain; nothing leaves the canvas; a flow is routed, understood, and imported once |
| `simulation` | 18 instances: 2 RPCs, 2 pages, takeovers, expiries, breaks, stopped functions; 3 changes of a value; up to 3 shifts and 2 presses on a shifter of 2 buttons with a recipe of 2 steps, by one page, two of one operator or two of two, answers lost, calls failing, reloads | one answer per RPC, telemetry before it, each once unless repeated; RPCs are answered, pulses are told in order, the last value arrives; `ControlInv`: recipes run as granted, in order and once, the page shows what the documents say; `ControlsRest`: pages come to rest |
| `reset_steady` | one page, 3 shifts | finding: an output that is on after RESET |

Where a run checks `BuffersInv`, `LoopsSafety`, `ProcessInv`, `FlowInv`, `AccessInv`, `OrderInv`, `PublishingInv`, `StreamInv`,
`ViewInv`, `RetentionInv`, `SecretsInv`, `ServerlessInv`, `BridgeInv`, `TelemetryInv`, `ControlInv` or `PagesInv`, it
checks the module's types and the safety invariants named in that definition's
conjunction, each stated and commented by itself above it; `PipelineInv` is the inductive invariant of section 4.

Bounds. A lane needs a running task, a waiting one and one more to tell FIFO
from any other order, and a full queue needs one task more than the capacity:
four tasks, capacity three. Ids are interchangeable except through order. One
worker is checked, with a stop and a restart; any number is proved
(section 4). Two
faults allow a failed completion and then a failed `failed`. Recovery is
switched off (`FlushLimit = 0`) in the ordering runs, whose properties do not
depend on audits. `PollLimit = 2` covers both a poll that takes all and, with
capacity 2, one that is cut by the room left. The queue of one in `worker_loops` is full
as soon as a command is executing, so a wake meets a poll that returns without a query,
or one that leaves a command. In the writer a failed batch
meets two other keys in a map of two, which then overflows, and a failed write may
have been applied; a second value of a key can pass the first in the
map. Its batches are of one here, which leaves out batches applied in part: the proofs
of section 4 are for batches of any size. The archive holds more than three batches, the number `close()` tries,
and may overflow by two. Pages of one make a recovery leave audits behind. In
the runtime two waiting samples are enough for one to be consumed after a
disconnect or a stop. One edit lets two overlapping reloads see different
versions of a connector, and a failure may give up one of them.

The bounds of the other runs are records of how often each thing the code
cannot control may happen (`Bounds`, `StreamBounds`, `ViewBounds`,
`RetentionBounds`, `SecretBounds`, `ServingBounds`, `BridgeBounds`, `TelemetryBounds`, `ControlBounds`, `AccountSetups`,
`PinSetups`, `PlaneBounds`), or lists of what a run begins with and how much may be
done to it (`ChartInstances`, `Projects` with `MaxEdits`, `Workbenches` with
`MaxComponents`, `Boards` with `Pulls`, `Exchanges`); the end of the composition lists
the combinations a run covers. A history limit of one makes every edit
after the first drop an undo step; two changes and a lost answer let a late
save meet a draft saved since. Two pages under a cap of two displace a session
when one of them reconnects; fewer sessions than pages would make pages
displace each other for ever (`StreamAssumption`). Two requests on a component
are needed for an old result to meet a new entry. Two commands and a batch of
two let one be marked while the other is deleted; two janitors under a lapsed
lease run a full cycle against each other. Two callers are a holder and one
that waits or takes over; a second rotation overlaps the first one's two
writes. Two RPCs let one be completed in the place of another; two takeovers
bring the lease back to the first page. A queue of two jobs is full when a
pulse follows a steady change in flight. Three shifts begin a recipe, end it under a step
and begin it again; two buttons, switched in turn, tell an order of steps from a set. Two
calls are a request and its retry, or two operators; two failures are one inside of the
`try` and one in what the `catch` does about it. Two requests are what it takes for one
to read what another changes; a cap of two sessions lets two sign-ins meet a
third. A map of one tag overflows with the second, two frames with the third;
two exits give a process a predecessor that had one, too. Four points and six
moments make a history drop its oldest while a long range is drawn in buckets of
two. Numbers of five values lie below, on, between and above the limits of each
other. Two edits and an undo tell a chain of documents from a list; a drag needs
three for an edit in its middle. The boards have a box at an edge, one that is
locked and two that overlap. The paths of the flows meet in lower case, or as
identifiers, or not at all.

Fairness. `FairSpec` of the pipeline assumes that a stopped worker is started
again (its supervisor restarts it), that a running one keeps polling (an
interval timer), that its awaited calls settle (RPCs and feedback have
timeouts, database calls end or fail), that audit writes continue and that the
recovery scheduler runs again (it always re-arms its timer). Nothing is
assumed of the API, of crashes or of faults. `BuffersSpec` assumes of the queue
only that the timer of `close()` fires; where a property needs microtasks and
task bodies to go on, it says so (`TasksSettle`); of the archive
(`ArchiveFairness`) that timers fire and writes end and succeed some time; of the writer
(`LoopFairness`) timers, microtasks and that a write ends one way or the other;
`NewestIsStored` adds that a database written to again and again accepts a
batch some time (`DatabaseRecovers`), without which no writer stores anything.
`FairLoops` assumes that timers and
microtasks run, awaited calls end, `main()` and `shutdown()` go on, and that a
query or an audit write that is tried for ever succeeds some time; wakes,
stores and the signal to shut down are nobody's duty. `Fairness` of
`ConnectorProcesses` assumes that each `await` of the runtime's loop ends (updates,
name resolution and connecting have timeouts, the back-off is a timer) and nothing of
ThingsBoard; that the reload's interval ticks and each `await` of a reload ends;
and that the data plane's timers fire, its messages arrive and the awaits of its
shutdown end, but nothing of a child: `close()` has a timeout for it.
`WorkspaceAccess` and `BrowserPages` have no liveness: any request and any
gesture may be the last. `DraftFairness` assumes that the autosave timer
fires (the user pauses) and that requests are answered or lost.
`StreamFairness` assumes the page's reconnect timer, the hub's revalidation and
flush timers and that queries end; `ViewFairness` that requests are answered or
fail, pushes arrive on a connected stream and deadlines pass, nothing of the
worker. `RetentionFairness` assumes that the janitors' intervals tick, a lapsed
lease is free some time for one of them, commands age and owed audits are
written. `SecretSpec` has no liveness. `BridgeFairness` assumes that pages go on
asking, functions return or are stopped, and what nobody holds expires;
`TelemetryFairness` that the page's loop and its requests go on; `ControlFairness` that
requests are answered or fail and the timers of a recipe fire, but nothing of the operator: `ControlsRest`
says of what is left then that no page waits or runs a recipe again and again.
`ServingSpec` has no liveness: the platform may stop any function.

`CHECK_DEADLOCK FALSE` is set where the program really stops: a closed and
empty queue, a closed writer, a worker that has exited, a runtime that was
stopped or whose loop was left, and where the bounds of a scenario are used up (among them the edits and turns of
`pages`). The pipeline never stops and is checked for deadlock.

## 4. What is proved

`CommandPipelineProofs` proves, for all constants that satisfy the assumptions
of the modules:

- `PipelineInvariant`, `PipelineSafety`: `Spec => []PipelineInv`, that is
  `AtMostOneRpc`, `OneOwner`, `OutcomeIsGenuine`, `StreamIsDurable`,
  `TerminalAuditNotLost` and `AuditsAgree`, with the types of the variables
  they are about. `AuditsAgree` says that of a command at most one end is audited, the
  one its document has, and that any other `command.rejected` under its request id is that
  of a request which was itself turned away;
- `NoDuplicateExecution`: `Spec => []AtMostOneRpc`, which is what several worker
  replicas rely on;
- `PipelineImplementsContract`: `Spec => Contract!Spec`.

None of the six properties is inductive alone. What is added: a handler that
is about to decide finds its command still `requested` and is alone with it
(`HandlerInv`); a command that is not claimed has left no trace
(`UnclaimedInv`); a task knows the status and the outcome it is about to store
(`TaskInv`); an audit run holds statuses the documents have, and clears a flag
only after the audit is stored (`AuditRunInv`). Queue and poll appear nowhere
in it: safety does not depend on what the worker chooses to try next, and the
proof says so.

- `CommandsKeepTheirOrder`: `Spec => []OrderInv`, the types of all variables, one
  RPC at a time per connector and worker, and, as long as no database call of a
  worker has failed, no command claimed before one that was authorized before its
  creation; for any number of workers, which the run cannot afford. Here the poll
  and the queue do matter. `OrderIInv` says who stands where: an authorized command
  that is ahead of another is in front of it wherever that one waits in a lane
  (`LineInv`); while a poll waits for the database, one that the query left out
  because it was pending is still in its lane or authorized no more (`FindingInv`),
  and a poll never holds more candidates than its queue has room for
  (`FoundInv`), so that none is refused and the next one accepted; the task past
  its claim is the one its lane runs (`OwnsInv`); documents are created once, in
  the order the query sorts by (`CreatedInv`, `AheadInv`).

`ProjectPublishingProofs`, for any requests, keys and editors:

- `PublishingNumbers`: while a project is not being deleted its versions are
  numbered 1 to n without a gap and n is the active one; an answer names the
  version of its own key. What makes it inductive (`NumbersInv`): the counter, and
  what a catch-up is about to write into it, are at most n. The counter is not
  exactly n because the catch-up (`publish.js:37`) may save what it read before
  another request's commit; the unique index then refuses the number that would
  be given out twice.
- `PublishingIsSafe` (`PublishingInv`) and `SavesKeepSavedChanges`
  (`SavedChangesStay`): for any number of editors as well. What both need is what a
  page knows of the draft. A content that was seen at revision r *covers* the draft
  (`Covers`): if the draft is still at r, or if every revision since was an upload
  that its page has not heard of yet, each change of the draft is in that content,
  was removed by somebody, or is in one of those uploads. That holds of what a page
  shows, of its recovery copy, of the call that is under way and, once the call is
  answered, of the page at the answer's revision (`Knows`); a call that can still be
  accepted holds no more than the recovery copy does. So a save that passes the
  revision check takes nothing out of the draft (`ChangesStayStep`), and the content a request
  has validated is the one it commits (`ValidationKept`), until an upload has met
  another change of the draft (`overlapped`), from where on the finding of section 5
  lets anything happen. `PublishingIInv` joins these with the types and `NumbersInv`.
  The constants are assumed to be what the code's values are: changes are numbered,
  and `None`, an absent recovery copy, is not a copy.
- `PublishingIsAHistory`: `Spec => ImplementsVersionHistory`, through the mapping
  that takes the versions, the active version and the phase of the deletion.

`WorkerLoopsProofs`, the worker's loops:

- `WakesAreNotLost` (and `StoppedIsQuiet`): the poller alone, whatever its caller has room
  for. Types, `NoLostWake` and `StopIsQuiet` are inductive together: what `NoLostWake` needs
  is that a rerun is noted only while a poll is in flight and not after a stop, which `TypeOK`
  states. A command whose wake arrived is read, or a poll or rerun that has not read yet is
  on its way, or a poll that came after the wake failed or had no room for it; then the
  interval timer's poll is next.
- `RequestsArePrompt` (and `NeverLeftAsleep`): the scheduler alone; timer and pass
  exclude each other, so the end of a pass decides what is armed.
- `WorkerLoopsAreSafe`: both at once, of `LoopsSpec` (`LoopsSafety`), and
  `IdleWorkerOwesNothing`. Every step of the composition is a step or a stutter
  of the scheduler (`SchedulerSteps`), and of the poller but for `CloseQueue`
  (`PollerSteps`), so that the invariants carry over; `IdleOwesNothing` relates the
  two through deferred audits and is strengthened to a pass that is about to earn
  the idle delay (`CaughtUp`) and by the fact that a command is waiting, in the
  queue, or completed, and never two of these (`Apart`). It uses `LoopsAssumption`:
  a page limit of zero would read an empty page whatever is owed.

`WorkerBuffersProofs`, for any keys, tasks, capacities, batches, samples and values:

- `BuffersAreSafe`: `BuffersInv`. Of the queue (`QueueIInv`): ids, counters and lanes are
  three accounts of the same tasks. They agree because a lane has no gap and no
  task twice (`NoGap`, `NoRepeats`), from which the lemma `Counting` derives the
  counters; only the head of a lane runs (`BeganRuns`), and a queue accepts exactly
  while it is not closing. Of the archive (`ArchiveIInv`): what waits is ordered,
  and queue, batch, archive and counted drops together are everything that was
  accepted (`Accounted`); after one, two and three attempts of an undisturbed
  `close()` at most two, one and no batches are left (`AttemptsSuffice`). Of the writer
  (`WriterIInv`): what waits is the newest value of its key, and each key waits once; a
  value being written is not newer than what was offered, and if its key no longer
  waits it is the newest or the map was full when its successor went (`Books`); after a
  return of `close()` nothing is under way and what is left is left after three failures
  (`WriterCloses`). The merge of a failed batch is told by what it keeps (`Merged`) and the
  overflow by what it takes off the old end (`Trimmed`), of maps of any length.
- `NoOlderValueIsStored`: `BuffersSpec => StoredNeverGoesBack`. What is being written is at least
  what is stored, also after a write that was applied in part and is repeated.
- `QueueImplementsSerialLanes`: `Spec => ImplementsSerialLanes`. `Enqueue`, `BeginTask`,
  `EndTask` and `Close` map to `Accept`, `Begin`, `End` and `Close` of a lane, timeouts to
  a stutter.

`RuntimeServerProofs`:

- `PurgesAreSafe`: `RetentionInv`, for any number of commands and janitors. Nothing of
  the lease is used: a document is marked only after its audit was found, the
  deleting query asks again whether it may go, an outcome never changes, and
  audits and recorded values are never taken back. What is added (`PurgeInv`): a mark
  implies the audit and an outcome that may be forgotten, and what a janitor has
  chosen, at the step it has reached, may go (`ChosenMayGo`).
- `StreamsAreSafe`: `StreamInv`, for any number of pages. A page uses its own sessions
  (`OwnSessions`) and opens one at a time (`OneOpen`); the hub owes values only to
  those that are its clients (`OnlyClientsAreOwed`), and what it owes has a flush timer
  (`NothingStuck`). That the cap holds (`SessionsCapped`) is a counting argument: of a set
  of sessions, those with fewer than n newer ones are n at most (`NewestAreFew`).
- `SecretsAreSafe`: `SecretsInv`. Stamps only grow, so a call whose stamp is the secret's
  has read the very secret that is stored, and the compare-and-set is an exact one;
  calls are numbered, so the lease has one holder; a pair a refresh has been given
  is new to everybody, so one that was replaced does not return; the description
  is wrong only between an administrator's two writes.
- `ServerlessIsSafe`: `ServerlessInv`, for any calls, commands and users, failed calls and stopped
  functions. One call serves a command, the one that created it (`OneServes`); what it has done
  to the command follows from the step it is at (`Delivers`, `Concludes`), what a document
  says follows from its outcomes (`Recorded`); an output that is on was pressed by a
  command no release was confirmed of (`OnIsPressed`), and what is open has its call
  unless that one was disturbed (`SomebodyConcludes`, `SomebodyReports`). A step of one call
  that keeps its own part keeps the rest (`RestFollows`). `ServingAssumption`: an instance names
  the calls that arrive, their commands and what may fail.
- `ShownCommandsAreTrue`: `ViewInv`, for any requests. Everything on its way to the page -
  pushes, cached statuses, restored histories, what a call has been told - says of a
  command no outcome but its own (`ReportsAreGenuine`, `LoopKnows`); what the entry says
  is one of these, or the page's own verdict on a request that failed (`EntryTrue`), and remembering
  one more keeps it so (`Remembering`). An entry is left pending only while a call for its command
  runs: a call that ends leaves an outcome of its command, or an entry of another
  (`PendingIsWatched`). `ViewAssumption` numbers requests from 1 and keeps `None` apart.
  What a page restores, a loop over the commands it was told of, is written in closed
  form (`Recalls`): they are listed by age, so the newest is shown, or nothing changes.
- `ServerIsSafe`: the five side by side, in the composition the run checks.

`RuntimeSimulationProofs`:

- `RpcsAreSafe`: `BridgeInv`, for any pages,
  RPCs and requests. What is known of an RPC only grows (`Onward`), and so every
  request keeps what it has seen. An RPC's stages are past in their order (`StageIsPast`),
  a claim fits the stage it is for (`ClaimFits`), and as long as no call failed and no
  claim expired only the claim's holder sends (`SendsWithClaim`), which makes each answer
  the only one. Each request is placed (`Placed`, `Completes`), each page minds what it has
  applied (`Minds`, `Remembers`). `BridgeAssumption` keeps the names apart.
- `PulsesReachThingsBoard`: `TelemetryInv`, for any bound on the queue (`TelemetryAssumption`)
  and any changes. The ordered changes still in the queue are the last ones, in their
  order (`InTurn`); those it is done with were told in order, the last of them no
  later than the value the page believes to be published (`Upto`). A drain drops a job only
  because its value is that belief, so the place of the belief serves the job as well; an
  answer makes its value the belief only if it was what was told last, unless somebody
  told something in between, which is what `blurred` says (`Tells`). The first job that is
  news is found by well-founded choice (`Least`).
- `RecipesRunAsGranted`: `ControlInv`, for any pages and users, recipe and buttons, answers lost,
  calls failing and reloads. Three parts, each resting on the one before. A call under way and
  its document fit, stage by stage, no two calls have one document, and a document of a press or
  shift is acknowledged exactly when its call is concluded (`DocsIInv`). An
  AUTO command is in the hands of one call or of one page that waits (`OneBears`), and its steps so far are
  those before the one in hand (`Follows`), so a step is neither repeated nor skipped; a run
  has one AUTO command (`OneRun`), and the step that came late is its last, since it found a
  newer command of the shifter, which stays newer (`Superseded`). The only page shows the
  mode and each button as the newest document says, or one call is about to change it, and
  either that call's document is stored and the newest, or no newer one is there
  (`ShownIInv`). `ControlAssumption`: a recipe sets buttons that are there, and who is signed in
  is known for every open page.
- `SimulationIsSafe`: the three side by side, as composed.

`WorkspaceAccessProofs`, `AccessIsSafe`: `Spec => []AccessInv`, for any accounts, sessions,
members, requests and PINs, and `UnlocksAreCurrent`, its part about unlocks.

- Accounts (`AccountIInv`): what a request relies on, it has read some steps ago; it may
  because what it relies on only grows (`Onward`). A version it read came with the
  password it had, and is either still that of the account, with that password, or has been left
  behind (`Knows`); the same of every session (`Proved`). What it knows besides, of sessions
  and members, is `Informed`, one conjunct per kind of knowledge.
- Owner: who may change an owner is one, or the update finds none (`KnowsMembers`).
- Cap: the sessions that nobody is about to revoke are within the cap, or somebody is about
  to count (`Capped`); a listing keeps its own session and the newest of the others, of which
  there are fewer than the cap (`NewestAreFew`), and each it does not keep has a newer one.
- Assignments: one request at a time is in the midst of changing a member, and then the
  membership has its role and the assignment none by the time it is given (`Follows`).
- PIN (`PinIInv`): a first version has no PIN, and the lock is on where there is one (`LockFits`);
  a record grants what its request saw (`GrantsWhatItSaw`), what a request saw is what there
  is unless the version has moved on (`SeenIsCurrent`), and unlocks of one version agree
  (`UnlocksAgree`), the last two as long as no two changes overlapped.

Assumed (`AccountAssumption`, `SetupAssumption`): two sessions at least are allowed, names are
kept apart, and at first whoever is there is a member, one of them owner, with no more
sessions than allowed.

`ConnectorProcessesProofs`: `ProcessesAreSafe`, `Spec => []ProcessInv`, and `SamplesFlow`,
`Spec => []FlowInv`, for any tags, connectors, reloads, edits, limits, exits and failures; one
inductive invariant for each part, and one for the samples.

- Runtime: while it is up the driver holds its socket (`UpIsHeld`), a stopped loop that
  was not late never gets to open another (`StoppedIsDown`), and a loop that has
  returned holds nothing (`ReturnedIsOver`).
- Reload: a slot is free whenever one is needed, by counting the Map and the
  reloads against the slots (`SlotIsFree`); what a reload stops is in the Map for
  its own connector at most (`VictimsAreOwn`); until reloads overlap there is one,
  and what it stops is what the Map has (`OneAtATime`, `VictimsAreCurrent`).
- Data plane: messages on the wire bear the health of the present run, since the
  wire is empty when the next process is started (`Carries`); a mirror about to be
  started has no frames left; no restart is scheduled once the shutdown has begun
  (`Winds`).
- Samples (`FlowIInv`): between what the receiver has seen and what was published last the
  samples of a tag stand in their order, those of a frame before those of the next, with one
  sample of a tag to a frame (`Orderly`, `OnePerTag`). That survives what happens to frames -
  being read from the front, removed from the middle, joined or cut off - and to maps,
  where a newer sample takes the place of an older one (`PutKeeps`, `ArrivedOrderly`).
  `SourceFlows` says it from the worker to the hub, `Flows` from the hub to the mirror's process,
  with the statuses: accepted are those the process got and those that wait. A mirror to be
  restarted has nothing waiting, so its new process gets the statuses from the first.
  `Owed` is the account of drops. What is computed along a sequence (`PutAll`,
  `Commands`, `Drops`) is a function of the numbers up to its length: that there is one, that it
  is unique, and what it gives for sequences joined or cut is proved by climbing from 0
  (`Climb`, which rests on the least number of a set, `Least`). `PlaneAssumption`: the limits
  are positive and an instance says how often each thing may happen.

Only model-checked, each for its reason:

- liveness, and everything that needs `ENABLED`: out of the prover's reach;
- `PagesInv`: pages sort histories, clean up documents and join flows, and these operators
  are folds and filters of the community modules, about which the provers know
  nothing.

## 5. Findings

- `draft_uploads`: the README of the repository promises "Autosave with
  optimistic revision checking" (README.md:22); `POST /api/svg` reads the draft and
  later writes all of it back without the revision in the filter, so what was
  saved in between is lost and its revision number is given out again.

- `reset_steady`: RESET asks the operator to confirm that "the active sequence will stop and
  outputs should enter their configured steady state" (`RuntimeCanvas.jsx:1153`);
  `simulation-sequence.js` reads at line 64 that AUTO is the newest mode and stores its step
  at line 113, two calls later. A RESET acknowledged in between is followed by the step, and
  the output is on for the next toggle, a reload and every other page. At most
  one step of a run is that late (`LateStepsAreFew`).

What the code leaves open, and the properties therefore leave out:

- A socket that closes between `connect()` and `subscribe()`
  (`connector-runtime.js:102`) is never noticed: the connector stays online and
  receives nothing (`link = "unnoticed"`; exempt from `LossIsHandled`).
- `stop()` that comes while the target is resolved finds no socket to close;
  the one opened afterwards stays until its first sample or its end (`late`).
- Until the `offline` health update is stored, tags of a lost connection are
  still good; after `stop()` the stored health stays as it was.
- Two overlapping reloads may launch two runtimes for a connector, of which
  one is in no Map and is never stopped (`connector-worker.js:297`;
  `OneRuntimeEach` holds until reloads overlap).
- `close()` of the chart archive tries three times; with a write in flight its
  attempts do nothing, and with more than three batches, or a failure, the
  rest is lost (`UndisturbedCloseArchives` states what remains). A partly
  applied insert is inserted again.
- An audit that always fails blocks the audits behind it in its page;
  `CommandsAreAudited` assumes that each write succeeds some time.
- A command whose claim fails in the database is overtaken by the next one of
  its lane (`connector-worker.js:458`), though the runbook promises an in-process
  lane per connector "so one connector executes RPCs in order"
  (docs/runbooks/thingsboard-staging.md:23). `ClaimedInOrder` ends with the
  first such failure.
- When the update that stores a timeout fails, the `catch` clause
  (`connector-worker.js:510`) stores `failed`; the runbook says a timed-out command
  is shown as unverified, "never as success, failure" (line 83).
- When the health update in the `catch` clause fails (`connector-runtime.js:110`),
  the loop is left, with the runtime still in the Map and nobody to start it again, and
  before the tags are marked: event-driven tags stay good,
  though the repository's README says they "become disconnected with the
  connector" (line 293).
- Two clicks with different request ids can both pass the cooldown
  (`commands.js:85`), and a command can be authorized without its audit (line 200).
- A page that reconnects keeps the values it missed as they were, and the
  version it had loaded (`RuntimeApp.jsx:349`). A socket that closes while it is
  being authenticated stays among the hub's clients until its session ends
  (`runtime-stream-hub.js:77`).
- A page shows any 4xx as rejected (`RuntimeApp.jsx:931`), and may leave an entry
  pending when the history cannot be loaded (834), does not list the command, or
  when a push revives a command it had given up (`command-lifecycle.js:9`: unknown
  ranks with accepted).
- A command whose audit was lost is never purged; as many of them as a batch
  has room for would keep the others from being marked
  (`command-retention-janitor.js:194`).
- Storing a device token writes back the pair that was read and may undo a
  refresh (`connectors.js:149`); two administrators at once may leave the
  environment describing another pair than the one stored.
- With `SCADA_MAX_AUTH_SESSIONS=1` two sign-ins at once revoke each other
  (`auth.js:369`). Two owners who demote each other leave the workspace without one
  (`members.js:119`; `crossed`). Updates of one member that overlap, or one that is
  cut short, leave an assignment with another role than the membership (`tangled`).
  A callback of an old Google tab clears the cookie of the newer one
  (`google-auth.js:34`), whose sign-in then fails.
- The bootstrap owner who signs in while he is member of no workspace is read again after
  his password was checked (`auth.js:72`): a change of the password in between does not
  stop his session, which carries the later version (`overtaken`).
- Two changes of a PIN that overlap give two PINs one version, and an unlock for
  one counts for the other (`projects.js:117`; `overlapped`).
- A child that reports `error` without `exit` is not started again
  (`managed-connector-worker.js:112`), nor a mirror whose restart throws
  (`rust-shadow-worker.js:147`). A telemetry frame that is given up takes its
  count of drops along (line 205).
- In a simulation: after STANDBY a page applies an RPC again
  (`RuntimeApp.jsx:688`); an answer whose update finds nothing completes the
  oldest unfinished RPC instead, with an empty answer (`simulator.js:155`); an RPC that was
  polled but not recorded is lost (`simulator.js:113`); a value that changed back
  while a lost answer was repeated is taken for published (`RuntimeApp.jsx:499`);
  snapshots are stored in the order of the requests, not of the timestamps
  (`simulator.js:254`); unfinished RPCs of a version that is no longer published
  are never found (`simulation-rpc-state.js:121`).
- Without a worker: a function that is stopped leaves its command dispatched or
  accepted, and between press and release the output on (`commands.js:297`); nobody looks
  for it. An outcome whose audit fails is stored as failed (`commands.js:323`), unless it is
  acknowledged, whose `return` is not awaited inside of the `try`.
- A stale session is refused before the duplicate is recognized (`commands.js:61`), so a
  retry of a command that was acknowledged is, after a publish, refused, and audited as
  `command.rejected` under the id of the acknowledged one; only the data of the event
  tells the two apart (`AuditsAgree`).
- A poll that finds the queue full, or more commands than it may read, leaves the rest to the
  interval timer, even if each of them had a wake (`connector-worker.js:431`;
  `excused` in `NoLostWake`): a task that ends wakes nobody.
- An autosave that is due while the page has a blocking issue is dropped without notice:
  until an edit or an undo puts the page right, or while the switch is off, changes may
  stay in the browser for ever (`BuilderPlatform.jsx:430`, 588; excepted in
  `ChangesAreSaved`).
- A page whose first session cannot be created says that the project is invalid and never
  asks again (`RuntimeApp.jsx:301`; excepted in `StreamSettles`).
- Shift and a press on a box of the selection take it out of the selection and drag it with
  the others all the same; an arrow key during that drag moves the others alone
  (`RuntimeCanvas.jsx:110`; `torn` in `DragIsRigid`).
- A chart: a kept answer that is chosen while a read is under way neither stops
  that read nor takes its number, and is replaced by its answer
  (`RuntimeCanvas.jsx:876`). A source that numbers its samples anew replaces older
  ones of the same number (`runtime-history.js:64`). An archive that is behind by
  more than the overlap leaves a hole in what is drawn (`RuntimeCanvas.jsx:1083`),
  and two large buckets of overlap may push historical points out of the 2000 that
  are drawn (line 1092). A batch sent again after a lost answer is stored
  twice, and one that is refused is sent for ever.
- Numbers: `validateProjectSchema` looks at the resolved range only, so a bound gauge
  whose minimum is not below its maximum, and a slider whose step exceeds its
  range, are accepted and shown with the tag's; `sameRange` ignores steps, so a
  migrated slider may lose its own; an invalid range that was typed is shown as 0
  to 100 and lost with the next edit.
- Schematic: a clipboard older than the document brings references that dangle
  (`adrift`); a keyboard edit during a drag puts an older document after newer ones
  (`mixed`); a second shifter has the first one's default method; deletion and the
  fields of the inspector ignore a lock; the access of a bound tag may be changed to
  one its component cannot use.
- Canvas: distributing components that overlap may put one at a negative place, one
  that is entirely outside may be resized below zero; copies, cascades and typed
  numbers may be outside.
- Flows: paths that differ in case only are one candidate (`node-red-import.js:268`);
  an import key does not name the project it came from; only the first component
  of a tag is asked for its method; command components without a method send
  `action` or `setValue` (`commands.js:343`) where the flow routes `set<Path>`; charts come
  back as values, and tags without a component are suggested one.

## 6. Not modelled, and the plan

Left out of what is modelled: sliders, pulses and other controls of a simulation beside the toggle,
its role checks and conditions; the feedback waiter's choice between samples; the reload of
chart writers and the configuration of their storage; rate limits; duplicating a
project; the skew of clocks between page and server; heartbeats, responder
generations and ramps of the simulation; resizing with a locked aspect
ratio, appearances, invisible components and the conversions of one field in an
import.

Left out altogether, each with its reason under "components" in
`PROJECT.json`: what the Rust process does with its frames (its result decides nothing),
telemetry queries and formatting, rule evaluation, the legacy HMI, drawing and
layout, cryptography and OAuth. They are most of the repository's lines.

Next, in this order:

1. The remaining controls of a simulation.
2. The feedback waiter of `ConnectorRuntime.write`; reload of the chart writers
   and the routing of events to them.
