# A verification development of the ClawCodex agent runtime and desktop client

ClawCodex is a coding agent with a terminal and a desktop front end. Most of
its source is I/O and presentation (model vendors, tools, user interfaces).
Two parts have a logic of their own that is hard to test. The multi-agent
runtime, concurrent Python with locks, events and files: a session delegates
work to agents that run on threads of their own, can be messaged, interrupted,
killed and resumed, share a bounded number of slots, and report their end to
whoever started them. And the session logic of the desktop client, TypeScript
whose callbacks, timers and effects interleave: it keeps one connection to a
back-end alive, and sends prompts the user queued behind a running turn. This
directory models both in TLA+, checks them with TLC and proves their central
invariants with TLAPS.

Paths below are relative to `src/src/` unless they start with `src/`.

## 1. Inventory

| component | state | operations | hard behaviour |
|---|---|---|---|
| admission control, `services/swarm/agent_supervisor.py` | `_live` (id -> entry with ancestors, status, controller), `_paused` | `admit`, `release`, `interrupt`, `is_interrupted`, `set_paused`, `has_live_descendants` | every method is one critical section of an RLock, but its callers act between calls: an interrupt lands while the run exits, the controller captured under the lock is aborted after it |
| delegated runs, `tool_system/tools/agent.py` | the run, its worktree, its abort controller | spawn, synchronous run and cleanup, `_launch_async_agent`, `_restart`, `_background_lifecycle` | admission must be undone on every failure; cleanup order (outcome, release, finished) |
| worktrees, `agent/worktree.py` | path, `retained`, `closed` | prepare, `close` | `close` asks whether the checkout is in use and removes it later |
| background task state, `tasks/local_agent.py` | status, `notified`, `pending_messages`, controller, per id | register, queue, drain, `complete_agent_or_drain`, `fail_agent_task`, `kill_async_agent` | completion, failure, kill and messages race; each mutator is atomic, the sequences are not |
| continuation, `agent/resume_agent.py` | `lock`, `finished`, `restart` | `_resume` | concurrent resumes of one id; the killed worker may still be running |
| completion notices, `utils/task_notification.py` | `notified` | check-and-set, enqueue | once per end, truthfully, by task id although ids are reused |
| eviction, `tasks/eviction.py` | none | `sweep_once` | snapshot, then removal by id |
| SendMessage, `tool_system/tools/send_message.py` | none | `_route_in_process` | queue, else resume, else queue again |
| team runtime, `services/swarm/team_runtime.py`, `team_file.py`, `tasks/in_process_teammate.py` | roster, identities, outstanding controls, per teammate state | spawn, send, receive, plan approval, shutdown, work turns, exit, delete | one lock, but work turns and mailbox reads are outside it |
| task board, `services/swarm/task_board.py`, `tool_system/tools/tasks_v2.py` | tasks with owner, status, dependencies; a file | claim, update, release, version check | claim races, a crash of the owner, an idle teammate that skips an unchanged board |
| mailboxes, `services/swarm/mailbox.py`, `mailbox_poller.py` | append-only files, cursor files, versions seen | append, sweep | append during a sweep, failed cursor write |
| permission bridge, `services/swarm/leader_permission_bridge.py` | pending requests | request, decide, time out | the answer races with the timeout |
| session shutdown, `tasks/shutdown.py`, `tasks/stop_task.py` | none | pause, interrupt, stop, join, delete | order of interrupt and stop; bounded joins |
| tool execution, `services/tool_execution/` | tool queue, results, sibling abort | add, run, abort, emit in order | concurrency-safe and exclusive tools, aborts among siblings |
| workflow engine, `workflow/` | journal, budget, slots | agent calls, replay, resume | replay must be aligned with the journal, budget checked after the slot |
| uploaders and transports, `transports/` | pending batches, retry state | enqueue, flush, close | at most one request in flight, back-pressure, retry |
| bridge, `bridge/` | flush gate, capacity, sessions | start, enqueue, end, drop | events during the history flush |
| scheduler, `scheduled_tasks/` | tasks, last run | tick, missed runs | fire once, persist |
| message queue, `utils/message_queue_manager.py` | queue with scopes and recipients | enqueue, drain | every notice reaches its recipient |
| abort controllers, `utils/abort_controller.py` | signal, listeners | abort, link | parent aborts while a child is linked |
| desktop JSON-RPC client, `src/ui-desktop/packages/shared/src/json-rpc-gateway.ts` | socket, connection state, pending calls | `connect`, `close`, `request`, socket events, two timeouts | a timer or an event of a socket that is no longer the client's; calls pending on a lost one |
| desktop boot and reconnect, `src/ui-desktop/src/app/gateway/hooks/` | `reconnecting`, `reconnectTimer`, `bootCompleted`, `$gatewaySwitching`, the overlay | boot, reconnect attempt, timer, wake-up, mode switch, `requestGateway` | four callers dial one client; a socket lost while one of them is between two awaits |
| desktop composer queue, `src/ui-desktop/src/store/composer-queue.ts` and its two drainers (`use-composer-queue.ts`, `use-background-queue-drain.ts`) | queues and parks per session, failure counts, retry timers | enqueue, promote, delete, send now, stop, resume, drain | effects that run only when a dependency changes; two drainers on one queue; ids that lag behind the view |
| desktop submit pipeline, `src/ui-desktop/src/app/session/hooks/use-prompt-actions/submit.ts` | `_submitInFlight`, busy flags | submit, resume, deliver, fail | the user leaves the session in mid-flight; an answer that is lost |

Everything else (model clients, compaction, permissions rules, commands,
settings, auth, user interfaces, evaluation) is listed as not modelled in
`PROJECT.json` with the reason.

How they interact: the Agent tool calls `admit`, prepares a worktree, and
either runs the agent in the foreground or registers a task and starts a
thread of the session's thread manager. SendMessage, TaskStop, the user's
interrupt and the eviction sweeper act on the registry entry and on the
supervisor from other threads. The end of a background run is a notice on the
message queue. A continuation lets SendMessage restart a finished agent under
the same id, through the same launch code. The desktop client is a process of
its own that talks JSON-RPC over a WebSocket to an agent server: boot,
reconnect and mode switch dial it, everything else goes through
`requestGateway`, and the submit pipeline is one of its users.

What makes each correct, for the components modelled so far: slots bound the
workers at work (not the labels); two workers of one id never overlap; no
accepted message is lost or consumed twice; a terminal status stands; an end is
announced once and truly; a lock or a slot is never stranded; a checkout is not
removed under an agent that works in it; a claimed task has one worker, goes
back to the board when its owner ends, and no claimable task is overlooked; the
connection state tells the truth, a lost connection is always somebody's
business, and no call hangs; a queued prompt is run once, in its session, not
against a Stop, and never forgotten.

## 2. Modules

| module | role |
|---|---|
| `SlotPool` | abstract specification of what the session promises about its workers: at most `Capacity` are busy, and none starts for an id that is busy |
| `AgentRuns` | abstract specification of the runs of background agents: a generation starts once and alone, its end is decided once, what the parent is told of it is how it ended |
| `TeamWork` | abstract specification of the board: a task is handed out while nobody works on it, and is open again only when its worker has stopped |
| `PromptOutbox` | abstract specification of the composer's queue: a prompt waits until it has been run or withdrawn, and runs once, in its session |
| `AgentSupervisor` | admission control with its callers: foreground and background runs, nesting, interrupts, worktrees, resumes |
| `LocalAgent` | the life of background agents: launch, inbox, end, notice, kill, resume, eviction, with failing thread starts |
| `TaskBoard` | the board a team shares, the TaskCreate and TaskUpdate tools on it, and the work loop of the teammates that claim from it |
| `JsonRpcGateway` | the desktop's JSON-RPC client: sockets, connection state, calls |
| `GatewayBoot` | extends it with its four callers: boot, reconnect loop, mode switch, lost requests |
| `ComposerQueue` | the queue of the desktop composer, its two drainers, the submit pipeline and the inbox of the server |
| `MC...` | instances for TLC |
| `AgentSupervisor_proofs`, `LocalAgent_proofs`, `LocalAgentHistory_proofs`, `LocalAgentRuns_proofs`, `TaskBoard_proofs`, `GatewayBoot_proofs`, `ComposerQueue_proofs` | theorems and proofs |

How a component is mapped to its abstract specification is stated in the
component's module, next to the `INSTANCE`: a slot is held or not (`SlotPool`);
a run is new until its generation is registered, registered until its thread
starts, alive while the worker is, and gone after (`RunPhase`); a teammate's
work is the task of its turn, and meddling is what `disturbed` records
(`TeamWork`); a prompt waits while it is in a queue, and is under way from the
moment a submit has locked its session until that submit has ended
(`PromptOutbox`). Everything else in the components, the locks, the program
counters, the inboxes, the timers and flags of the drainers, is invisible there.

### AgentSupervisor

`live`, `ancestors`, `interrupted` and `paused` are the supervisor's fields;
`run` is where the caller that owns an id is between admission and release, and
`aborted` holds the controllers whose signal fired. An operation that is one
critical section of the supervisor's lock is one action: `Admissible` and
`Reserve` are the two halves of `admit`, and `Spawn` and `Resume` are its two
callers. What a method does after leaving the lock is its own action:
`Interrupt` captures the controller in `aborting`, `FireAbort` aborts it. The
cleanup of a run keeps the order of the code: `Finish`, `CheckInUse` (the call
of `in_use()`), `CloseWorktree`, `ReadOutcome` (`is_interrupted`), `Release`.
A controller is a pair of an id and a run number, because each resume makes a
fresh one; `flag` is a history variable that records which runs `interrupt`
claimed to have reached, and when.

### LocalAgent

Actors are processes with a program counter: a spawning call (named by its
agent), senders, killers; a worker thread per generation `<<agent, n>>`; the
sweeper. `registry` maps an id to its task state or `Absent`; `cont`,
`finished` and `lock` are the continuation. Every registry mutator is one
action, since `RuntimeTaskRegistry.update` runs it under its lock:
`CompleteOrDrain`, `FailTask`, `MarkNotified`, `Kill`, `QueueMessage`, and so
on; `enqueue_agent_notification` is two, `MarkNotified` and `EnqueueNotice`.
The launch is `Admit`, `Register`, `ClaimName`, `Continue`, `StartThread`, and
on a failed start `UndoTask`, `UndoCont`, `UndoFinished`, `UndoSlot`, in that
order. `_resume` is `FetchContinuation`, `Precheck`, `AcquireLock`, `Recheck`,
`WaitFinished` (which may time out), then the launch, under the lock.

Abstracted: prompts, results and progress are left out; a message is its
sender; the eviction deadline may have passed for any terminal entry; a name
claim may be refused at any time; admission may be refused although a slot is
free, because the user may have paused delegation.

Left out: the promotion of a foreground run to the background, the UI's pin on
a terminal entry, teammates and remote peers as recipients, transcript files.

### TaskBoard

A transaction holds the board's lock, reads the file first and replaces it
last, so it is one action on one board (`status`, `owner`, `blockedBy`):
`TaskCreate`, `UpdateFields`, `Delete`, `Claim`, and the `ReleaseTasks` of
`Exit`. A completion is two, since its hooks run without the lock:
`StartCompletion`, then `VetoCompletion` or `ApplyCompletion`, which finds
whatever the board has become. `pc` is where a teammate's loop is: in a work
turn, idle, between the version check and the claim, on its way out, or gone.
The file's version is one bit per teammate, whether the version it read last is
still the board's; with `CoarseClock` a write may leave it as it was. `killed` is the
aborted lifecycle controller; `Kill` releases nothing, only `Exit` does.
`disturbed` is a history variable: tasks that a TaskUpdate took out of their
owner's hands or started in the name of another, which the tool allows anybody.

Abstracted: ids are never reused because they are random; the two directions of
a dependency are one; the message that wakes a teammate is a nondeterministic
`Wake`; an approved shutdown is one way a turn may end.

Left out: a `release_tasks` that fails at the exit (the code logs it and leaves
the tasks in progress), the wait for a plan approval, during which a teammate
claims nothing, subjects, descriptions and metadata.

### JsonRpcGateway and GatewayBoot

Every `new WebSocket` is a member of `Sockets`, reused once it is closed and
nobody waits for it, so the bound is on sockets alive at once. `socket` and
`state` are the client's fields, `waiter` is who awaits the handshake of a
socket (and so whose timer is set), `call` and `via` a pending request and the
socket it was sent on. A step is the code between two awaits: `GotConnection`,
`Connect`, `SocketOpens` (with the `setState` listeners of the boot effect,
`OnState`, in the order of the code), `Synced` and so on; `JobFails` and
`AttemptEnds` are the catch and finally blocks. `close()` does not clear the
timer of a handshake, and neither does `HangUp`.

Two constants say what a run includes. `Interleaved`: a mode switch may meet a
job under way, and a lost request may dial beside the boot or a switch.
`LossInSync`: a socket may be lost while boot or switch refresh what they show.
Back-off times, authentication, profiles and several windows are abstracted;
a hot reload, unmounting and a second switch during a switch are left out.

### ComposerQueue

A drainer is the composer or a session in the background; `job` is where its
submit stands: `asked` (picked, waiting for the middleware or a microtask),
`resume` and `attach` (before the server has it), `sent` (before the answer),
`done` (before the `finally` that clears the drainer's flag). `Quiet` is the
browser's order: an event, a timer or an answer is a task and waits for the
microtasks. The effect of the composer may run at any time, as every render
with a new callback runs it; that of the background runs only when it is `due`,
and `Noted`, a part of every step, makes it due exactly when one of its
dependencies has changed or its timer has fired.

`route` is the composer's queue key and `view` the selected session, which
follows it: a drain takes its key from one and its runtime id from the other.

`busy`, `interrupted` and `awaiting` are the client's picture of a session, and
`pending` and `active` what the server has: the two differ most of the time.
Every submit sets the picture before it has sent anything (`Seed`) and clears it
when it fails (`Unseed`). `CancelRun`, a part of `Halt` and of `PromoteNow`, makes the
session idle at once, before the server is even asked to interrupt, and whether
or not a prompt of its is on the way: so a session may be idle in the client
while its server works, and a drain may start behind a turn that is still
unwinding. The server then tells what it pleases: `TurnEnds` (message.complete,
also when more waits in its inbox), `EndUnheard` (its frame is lost),
`AnswerStarts` (the first frames), `ToldRunning` and `ToldIdle` (session.info). What the
client does not believe is in the guards: nothing that would make a stopped
session busy again, and no idleness while the first frame of an answer is
awaited. `Delivered` is the arrival of prompt.submit with its message.start,
`Recovers` the one repetition after "session not found", with the new runtime.
The server of this repository never answers "session busy", so the retry for
that is a plain call.

`held` is a history variable: the prompts that were waiting when the user stopped
their queue. A prompt somebody was sending at that moment is not among them, and
none is when the composer itself was in the middle of a drain of that queue.

Two constants switch on faults the application exposes itself to:
`SlowMiddleware` (a plugin's middleware that awaits) and `AcksLost` (a prompt
arrives, its answer does not, and it is sent again; or the application is
reloaded in between). Both are FALSE in the run; section 4 says which theorem
needs which. Stop is possible at any moment of a drain, and turns may end at any
moment of a submit. `MaxFailures` bounds a run: once the drainers have counted so many
failures the user changes session no more.

Left out: re-keying of a session's queue, editing in place, steering, slash
commands, direct sends by Enter, tiles, attachments, and turns the server starts
for itself (a /goal continuation).
The `busy` flag of the screen and that of the cached session it shows are one
variable.

## 3. Runs

| run | instance | what it shows |
|---|---|---|
| `supervisor` | a chain of 3 agents, three levels deep, one in the foreground, nobody resumed | a foreground run reports the interrupt it was given, no checkout is removed under a live descendant, also when the middle one exits first |
| `sup_slot` | 2 agents, 1 slot, one resumed; fair | `AgentSupervisor` implements `SlotPool`: slots bound workers; no stray abort, an interrupt gives the slot back |
| `sup_worktree_resume` | two levels and a resume | violated, see below |
| `agent_lifecycle` | 1 agent, 3 generations, 2 senders, 2 killers, sweeper, failing starts; fair | with every actor at once, `LocalAgent` implements `AgentRuns`, no lock is stranded, no message consumed twice or lost by a completion; of the end of an agent that was not resumed the parent is told once, truly and eventually |
| `agent_resume` | 2 agents, 1 slot, 2 generations, 2 senders, 1 killer; fair | `LocalAgent` implements `SlotPool`; no running entry without a worker, every call returns, a killed run exits |
| `agent_stale_notice` | the smallest instance that shows it | violated, see below |
| `board` | 2 teammates, the lead, 2 tasks, 2 spawns, one TaskUpdate besides completions; symmetric | a claimed task has one worker, no exit leaves work in progress, `TaskBoard` implements `TeamWork` |
| `board_live` | 1 teammate spawned up to twice, the lead, 2 tasks, repeating file versions; fair | an idle teammate finds every task it may claim, a killed one gives its work back |
| `gateway` | 2 sockets at once, 1 call, 1 mode switch, `Interleaved` and `LossInSync` FALSE; fair | the connection state is true, one socket is live, a loss strands nobody and fails what was pending; the connection comes back and every call ends |
| `gateway_switch` | the same with `Interleaved` TRUE, 3 sockets | violated, see below |
| `queue` | 2 sessions, 2 prompts queued for one of them, the other at rest (`OtherAtRest`), 2 tries, `MaxFailures` = 1, `FewFailures`, faults FALSE | `ComposerQueue` implements `PromptOutbox`: a prompt runs once, at home; what a Stop held is sent by nobody, no prompt is lost, and a background queue falls asleep in one known place only |
| `queue_stop` | the same without `FewFailures` | violated, see below |

Bounds. `MaxRuns` and `MaxGen` bound how often an id is launched: two
generations are what every stale read, captured controller or late notice
needs, and a third lets a stale step skip one. Two senders suffice for a race
between two resumes, a third for one that comes late; each sender, killer and
spawning call acts once, which is what the code does per tool call. One slot
fewer than agents makes admission fail. `CHECK_DEADLOCK FALSE` in the `agent_*`
configurations: the actors are finite, so a session in which all have acted is
at rest. In the `sup_*` runs somebody can always pause or resume delegation.
`MaxSpawns` = 2 lets one teammate take over from another, or a name from its
former holder, with a second teammate or the lead beside it; two tasks make a
dependency and a preference possible; `MaxUpdates` = 1 is one interference with
work under way, and completions, which are not counted, add more. Symmetry is
used for the safety run only.

In `gateway` two sockets at once are one that closes and one that dials; with
three the safety properties hold as well (203,685 states), and with two
switches or three sockets so does liveness, in longer runs. In `queue` two
prompts make an order and an overtaking, two tries a retry and its end; the
other session is there to go to and to drain from, and a turn of its own would
only wake the drainers once more. One counted failure is a retry behind a change
of session, from either drainer, and a second try may still fail after the user
has stopped moving; what follows a third failure is not explored (`FewFailures`).
All the properties hold without that constraint too (1,517,947 states), and with
`MaxFailures` = 2 under it (824,910 states). Submits, restarts and gestures are unbounded. The application never
stops: deadlock is checked in both.

Fairness (`FairSpec`). A thread that has begun a straight-line handler runs it
to its end: weak fairness of the cleanup of a run, of the steps of a launch, of
a sender and of a killer. A run polls its abort signal at every yield point, so
an aborted run ends: weak fairness of the end of a run conjoined with its
abort. Nothing obliges an unaborted run to end, the user to act, or a start to
fail. The lock of a continuation needs only weak fairness because the actors
are finite and each takes it once.

In `TaskBoard` an idle loop wakes every 50 ms, so a look at the board, and the
exit of an aborted loop, are weakly fair; a tool call that has begun returns. A
turn whose lifecycle is aborted makes finitely many further calls, since the
signal is looked at between rounds: strong fairness of its end, as each call
disables it for a while. An unaborted turn may last for ever.

In `GatewayBoot` a timer that is set fires, and an await of a job ends: weak
fairness of the steps of a job, of the reconnect and connect timers, of the
close of a closing socket and of the timeout of a call. That an attempt at last
succeeds is an assumption about the back-end: strong fairness of
`getConnection`, of the dial and of a handshake. Nothing obliges a socket to
stay open, nor the user to switch.

`ComposerQueue` states no liveness: a user may delete, stop, leave or reload
for ever, and a server may keep a turn for ever. What would break "a queued
prompt is eventually sent" in the code is a lost wake-up, and there is one. The
action property `WakeUpKept` says where.

### What the violated runs show

Each run checks one statement of the repository against what the code does;
`findings` in `PROJECT.json` quotes it.

* `sup_worktree_resume`: `AgentWorktree.close` reads `in_use()` and removes the
  checkout later; a child resumed in between works in a directory that goes
  away. The property holds without resumes (`supervisor`), since a new child
  can only be spawned by a parent that is still running.
* `agent_stale_notice`: the notice of a kill is checked and set by task id; a
  killer that is slow marks the resumed generation, whose end is then never
  announced. Of an agent that was not resumed it holds (`FirstRunTold` in
  `agent_lifecycle`).
* `gateway_switch`: a mode switch during the first handshake closes its socket
  but not its timer. Fifteen seconds later the timer sets the state of the
  client to "error" over the open socket of the new connection, and `connect()`
  declines to replace an open socket: the composer stays disabled. With
  `Interleaved` TRUE `NeverStranded` and `OneLiveSocket` are violated as well. So is
  what one would like to say of a switch, that an open connection leads to the
  back-end in use: a lost request that dials beside the switch can land on the
  one just left, and nothing in the code looks. It is not stated as a property:
  with `Interleaved` FALSE no dial can be under way during a switch, and it would
  say nothing. `LossTellsCallers` and the theorems `NobodyWaitsInVain` and
  `StrandedOnlyThere` hold in every interleaving.
* `queue_stop`: the composer unparks its queue when its drain is accepted.
  `use-composer-queue.ts:234-235` says that "the auto path only reaches here
  unparked", which was so when the drain began; a Stop in between is undone, and
  the rest of the queue is sent. `StoppedWait`, in `queue`, says what a Stop is
  worth all the same.

One disagreement has no run of its own, because the run `queue` states what
holds beside it. `use-background-queue-drain.ts:29-37` wants every queue drained
whatever is on screen, and `use-composer-queue.ts:264-268` relies on a settle
that makes the session idle. But `cancelRun` makes it idle at once. When the user
presses Stop or send-now while the drainer of the session, begun in the background,
is submitting, and leaves, the acknowledgement takes the prompt off the queue and
runs the effect while the drainer's flag is still set; the flag comes down a few
microtasks later, behind which nothing runs the effect again, and the late settle
changes nothing. The next prompt sleeps until something else moves. `WakeUpKept`
lets exactly this step through and no other.

What TLC finds when a switch of the desktop modules is turned on, one at a time:

* `LossInSync`: `NeverStranded` fails. A socket that closes while boot or
  switch refreshes schedules no reconnect (`bootCompleted` is still false, or
  `$gatewaySwitching` still true), and the end of the refresh does not look
  whether the socket is still open.
* `SlowMiddleware`: `OnceAtHome` fails. The composer sends what it picked
  without looking whether it is still queued, as the background drainer does
  (`use-background-queue-drain.ts:113`), so a prompt that the other one has
  sent in the meantime runs twice.
* `AcksLost`: `OnceAtHome` fails. A prompt whose answer is lost is sent again;
  prompts carry no id by which the server could tell.

Further weaknesses are outside the instances of the properties they would
break. A message accepted between the exception of a run and `fail_agent_task`
is dropped although its sender was told it was queued; for completion
`CompletionLosesNothing` holds. `sweep_once` removes by id what a resume may have replaced since its
snapshot, so an eviction can hit a running entry (`agent_resume` runs
without the sweeper; the invariants of `agent_lifecycle` survive it). And
when the thread start of a first launch fails while a killed-and-resumed caller
holds its continuation, the resume upserts a running entry and then fails at
the lookup of the continuation, which nobody rolls back: `NoZombieEntry` is
checked without failing starts.

## 4. Proofs

All theorems hold for every value of the constants that satisfies the named
assumptions (`AgentsAssumption`, `ActorsAssumption`, `BoundsAssumption`,
`TeamAssumption`, `NoneAssumption`, `BootAssumption`, `QueueAssumption`:
finite disjoint sets of actors, positive bounds). TLC checked each invariant,
including the strengthenings, before it was proved.

`AgentSupervisor_proofs`. `SlotIffWorker` and the capacity bound need `RunsInv`
(an agent is idle exactly while it was never admitted) and `SlotsInv` (the live
ids are the agents with an active worker, no more than the cap and no deeper
than allowed). Only `Spawn` and `Resume` add
to `live`, in the same step as they make the caller active, and only `Release`
takes away. `AbortHasCause` rests on `CauseInv`: what waits in `aborting` is
flagged, so what `FireAbort` aborts is too, or is below what is.
`HonestOutcome` rests on `ReportInv`: while a foreground run has not read its
end, a run flagged early is still marked interrupted, since only its own
`Release` clears the mark. `NoRemovalUnderLiveDescendant` is a theorem for
`Resumable = {}`: the recorded chains then reach up to the root (`ChainInv`), so
they hold all of `Above`, and what `close()` found stays true until the checkout
is gone (`RemovalInv`), because only a running member of the subtree spawns into
it. With resumes it is false (`sup_worktree_resume`).
`InterruptsAreReal` is what `InterruptFreesSlot` rests on: the mark is no empty
promise. Whoever bears it has its own abort behind it or among those still to
fire, and an abort reaches every foreground run below it. It needs `ChainsNest`
(the controllers of foreground runs are linked downwards without a gap), and
that the child is linked in the same step as it is admitted: what a parent
aborted between the two does is not modelled (a hazard without a property).

`LocalAgent_proofs`. `OneWorkerPerAgent` is far from inductive. `IInv` has four
parts:

* `LockInv`: a sender at a label inside `with continuation.lock` holds it, so
  two resumes of one id exclude each other;
* `ResumeInv`: what a resume knows at each label: `finished` is set until it
  clears it, and from there no worker of the id is alive until it starts one;
* `FirstLaunchInv`: until a first launch has started its thread or set
  `finished` on its way out, `finished` is clear, no worker is alive, and no
  sender is past `WaitFinished`; so first launch and resume exclude each other;
* `WorkerInv`: `OneWorkerPerAgent` and `FinishedMeansGone`.

The proof has one step per action; a frame lemma (`Neutral`) covers the actions
that touch none of the variables involved. `SlotInv` adds the slots, and
`NoStrandedSlot` is the second half of `SlotAccounting`. `ImplementsPool`
follows: a start makes an id busy that had no worker while a slot was reserved
for it, and a `ReleaseSlot` makes it idle.

`LocalAgentHistory_proofs` extends it with what the generations of an id leave
behind.

* `TerminalIsFinal` and the rest build on `StatusInv` and `EndedInv`: nothing but
  a registration makes an entry running. The exception would be the previous
  state that a failed launch restores; it was not running when it was read,
  because the resume had seen `finished`. Every other step is `Calm`: it raises
  no entry and gives a generation its status only as its entry stops running.
* `ConsumedOnce` rests on `InboxInv`: a message is with its sender, in one inbox,
  or in the history. An inbox that a failed launch puts back was not drained in
  the meantime, because no worker of the id is alive (`ResumeInv`).
* `CompletionLosesNothing` rests on `QueuedInv`: a queued message is in the
  history, waits in the inbox of the running generation, or was queued to a
  generation that ended other than by completing.
* `NoZombieEntry` is a theorem under `~StartsMayFail`, with `TidyInv`: then a
  continuation, once there, stays, and a resume that registered finds it.

`LocalAgentRuns_proofs` proves that `LocalAgent` implements `AgentRuns`, with
every actor, bound and fault: resumes, kills from several threads, the sweeper,
thread starts that fail.

* `LockNeverStranded`: a continuation's lock is held only by a sender that is
  inside the `with` block, whatever step of the resume fails or times out. The
  lemma `HeldMove` covers all senders' moves: one that stays inside or outside,
  one that enters, one that leaves.
* `CurrentInv`: only the latest generation of an id is on its way to start or
  at work, and nobody kills an older one. `KeptInv`, needed without the sweeper
  alone, says that a worker at work still has its entry, so it exits only after
  its end is on record; with the sweeper it may find nothing to report to, and
  `AgentRuns` says so (`Evicting`).
* `HonestInv`: what a thread is about to announce is how the generation it read
  ended. `Candid` steps keep it, and each action is shown to be one.
* `ImplementsRuns` then has one lemma for each action of the contract
  (`RegisterContract`, `StartContract`, `EndContract`, `KillContract`,
  `ExitContract`, ...), and one (`QuietContract`) for the steps that
  change nothing visible. `NoticesAreTrue` is read off the same invariant:
  although a notice can be missing after a resume (`agent_stale_notice`), none
  is ever untrue, also with resumes.
* `FirstRunHeardOnce` proves `FirstRunTold` from `SoleInv`: `notified` makes one
  thread the speaker of a generation, and an entry that is not marked has none
  yet. What has to be shown is where an unmarked entry comes from
  (`UnnotedMoves`): from the same entry unmarked, from a registration, or from a
  failed launch that puts back what it kept, which before any resume is nothing.
  For resumed agents the property is false (`agent_stale_notice`).

Liveness under fairness is out of the provers' reach, but what it rests on is
not: that whoever waits is waited for by somebody. That part of it is a matter
of safety, proved here for every number of actors, and TLC adds the fairness.

* `FinishedAlwaysComes` (for `SendersReturn`): while the event of a continuation
  is clear, a launch that will set it, or a worker that has not got there, is
  left. The case to settle is a first launch that fails and pops the
  continuation before it sets the event.
* `KillsReachTheirRun` (for `KillStopsRun`): from the critical section that
  records the kill to the abort, the captured generation has its killer, and a
  resume in between does not redirect it.
* `FirstEndIsVoiced` (for `FirstEndTold`, an agent not resumed): who sets
  `notified` owns the notice until it is enqueued, and nothing takes the entry
  away before. `VoiceInv` follows the entry and `doomed` together, since the
  sweeper removes what its snapshot found; `LaterInv` keeps a resume, which would
  bring a previous entry back, out of the first generation.

`TaskBoard_proofs`. `ExclusiveWork` alone is not inductive: a claim looks at the
board, not at the teammates. `WorkOnBoard` ties the two: the board names who
works on a task as its owner, in progress or completed, until the task is
deleted or disturbed, so a pending task has no worker. `WorkInTurn` is what the
exit needs: who leaves works on nothing, so `ReleaseTasks` takes no work from
anybody else. All calls share one argument, the lemma `CallKeeps`.
`DeletedForGood` is the action property, from type correctness alone.
`KeepsPromise`, the refinement of `TeamWork`, uses both halves of the invariant:
a pending task is `Idle` by `WorkOnBoard`, so a claim hands it out, and what an
exit releases nobody works on by `WorkInTurn`. The steps between (the version
check, the wake-up, the hooks of a completion, a kill) stutter.
`SkipMissesNothing` (`~CoarseClock`: every write of the board changes its inode,
size or modification time) is the safety half of `NoTaskOverlooked`: the version a
teammate remembers was read before the board was, so when it is still the
board's, nothing was written after the read.

`GatewayBoot_proofs`. `LossTellsCallers` is inductive with type correctness, and
holds for every interleaving; `BaseInv` adds to it that a current socket in its
handshake is awaited and that a closed client holds none. `StateTruthful` and
`OneLiveSocket` are theorems under `~Interleaved` (a switch begins when no job is
under way, no request dials beside another job), and rest on `ConnInv`: whatever socket is
awaited is the client's, by a job that dials (`Dialing`), every other one is
closing or closed (`Current`), and the flags keep boot, switch, attempts and the
wait of a request apart, but for an attempt and a request that share one dial
(`OneJob`); so the timer that fires is that of the dial under way. Without the
hypothesis both are false.
`NobodyWaitsInVain` needs none of that: in every interleaving an awaited
handshake has its timer armed, even after a hang-up, a call that waits for a
connection has a dial under way, and an attempt clears its flag. It is the part
of `Recovers` and `EveryCallSettles` that the code answers for, the clock does
the rest. `StrandedOnlyThere` needs no hypothesis either: `NeverStranded` can be
broken by one step alone, the end of the refresh of boot or switch, whatever
dials, losses and switches meet. `StrandStep` shows it of each other action, from
what the flags mean at the moment of a loss. That `NeverStranded` is an invariant
of the run `gateway` follows under both `~Interleaved` and `~LossInSync`
(`NotStranded`, with the invariant `Refreshing`: while a job refreshes, the
socket it opened is the one that is open); without either of the two it is false.

`ComposerQueue_proofs`. `Typing`, `LockKept` and `NoneLost` hold with every fault
switched on. `LockIsASubmit` says that a session is locked exactly while one
drainer submits to it, which the other proofs use throughout; `NoneLost` rests
on `SentInv`, what is sent is served. So do `StoppedKept` and `WakeUps`.
`StoppedKept` needs `HeldInv`: what is held is still queued and its queue parked,
and nothing is held of a queue that the composer drains by itself, the one drain
that would lift the park. `WakeUps` needs `DoneInv`: behind a drainer that is about
to take its flag down and whose prompt is still queued, a retry is set or a
prompt has used up its tries; every other step either leaves what the gate looks
at alone or makes the effect due (`NotedLemma`).
`RunsOnce` (`~SlowMiddleware`, `~AcksLost`) rests on `AckInv`: a prompt that is both
queued and served has its answer on the way, in a submit that holds the lock;
so whoever gets the lock next finds it gone from the queue. Each is proved by
one lemma per action that says what the action changes (`SubmitsLemma`,
`AcceptedLemma`, ...), which all the invariants share.
`KeepsOutbox`, the refinement of `PromptOutbox`, is a theorem under
`~SlowMiddleware` and `~AcksLost`, the two faults under which a prompt runs
twice. A submit that locks its session is `Send`, so the lemma about it must show that the
prompt has not run (`SentInv`, `AckInv`) and that no other is under way for the
session (`LockIsASubmit`); a failed submit or a reload is `GiveUp`, so it must
show that none of what it gives up has arrived.

Only model-checked: the liveness properties (`InterruptFreesSlot`,
`FirstEndTold`, `KillStopsRun`, `SendersReturn`, `NoTaskOverlooked`,
`KilledGivesBack`, `Recovers`, `EveryCallSettles`), which TLAPS does not reach;
the safety part of all but `KilledGivesBack` is proved, as told above.
Every other property of a passing run is a theorem, some under the restriction
named with it, which is that of the run. `SlotIffWorker`, `CapacityRespected`,
`TerminalIsFinal` and `DeletedStaysDeleted` have a theorem and no run of their
own: the first two are what the refinement of `SlotPool` rests on, the other two
follow from `AgentRuns` and `TeamWork`, which the runs check in their place.
Neither have the theorems on the safety part of liveness, with their invariants:
TLC found no violation of them on instances of the size of the runs before they were
proved, and the liveness properties that need them are checked by the runs.

## 5. Not modelled, and the plan

`PROJECT.json` lists every component with its status and the reason. The map
covers a small share of the lines: the repository holds some 320,000 lines of
TypeScript and JavaScript, nearly all of it React components, translations,
terminal rendering, tool implementations and process plumbing, whose behaviour
is presentation or I/O, and the modelled core of the agent runtime is Python. A
third of those lines cannot be modelled faithfully; what is modelled is the
code that coordinates.

Done: `AgentSupervisor`, `LocalAgent`, `TaskBoard`, `JsonRpcGateway`,
`GatewayBoot`, `ComposerQueue`, the abstract specifications `SlotPool`,
`AgentRuns`, `TeamWork`, `PromptOutbox`, and their proofs.

What would come next, in this order:

1. `TurnJournal` (what a reload restores of a streaming turn), secondary
   gateways as instances of `GatewayBoot`, and the terminal UI's client.
2. `Mailbox`: appends, sweeps, cursor and version, failed cursor writes.
   Abstract specification: a FIFO queue per recipient with at-least-once
   delivery; exactly-once for control messages.
3. `TeamRuntime`, over `Mailbox` and beside `TaskBoard`: spawn, control
   protocols, plan approval, exit, delete; the failing release of `TaskBoard`.
4. `AgentNames` (claim and release of names) and `AbortTree` (controllers and
   listeners), the two abstractions of `LocalAgent` and `AgentSupervisor`.
5. `ToolExecutor` (streaming executor), `PermissionBridge`, `MessageQueue`,
   `BatchUploader`, `WorkerState`, `FlushGate`, `Workflow`, `Scheduler`.
6. The abstract specification of the desktop client: a ledger of calls, each
   settled once and repeated at most once after a dial, that `GatewayBoot`
   implements for every interleaving.
