----------------------------- MODULE LocalAgent -----------------------------
(***************************************************************************)
(* The life of a background agent of the Agent tool: launch, message       *)
(* inbox, completion, failure, kill, completion notice, resume under the   *)
(* same id, and eviction of the terminal entry.                            *)
(*                                                                         *)
(* The actors are threads: the tool call that spawns an agent, the worker  *)
(* thread of each generation (one run of _background_lifecycle), senders   *)
(* (SendMessage calls), killers (TaskStop, subagent.interrupt) and the     *)
(* eviction sweeper. Each RuntimeTaskRegistry.update / upsert / remove is  *)
(* one critical section, hence one action; so is each call on the          *)
(* supervisor, on the continuation's lock and on its finished event.       *)
(***************************************************************************)
EXTENDS Integers, Sequences, FiniteSets

CONSTANTS Agents,         \* agent ids
          Senders,        \* SendMessage calls; a sender is also its message
          Killers,        \* kill_async_agent calls
          Target,         \* the agent a sender or a killer names
          NoOne,          \* nobody holds the continuation's lock
          MaxConcurrent,  \* the supervisor's cap
          MaxGen,         \* bound: launches per agent id
          Sweeping,       \* the session starts the eviction sweeper
          StartsMayFail   \* Thread.start may raise (thread exhaustion)

ASSUME ActorsAssumption ==
  /\ IsFiniteSet(Agents)
  /\ Agents \cap Senders = {} /\ Senders \cap Killers = {}
  /\ Agents \cap Killers = {}
  /\ NoOne \notin Senders
  /\ Target \in [Senders \cup Killers -> Agents]
ASSUME BoundsAssumption ==
  /\ MaxConcurrent \in Nat \ {0} /\ MaxGen \in Nat \ {0}
  /\ Sweeping \in BOOLEAN /\ StartsMayFail \in BOOLEAN

VARIABLES
  registry,   \* runtime_tasks: id -> task state
  gens,       \* how many times the id was registered
  live,       \* ids holding a slot of the supervisor
  cont,       \* agent_continuations: id -> AgentContinuation
  finished,   \* continuation.finished
  lock,       \* continuation.lock
  pc,         \* where a spawning call, a sender or a killer is
  saved,      \* previous_state, read by _launch_async_agent
  worker,     \* where the worker thread of a generation is
  aborted,    \* generations whose abort controller fired
  killing,    \* the generation a killer captured
  doomed,     \* ids the sweeper's snapshot found eligible, not yet removed
  history,    \* messages the agent's runs consumed, in order
  queuedTo,   \* history: the generation a sender's message was queued to
  final,      \* history: the terminal status each generation reached
  says,       \* the status a worker read for its notice
  told        \* statuses announced to the parent, per generation

registryVars == <<registry, gens>>
contVars == <<cont, finished, lock>>
callVars == <<pc, saved>>
workVars == <<worker, aborted>>
msgVars == <<history, queuedTo>>
noteVars == <<final, says, told>>
vars == <<registryVars, live, contVars, callVars, workVars, killing, doomed,
          msgVars, noteVars>>

Absent == [gen |-> 0]
Terminal == {"completed", "failed", "killed"}
Gens == 1..MaxGen
Runs == Agents \X Gens
Entry == [gen : Gens, status : Terminal \cup {"running"},
          notified : BOOLEAN, pending : Seq(Senders)]
Callers == Agents \cup Senders

Present(a) == registry[a] # Absent
IsTerminal(a) == Present(a) /\ registry[a].status \in Terminal
IsRunning(a) == Present(a) /\ registry[a].status = "running"

LaunchPCs == {"register", "claim", "continue", "thread"}
UndoPCs == {"undoTask", "undoCont", "undoFinished", "undoSlot"}
SenderPCs == {"queue", "resume", "precheck", "lock", "recheck", "wait",
              "admit", "requeue", "queued", "resumed", "rejected"}
KillerPCs == {"abort", "mark", "enqueue", "done"}
PCs == {"idle", "launched", "refused"} \cup LaunchPCs \cup UndoPCs
         \cup SenderPCs \cup KillerPCs
\* The sender is inside `with continuation.lock`.
LockedPCs == {"recheck", "wait", "admit"} \cup LaunchPCs \cup UndoPCs
\* The worker thread has started and has not set finished yet.
AliveStates == {"running", "raised", "mark", "enqueue", "release", "finish"}
WorkerPCs == AliveStates \cup {"none", "exited"}
\* ... and has not released its slot yet.
WorkingStates == AliveStates \ {"finish"}

TypeOK ==
  /\ registry \in [Agents -> Entry \cup {Absent}]
  /\ gens \in [Agents -> 0..MaxGen]
  /\ live \subseteq Agents
  /\ cont \in [Agents -> {"none", "present", "popped"}]
  /\ finished \in [Agents -> BOOLEAN]
  /\ lock \in [Agents -> Senders \cup {NoOne}]
  /\ pc \in [Callers \cup Killers -> PCs]
  /\ saved \in [Callers -> Entry \cup {Absent}]
  /\ worker \in [Runs -> WorkerPCs]
  /\ aborted \subseteq Agents \X (0..MaxGen)
  /\ killing \in [Killers -> 0..MaxGen]
  /\ doomed \subseteq Agents
  /\ history \in [Agents -> Seq(Senders)]
  /\ queuedTo \in [Senders -> 0..MaxGen]
  /\ final \in [Runs -> Terminal \cup {"none"}]
  /\ says \in [Runs -> Terminal \cup {"none", "running"}]
  /\ told \in [Runs -> Seq(Terminal \cup {"none", "running"})]

Init ==
  /\ registry = [a \in Agents |-> Absent]
  /\ gens = [a \in Agents |-> 0]
  /\ live = {}
  /\ cont = [a \in Agents |-> "none"]
  /\ finished = [a \in Agents |-> FALSE]
  /\ lock = [a \in Agents |-> NoOne]
  /\ pc = [p \in Callers \cup Killers |-> "idle"]
  /\ saved = [p \in Callers |-> Absent]
  /\ worker = [r \in Runs |-> "none"]
  /\ aborted = {}
  /\ killing = [k \in Killers |-> 0]
  /\ doomed = {}
  /\ history = [a \in Agents |-> <<>>]
  /\ queuedTo = [s \in Senders |-> 0]
  /\ final = [r \in Runs |-> "none"]
  /\ says = [r \in Runs |-> "none"]
  /\ told = [r \in Runs |-> <<>>]

Goto(p, l) == pc' = [pc EXCEPT ![p] = l]
\* The agent a caller acts on: a spawning call's own, or the one addressed.
Of(p) == IF p \in Agents THEN p ELSE Target[p]
\* Leave `with continuation.lock` when the caller is a sender.
Unlock(p) == lock' = IF p \in Senders THEN [lock EXCEPT ![Of(p)] = NoOne] ELSE lock
\* Where a caller ends up when its launch failed: the Agent tool reports an
\* error, SendMessage tries the inbox a last time.
GiveUp(p) == Goto(p, IF p \in Senders THEN "requeue" ELSE "refused")
SetEntry(a, e) == registry' = [registry EXCEPT ![a] = e]
Run(a) == <<a, registry[a].gen>>
SetStatus(a, st) ==
  /\ registry' = [registry EXCEPT ![a].status = st]
  /\ final' = [final EXCEPT ![Run(a)] = st]

-----------------------------------------------------------------------------
(* Launching: _agent_call, AgentContinuation.restart, _launch_async_agent. *)

\* Mutant of Admit: the capacity test is off by one.
AdmitOneTooMany(p) ==
  /\ pc[p] = IF p \in Senders THEN "admit" ELSE "idle"
  /\ gens[Of(p)] < MaxGen
  /\ Of(p) \in live \/ Cardinality(live) <= MaxConcurrent
  /\ live' = live \cup {Of(p)}
  /\ Goto(p, "register")
  /\ UNCHANGED <<registryVars, contVars, saved, workVars, killing, doomed,
                 msgVars, noteVars>>

\* admit(): a slot is reserved; an id that holds one keeps it.
Admit(p) ==
  /\ pc[p] = IF p \in Senders THEN "admit" ELSE "idle"
  /\ gens[Of(p)] < MaxGen
  /\ Of(p) \in live \/ Cardinality(live) < MaxConcurrent
  /\ live' = live \cup {Of(p)}
  /\ Goto(p, "register")
  /\ UNCHANGED <<registryVars, contVars, saved, workVars, killing, doomed,
                 msgVars, noteVars>>

\* admit() refuses: no slot is free, or the user paused delegation, which may
\* be the case at any time.
AdmitRefused(p) ==
  /\ pc[p] = IF p \in Senders THEN "admit" ELSE "idle"
  /\ Of(p) \notin live
  /\ Unlock(p)
  /\ GiveUp(p)
  /\ UNCHANGED <<registryVars, live, cont, finished, saved, workVars, killing,
                 doomed, msgVars, noteVars>>

\* Mutant of Register: the task is registered as "pending".
RegisterPending(p) ==
  LET a == Of(p) IN
  /\ pc[p] = "register"
  /\ gens[a] < MaxGen
  /\ saved' = [saved EXCEPT ![p] = registry[a]]
  /\ gens' = [gens EXCEPT ![a] = @ + 1]
  /\ SetEntry(a, [gen |-> gens[a] + 1, status |-> "pending",
                  notified |-> FALSE, pending |-> <<>>])
  /\ Goto(p, IF p \in Senders THEN "continue" ELSE "claim")
  /\ UNCHANGED <<live, contVars, workVars, killing, doomed, msgVars, noteVars>>

\* previous_state is kept, then register_async_agent upserts a running state.
\* Only the first launch claims the agent's name.
Register(p) ==
  LET a == Of(p) IN
  /\ pc[p] = "register"
  /\ gens[a] < MaxGen
  /\ saved' = [saved EXCEPT ![p] = registry[a]]
  /\ gens' = [gens EXCEPT ![a] = @ + 1]
  /\ SetEntry(a, [gen |-> gens[a] + 1, status |-> "running",
                  notified |-> FALSE, pending |-> <<>>])
  /\ Goto(p, IF p \in Senders THEN "continue" ELSE "claim")
  /\ UNCHANGED <<live, contVars, workVars, killing, doomed, msgVars, noteVars>>

\* claim_or_raise: a name held by a running agent is refused, and the refused
\* launch removes its own entry. (Which names are held is not tracked here.)
ClaimName(p) ==
  /\ p \in Agents
  /\ pc[p] = "claim"
  /\ \/ /\ Goto(p, "continue")
        /\ UNCHANGED registry
     \/ /\ SetEntry(p, Absent)
        /\ Goto(p, "undoSlot")
  /\ UNCHANGED <<gens, live, contVars, saved, workVars, killing, doomed,
                 msgVars, noteVars>>

\* Mutant of Continue: finished is not cleared for the new generation.
ContinueUncleared(p) ==
  LET a == Of(p) IN
  /\ pc[p] = "continue"
  /\ IF p \in Senders /\ cont[a] # "present"
     THEN Goto(p, "undoSlot") /\ UNCHANGED cont
     ELSE cont' = [cont EXCEPT ![a] = "present"] /\ Goto(p, "thread")
  /\ UNCHANGED <<registryVars, live, finished, lock, saved, workVars, killing,
                 doomed, msgVars, noteVars>>

\* The first launch creates the continuation; a restart looks it up, and a
\* continuation that was popped meanwhile is a KeyError. Then finished.clear().
Continue(p) ==
  LET a == Of(p) IN
  /\ pc[p] = "continue"
  /\ IF p \in Senders /\ cont[a] # "present"
     THEN /\ Goto(p, "undoSlot")
          /\ UNCHANGED <<cont, finished>>
     ELSE /\ cont' = [cont EXCEPT ![a] = "present"]
          /\ finished' = [finished EXCEPT ![a] = FALSE]
          /\ Goto(p, "thread")
  /\ UNCHANGED <<registryVars, live, lock, saved, workVars, killing, doomed,
                 msgVars, noteVars>>

\* task_manager.start: the worker thread of the new generation runs; a
\* resumed one starts with the sender's message as its prompt.
StartThread(p) ==
  LET a == Of(p) IN
  /\ pc[p] = "thread"
  /\ worker' = [worker EXCEPT ![<<a, gens[a]>>] = "running"]
  /\ Unlock(p)
  /\ Goto(p, IF p \in Senders THEN "resumed" ELSE "launched")
  /\ history' = IF p \in Senders THEN [history EXCEPT ![a] = Append(@, p)]
                ELSE history
  /\ UNCHANGED <<registryVars, live, cont, finished, saved, aborted, killing,
                 doomed, queuedTo, noteVars>>

\* Thread.start raises.
StartFails(p) ==
  /\ StartsMayFail
  /\ pc[p] = "thread"
  /\ Goto(p, "undoTask")
  /\ UNCHANGED <<registryVars, live, contVars, saved, workVars, killing, doomed,
                 msgVars, noteVars>>

\* The previous state is restored, or the entry removed when there was none.
UndoTask(p) ==
  /\ pc[p] = "undoTask"
  /\ SetEntry(Of(p), saved[p])
  /\ Goto(p, IF saved[p] = Absent /\ p \in Agents THEN "undoCont" ELSE "undoFinished")
  /\ UNCHANGED <<gens, live, contVars, saved, workVars, killing, doomed,
                 msgVars, noteVars>>

\* A first launch drops its continuation (and its name).
UndoCont(p) ==
  /\ p \in Agents
  /\ pc[p] = "undoCont"
  /\ cont' = [cont EXCEPT ![p] = "popped"]
  /\ Goto(p, "undoFinished")
  /\ UNCHANGED <<registryVars, live, finished, lock, saved, workVars, killing,
                 doomed, msgVars, noteVars>>

UndoFinished(p) ==
  /\ pc[p] = "undoFinished"
  /\ finished' = [finished EXCEPT ![Of(p)] = TRUE]
  /\ Goto(p, "undoSlot")
  /\ UNCHANGED <<registryVars, live, cont, lock, saved, workVars, killing,
                 doomed, msgVars, noteVars>>

\* Mutant of UndoSlot: the slot of a failed launch is stranded.
UndoSlotStranded(p) ==
  /\ pc[p] = "undoSlot"
  /\ Unlock(p)
  /\ GiveUp(p)
  /\ UNCHANGED <<registryVars, live, cont, finished, saved, workVars, killing,
                 doomed, msgVars, noteVars>>

\* The exception reaches the frame that admitted: the slot is released.
UndoSlot(p) ==
  /\ pc[p] = "undoSlot"
  /\ live' = live \ {Of(p)}
  /\ Unlock(p)
  /\ GiveUp(p)
  /\ UNCHANGED <<registryVars, cont, finished, saved, workVars, killing, doomed,
                 msgVars, noteVars>>

LaunchStep(p) == Register(p) \/ ClaimName(p) \/ Continue(p) \/ StartThread(p)
                   \/ StartFails(p) \/ UndoTask(p) \/ UndoCont(p)
                   \/ UndoFinished(p) \/ UndoSlot(p)

-----------------------------------------------------------------------------
(* Sending: _route_in_process and _resume.                                 *)

\* Resolve the agent and read its state.
Route(s) ==
  LET a == Of(s) IN
  /\ pc[s] = "idle"
  /\ Goto(s, IF ~Present(a) /\ cont[a] # "present" THEN "rejected"
             ELSE IF IsRunning(a) THEN "queue" ELSE "resume")
  /\ UNCHANGED <<registryVars, live, contVars, saved, workVars, killing, doomed,
                 msgVars, noteVars>>

\* queue_pending_message: append to the inbox of a running entry; a missing or
\* terminal one refuses, and the sender goes on to what `refused` names.
QueueMessage(s, refused) ==
  LET a == Of(s) IN
  /\ IF IsRunning(a)
     THEN /\ registry' = [registry EXCEPT ![a].pending = Append(@, s)]
          /\ queuedTo' = [queuedTo EXCEPT ![s] = registry[a].gen]
          /\ Goto(s, "queued")
     ELSE /\ Goto(s, refused)
          /\ UNCHANGED <<registry, queuedTo>>
  /\ UNCHANGED <<gens, live, contVars, saved, workVars, killing, doomed,
                 history, noteVars>>

Queue(s) == pc[s] = "queue" /\ QueueMessage(s, "resume")

\* A resume that did not happen: queue onto whatever the winner registered.
Requeue(s) == pc[s] = "requeue" /\ QueueMessage(s, "rejected")

\* _resume fetches the continuation ...
FetchContinuation(s) ==
  /\ pc[s] = "resume"
  /\ Goto(s, IF cont[Of(s)] = "present" THEN "precheck" ELSE "requeue")
  /\ UNCHANGED <<registryVars, live, contVars, saved, workVars, killing, doomed,
                 msgVars, noteVars>>

\* ... and refuses a running task ...
Precheck(s) ==
  /\ pc[s] = "precheck"
  /\ Goto(s, IF IsRunning(Of(s)) THEN "requeue" ELSE "lock")
  /\ UNCHANGED <<registryVars, live, contVars, saved, workVars, killing, doomed,
                 msgVars, noteVars>>

AcquireLock(s) ==
  /\ pc[s] = "lock"
  /\ lock[Of(s)] = NoOne
  /\ lock' = [lock EXCEPT ![Of(s)] = s]
  /\ Goto(s, "recheck")
  /\ UNCHANGED <<registryVars, live, cont, finished, saved, workVars, killing,
                 doomed, msgVars, noteVars>>

\* ... under the lock once more: another caller may have resumed it.
Recheck(s) ==
  /\ pc[s] = "recheck"
  /\ IF IsRunning(Of(s))
     THEN Unlock(s) /\ Goto(s, "requeue")
     ELSE Goto(s, "wait") /\ UNCHANGED lock
  /\ UNCHANGED <<registryVars, live, cont, finished, saved, workVars, killing,
                 doomed, msgVars, noteVars>>

\* Mutant of WaitFinished: the resume goes on when the time is up.
WaitTimeoutIgnored(s) ==
  /\ pc[s] = "wait"
  /\ Goto(s, "admit")
  /\ UNCHANGED <<registryVars, live, contVars, saved, workVars, killing, doomed,
                 msgVars, noteVars>>

\* Mutant of WaitFinished: the early return of the timeout keeps the lock.
WaitTimeoutKeepsLock(s) ==
  /\ pc[s] = "wait"
  /\ Goto(s, IF finished[Of(s)] THEN "admit" ELSE "requeue")
  /\ UNCHANGED <<registryVars, live, contVars, saved, workVars, killing, doomed,
                 msgVars, noteVars>>

\* finished.wait(timeout = 10): the previous worker is gone, or it is still
\* stopping when the time is up.
WaitFinished(s) ==
  /\ pc[s] = "wait"
  /\ \/ finished[Of(s)] /\ Goto(s, "admit") /\ UNCHANGED lock
     \/ ~finished[Of(s)] /\ Unlock(s) /\ Goto(s, "requeue")
  /\ UNCHANGED <<registryVars, live, cont, finished, saved, workVars, killing,
                 doomed, msgVars, noteVars>>

SenderStep(s) == Queue(s) \/ Requeue(s) \/ FetchContinuation(s) \/ Precheck(s)
                   \/ AcquireLock(s) \/ Recheck(s) \/ WaitFinished(s)

-----------------------------------------------------------------------------
(* The worker thread: _background_lifecycle.                               *)

At(r, l) == worker[r] = l
Move(r, l) == worker' = [worker EXCEPT ![r] = l]
\* Every message of the inbox goes to the run, in order.
TakeInbox(a) ==
  /\ history' = [history EXCEPT ![a] = @ \o registry[a].pending]
  /\ registry' = [registry EXCEPT ![a].pending = <<>>]

\* Mutant of DrainRound: the inbox is read and not emptied.
DrainKeepsInbox(r) ==
  /\ At(r, "running")
  /\ Present(r[1]) /\ registry[r[1]].pending # <<>>
  /\ history' = [history EXCEPT ![r[1]] = @ \o registry[r[1]].pending]
  /\ UNCHANGED <<registryVars, live, contVars, callVars, workVars, killing,
                 doomed, queuedTo, noteVars>>

\* A tool round ends: drain_pending_messages.
DrainRound(r) ==
  /\ At(r, "running")
  /\ Present(r[1]) /\ registry[r[1]].pending # <<>>
  /\ TakeInbox(r[1])
  /\ UNCHANGED <<gens, live, contVars, callVars, workVars, killing, doomed,
                 queuedTo, noteVars>>

\* Mutant of CompleteOrDrain: completes without looking at the inbox.
CompleteBlindly(r) ==
  /\ At(r, "running")
  /\ Move(r, "mark")
  /\ IF IsRunning(r[1]) THEN SetStatus(r[1], "completed")
     ELSE UNCHANGED <<registry, final>>
  /\ UNCHANGED <<gens, live, contVars, callVars, aborted, killing, doomed,
                 msgVars, says, told>>

\* Mutant of CompleteOrDrain: a task that is terminal already does not break
\* the loop.
CompleteOnlyRunning(r) ==
  /\ At(r, "running")
  /\ IsRunning(r[1]) /\ registry[r[1]].pending = <<>>
  /\ Move(r, "mark")
  /\ SetStatus(r[1], "completed")
  /\ UNCHANGED <<gens, live, contVars, callVars, aborted, killing, doomed,
                 msgVars, says, told>>

\* Mutant of CompleteOrDrain: the run ends and the status stays "running".
CompleteWithoutStatus(r) ==
  /\ At(r, "running")
  /\ Move(r, "mark")
  /\ UNCHANGED <<registryVars, live, contVars, callVars, aborted, killing,
                 doomed, msgVars, noteVars>>

\* The run returned: complete_agent_or_drain.
CompleteOrDrain(r) ==
  LET a == r[1] IN
  /\ At(r, "running")
  /\ IF ~IsRunning(a)
     THEN Move(r, "mark") /\ UNCHANGED <<registry, history, final>>
     ELSE IF registry[a].pending # <<>>
     THEN TakeInbox(a) /\ UNCHANGED <<worker, final>>
     ELSE Move(r, "mark") /\ SetStatus(a, "completed") /\ UNCHANGED history
  /\ UNCHANGED <<gens, live, contVars, callVars, aborted, killing, doomed,
                 queuedTo, says, told>>

\* The run raised: it consumes nothing any more.
RunRaises(r) ==
  /\ At(r, "running")
  /\ Move(r, "raised")
  /\ UNCHANGED <<registryVars, live, contVars, callVars, aborted, killing,
                 doomed, msgVars, noteVars>>

\* Mutant of FailTask: the guard against terminal states is missing.
FailAnyTask(r) ==
  /\ At(r, "raised")
  /\ Move(r, "mark")
  /\ IF Present(r[1]) THEN SetStatus(r[1], "failed")
     ELSE UNCHANGED <<registry, final>>
  /\ UNCHANGED <<gens, live, contVars, callVars, aborted, killing, doomed,
                 msgVars, says, told>>

\* fail_agent_task, unless the task is terminal already.
FailTask(r) ==
  /\ At(r, "raised")
  /\ Move(r, "mark")
  /\ IF IsRunning(r[1]) THEN SetStatus(r[1], "failed")
     ELSE UNCHANGED <<registry, final>>
  /\ UNCHANGED <<gens, live, contVars, callVars, aborted, killing, doomed,
                 msgVars, says, told>>

\* Mutant of MarkNotified: `notified` is set without being checked.
MarkUnchecked(r) ==
  LET a == r[1] IN
  /\ At(r, "mark")
  /\ IF Present(a)
     THEN /\ registry' = [registry EXCEPT ![a].notified = TRUE]
          /\ says' = [says EXCEPT ![r] = registry[a].status]
          /\ Move(r, "enqueue")
     ELSE Move(r, "release") /\ UNCHANGED <<registry, says>>
  /\ UNCHANGED <<gens, live, contVars, callVars, aborted, killing, doomed,
                 msgVars, final, told>>

\* The status is read and enqueue_agent_notification checks and sets
\* `notified`. (Nothing changes a terminal status between the two.)
MarkNotified(r) ==
  LET a == r[1] IN
  /\ At(r, "mark")
  /\ IF Present(a) /\ ~registry[a].notified
     THEN /\ registry' = [registry EXCEPT ![a].notified = TRUE]
          /\ says' = [says EXCEPT ![r] = registry[a].status]
          /\ Move(r, "enqueue")
     ELSE Move(r, "release") /\ UNCHANGED <<registry, says>>
  /\ UNCHANGED <<gens, live, contVars, callVars, aborted, killing, doomed,
                 msgVars, final, told>>

\* ... and enqueues the notice, outside the lock.
EnqueueNotice(r) ==
  /\ At(r, "enqueue")
  /\ told' = [told EXCEPT ![r] = Append(@, says[r])]
  /\ Move(r, "release")
  /\ UNCHANGED <<registryVars, live, contVars, callVars, aborted, killing,
                 doomed, msgVars, final, says>>

ReleaseSlot(r) ==
  /\ At(r, "release")
  /\ live' = live \ {r[1]}
  /\ Move(r, "finish")
  /\ UNCHANGED <<registryVars, contVars, callVars, aborted, killing, doomed,
                 msgVars, noteVars>>

SetFinished(r) ==
  /\ At(r, "finish")
  /\ finished' = [finished EXCEPT ![r[1]] = TRUE]
  /\ Move(r, "exited")
  /\ UNCHANGED <<registryVars, live, cont, lock, callVars, aborted, killing,
                 doomed, msgVars, noteVars>>

\* What follows the run is straight-line code of the worker thread.
WorkerCleanup(r) == FailTask(r) \/ MarkNotified(r) \/ EnqueueNotice(r)
                      \/ ReleaseSlot(r) \/ SetFinished(r)
WorkerStep(r) == DrainRound(r) \/ CompleteOrDrain(r) \/ RunRaises(r)
                   \/ WorkerCleanup(r)

-----------------------------------------------------------------------------
(* kill_async_agent.                                                       *)

\* Under the lock: flip a non-terminal status, capture the controller.
Kill(k) ==
  LET a == Of(k) IN
  /\ pc[k] = "idle"
  /\ IsRunning(a)
  /\ SetStatus(a, "killed")
  /\ killing' = [killing EXCEPT ![k] = registry[a].gen]
  /\ Goto(k, "abort")
  /\ UNCHANGED <<gens, live, contVars, saved, workVars, doomed, msgVars, says, told>>

\* Mutant of AbortRun: the controller is looked up after the lock.
AbortCurrent(k) ==
  /\ pc[k] = "abort"
  /\ aborted' = aborted \cup {<<Of(k), gens[Of(k)]>>}
  /\ Goto(k, "mark")
  /\ UNCHANGED <<registryVars, live, contVars, saved, worker, killing, doomed,
                 msgVars, noteVars>>

\* After the lock: abort the captured run ...
AbortRun(k) ==
  /\ pc[k] = "abort"
  /\ aborted' = aborted \cup {<<Of(k), killing[k]>>}
  /\ Goto(k, "mark")
  /\ UNCHANGED <<registryVars, live, contVars, saved, worker, killing, doomed,
                 msgVars, noteVars>>

\* Mutant of KillMark: the notice is marked and never enqueued.
KillMarkOnly(k) ==
  LET a == Of(k) IN
  /\ pc[k] = "mark"
  /\ Goto(k, "done")
  /\ registry' = IF Present(a) THEN [registry EXCEPT ![a].notified = TRUE] ELSE registry
  /\ UNCHANGED <<gens, live, contVars, saved, workVars, killing, doomed,
                 msgVars, noteVars>>

\* ... then the check-and-set of `notified`, by task id ...
KillMark(k) ==
  LET a == Of(k) IN
  /\ pc[k] = "mark"
  /\ IF Present(a) /\ ~registry[a].notified
     THEN /\ registry' = [registry EXCEPT ![a].notified = TRUE]
          /\ Goto(k, "enqueue")
     ELSE Goto(k, "done") /\ UNCHANGED registry
  /\ UNCHANGED <<gens, live, contVars, saved, workVars, killing, doomed,
                 msgVars, noteVars>>

\* ... and the notice of the kill.
KillEnqueue(k) ==
  LET r == <<Of(k), killing[k]>> IN
  /\ pc[k] = "enqueue"
  /\ told' = [told EXCEPT ![r] = Append(@, "killed")]
  /\ Goto(k, "done")
  /\ UNCHANGED <<registryVars, live, contVars, saved, workVars, killing, doomed,
                 msgVars, final, says>>

KillerStep(k) == AbortRun(k) \/ KillMark(k) \/ KillEnqueue(k)

-----------------------------------------------------------------------------
(* The eviction sweeper: sweep_once.                                       *)

\* is_eligible_for_eviction: terminal, announced (and past its grace period,
\* which any terminal entry reaches: the sweep picks the ones that did).
Eligible(a) == IsTerminal(a) /\ registry[a].notified

SweepSnapshot ==
  /\ Sweeping
  /\ doomed = {}
  /\ doomed' \in (SUBSET {a \in Agents : Eligible(a)}) \ {{}}
  /\ UNCHANGED <<registryVars, live, contVars, callVars, workVars, killing,
                 msgVars, noteVars>>

\* The entries of the snapshot are removed by id, one after the other.
SweepRemove(a) ==
  /\ a \in doomed
  /\ doomed' = doomed \ {a}
  /\ SetEntry(a, Absent)
  /\ UNCHANGED <<gens, live, contVars, callVars, workVars, killing, msgVars,
                 noteVars>>

-----------------------------------------------------------------------------
Next ==
  \/ \E p \in Callers : Admit(p) \/ AdmitRefused(p) \/ LaunchStep(p)
  \/ \E s \in Senders : Route(s) \/ SenderStep(s)
  \/ \E r \in Runs : WorkerStep(r)
  \/ \E k \in Killers : Kill(k) \/ KillerStep(k)
  \/ SweepSnapshot
  \/ \E a \in Agents : SweepRemove(a)

Spec == Init /\ [][Next]_vars

\* Threads that have started a handler run it to its end; a run polls its
\* abort signal, so an aborted run ends. Nothing obliges a run that nobody
\* aborts to end, a user to send, spawn or kill, or a thread start to fail.
AbortedRunEnds(r) == r \in aborted /\ CompleteOrDrain(r)
SenderAdmission(s) == (Admit(s) \/ AdmitRefused(s))

Fairness ==
  /\ \A p \in Callers : WF_vars(LaunchStep(p))
  /\ \A s \in Senders : WF_vars(SenderStep(s)) /\ WF_vars(SenderAdmission(s))
  /\ \A r \in Runs : WF_vars(WorkerCleanup(r)) /\ WF_vars(AbortedRunEnds(r))
  /\ \A k \in Killers : WF_vars(KillerStep(k))

FairSpec == Spec /\ Fairness

-----------------------------------------------------------------------------
(* Properties.                                                             *)

Alive(r) == worker[r] \in AliveStates
InHistory(a, s) == \E i \in 1..Len(history[a]) : history[a][i] = s

\* A generation starts only after the previous worker has gone: two workers
\* of one id never overlap, in spite of kills, resumes and evictions.
OneWorkerPerAgent ==
  \A a \in Agents : \A g, h \in Gens :
    Alive(<<a, g>>) /\ Alive(<<a, h>>) => g = h

\* "The completion event is set only after the previous worker has ...
\* released its admission slot."
FinishedMeansGone ==
  \A a \in Agents : finished[a] => \A g \in Gens : ~Alive(<<a, g>>)

\* A worker at work holds a slot, and an id whose launches and workers are
\* all over holds none.
SlotAccounting ==
  /\ \A r \in Runs : worker[r] \in WorkingStates => r[1] \in live
  /\ \A a \in live : \/ \E g \in Gens : worker[<<a, g>>] \in WorkingStates
                     \/ \E p \in Callers : Of(p) = a /\ pc[p] \in LaunchPCs \cup UndoPCs

\* A status is final within its generation: a kill, a failure and a completion
\* that race have one winner.
TerminalIsFinal ==
  [][\A r \in Runs : final[r] # "none" => final'[r] = final[r]]_vars

\* complete_agent_or_drain: no message accepted by a run is lost because the
\* run completes; it was consumed by the agent.
CompletionLosesNothing ==
  \A s \in Senders :
    LET r == <<Of(s), queuedTo[s]>> IN
      queuedTo[s] # 0 /\ final[r] = "completed" => InHistory(Of(s), s)

\* No message is consumed twice, whatever path delivered it.
ConsumedOnce ==
  \A a \in Agents : \A i, j \in 1..Len(history[a]) :
    history[a][i] = history[a][j] => i = j

\* The parent hears of an ended generation at most once, and what it hears is
\* how it ended.
ToldOnceAndTruly ==
  \A r \in Runs : Len(told[r]) <= 1 /\ \A i \in 1..Len(told[r]) : told[r][i] = final[r]

\* The same of an agent that has not been resumed.  The check-and-set goes by
\* id: a resume may put another run under a notice that is late.
FirstRunTold ==
  \A a \in Agents : LET r == <<a, 1>> IN
    gens[a] = 1 => /\ Len(told[r]) <= 1
                   /\ \A i \in 1..Len(told[r]) : told[r][i] = final[r]

\* The parent hears of the end of a worker, whoever has set `notified', unless
\* the agent is resumed first.
FirstEndTold ==
  \A a \in Agents :
    worker[<<a, 1>>] = "exited" /\ gens[a] = 1 ~> told[<<a, 1>>] # <<>> \/ gens[a] > 1

\* A killed run exits.
KillStopsRun == \A r \in Runs : (r \in aborted) ~> ~Alive(r)

\* Every SendMessage call returns: nobody waits for ever on the lock or on a
\* worker that does not stop.
SendersReturn ==
  \A s \in Senders :
    (pc[s] # "idle") ~> (pc[s] \in {"queued", "resumed", "rejected"})

\* A running entry has a worker, or a launch under way that gives it one.
NoZombieEntry ==
  \A a \in Agents : IsRunning(a) =>
    \/ Alive(<<a, registry[a].gen>>)
    \/ \E p \in Callers : Of(p) = a /\ pc[p] \in LaunchPCs \cup {"undoTask"}

\* What the session promises about its workers: at most MaxConcurrent are at
\* work, and none starts for an id that has one at work.
BusyAgents == {a \in Agents : \E g \in Gens : worker[<<a, g>>] \in WorkingStates}
Pool == INSTANCE SlotPool WITH
          Workers <- Agents, Capacity <- MaxConcurrent, busy <- BusyAgents
PoolSpec == Pool!Spec

\* The continuation's lock is held only by a call that is inside its block and
\* so gives it back: no early return, timeout or error path strands it.
LockHeldInside ==
  \A a \in Agents : lock[a] # NoOne =>
    lock[a] \in Senders /\ Of(lock[a]) = a /\ pc[lock[a]] \in LockedPCs

\* What the session promises about the runs of its agents (see AgentRuns): a
\* generation starts once and alone, its end is decided once and by its own
\* worker or a kill, only a killed run is aborted, and what the parent hears of
\* a run is how it ended.
RunPhase ==
  [r \in Runs |-> IF Alive(r) THEN "alive"
                  ELSE IF worker[r] = "exited" THEN "gone"
                  ELSE IF r[2] <= gens[r[1]] THEN "registered" ELSE "new"]
Contract == INSTANCE AgentRuns WITH
              phase <- RunPhase, outcome <- final, Evicting <- Sweeping
RunsSpec == Contract!Spec
=============================================================================
