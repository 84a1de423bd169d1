--------------------------- MODULE AgentSupervisor ---------------------------
(***************************************************************************)
(* Admission control of one session (services/swarm/agent_supervisor.py)   *)
(* together with the callers that hold a slot: the Agent tool's run of a   *)
(* delegated agent (tool_system/tools/agent.py) and the worktree it may    *)
(* own (agent/worktree.py).                                                *)
(*                                                                         *)
(* Every method of the supervisor is one critical section of its RLock and *)
(* is one action here; what a method or a caller does outside the lock is  *)
(* an action of its own.                                                   *)
(***************************************************************************)
EXTENDS Integers, FiniteSets

CONSTANTS Agents,         \* agent ids
          Root,           \* the root session, parent of top-level delegations
          Isolated,       \* agents spawned with isolation = "worktree"
          Sync,           \* agents run in the foreground of their parent
          Resumable,      \* agents whose continuation may be restarted
          MaxConcurrent,  \* CLAWCODEX_MAX_CONCURRENT_AGENTS
          MaxDepth,       \* CLAWCODEX_MAX_AGENT_DEPTH
          MaxRuns         \* bound: runs per agent id (first spawn + resumes)

ASSUME AgentsAssumption == /\ IsFiniteSet(Agents)
                           /\ Root \notin Agents
                           /\ Isolated \subseteq Agents
                           /\ Sync \subseteq Agents
                           /\ Resumable \subseteq Agents \ Sync
ASSUME BoundsAssumption == /\ MaxConcurrent \in Nat \ {0}
                           /\ MaxDepth \in Nat
                           /\ MaxRuns \in Nat \ {0}

VARIABLES
  live,        \* the keys of _live: ids holding a slot
  ancestors,   \* _LiveAgent.ancestors of the current or last entry, as a set
  interrupted, \* ids whose entry has status "interrupted"
  paused,      \* _paused
  aborted,     \* the controllers <<id, run>> whose signal is aborted
  aborting,    \* controllers interrupt() captured and has yet to abort
  upstream,    \* the controllers a foreground run's controller is a child of
  run,         \* where the caller that owns the id is
  runs,        \* how many times the id was admitted
  parent,      \* parent_id of the spawn
  depth,       \* depth of the spawn
  worktree,    \* the agent's own checkout
  outcome,     \* what the finished foreground run reports of itself
  flag         \* history: the runs interrupt() said it reached, "early" when
               \* the run had not yet read how it ended, else "late"

supVars == <<live, ancestors, interrupted, paused>>
abortVars == <<aborted, aborting, upstream>>
runVars == <<run, runs, parent, depth, worktree, outcome>>

vars == <<supVars, abortVars, runVars, flag>>

RunStates == {"idle", "running", "closing", "removing", "exiting",
              "releasing", "done"}
\* The worker of the agent has not exited yet.
Active == {"running", "closing", "removing", "exiting", "releasing"}
Controllers == Agents \X (1..MaxRuns)
Controller(a) == <<a, runs[a]>>

TypeOK ==
  /\ live \subseteq Agents
  /\ ancestors \in [Agents -> SUBSET Agents]
  /\ interrupted \subseteq Agents
  /\ paused \in BOOLEAN
  /\ aborted \subseteq Controllers
  /\ aborting \subseteq Controllers
  /\ upstream \in [Agents -> SUBSET Controllers]
  /\ run \in [Agents -> RunStates]
  /\ runs \in [Agents -> 0..MaxRuns]
  /\ parent \in [Agents -> Agents \cup {Root}]
  /\ depth \in [Agents -> Nat]
  /\ worktree \in [Agents -> {"none", "present", "retained", "removed"}]
  /\ outcome \in [Agents -> {"none", "completed", "interrupted"}]
  /\ flag \in [Controllers -> {"no", "early", "late"}]

Init ==
  /\ live = {}
  /\ ancestors = [a \in Agents |-> {}]
  /\ interrupted = {}
  /\ paused = FALSE
  /\ aborted = {}
  /\ aborting = {}
  /\ upstream = [a \in Agents |-> {}]
  /\ run = [a \in Agents |-> "idle"]
  /\ runs = [a \in Agents |-> 0]
  /\ parent = [a \in Agents |-> Root]
  /\ depth = [a \in Agents |-> 0]
  /\ worktree = [a \in Agents |-> "none"]
  /\ outcome = [a \in Agents |-> "none"]
  /\ flag = [c \in Controllers |-> "no"]

-----------------------------------------------------------------------------
(* The supervisor's methods.                                               *)

\* Mutant of Admissible: the capacity test is off by one.
AdmissibleOneTooMany(d) ==
  /\ ~paused
  /\ d <= MaxDepth
  /\ Cardinality(live) <= MaxConcurrent

\* admit() reserves a slot: not paused, not too deep, not at capacity.
Admissible(d) ==
  /\ ~paused
  /\ d <= MaxDepth
  /\ Cardinality(live) < MaxConcurrent

\* Mutant of ChainOf: only the direct parent is recorded.
ChainOfParentOnly(p) == IF p = Root THEN {} ELSE {p}

\* The chain recorded with the entry: the live parent's chain and the parent,
\* or the parent alone when it holds no slot any more.
ChainOf(p) ==
  IF p = Root THEN {} ELSE {p} \cup (IF p \in live THEN ancestors[p] ELSE {})

\* Mutant of Reserve: the entry is stored under the parent's id.
ReserveUnderParent(a, p) ==
  /\ live' = live \cup {p}
  /\ ancestors' = [ancestors EXCEPT ![a] = ChainOf(p)]
  /\ interrupted' = interrupted \ {a}

Reserve(a, p) ==
  /\ live' = live \cup {a}
  /\ ancestors' = [ancestors EXCEPT ![a] = ChainOf(p)]
  /\ interrupted' = interrupted \ {a}

HasLiveDescendants(a) == \E b \in live : a \in ancestors[b]

\* set_paused(): closes or opens the door, running agents are untouched.
SetPaused(b) ==
  /\ paused # b
  /\ paused' = b
  /\ UNCHANGED <<live, ancestors, interrupted, abortVars, runVars, flag>>

\* Mutant of Interrupt: the slot is freed on the label, not at the exit.
InterruptAndRelease(a) ==
  /\ a \in live
  /\ live' = live \ {a}
  /\ aborting' = aborting \cup {Controller(a)}
  /\ flag' = [flag EXCEPT ![Controller(a)] = "early"]
  /\ UNCHANGED <<ancestors, interrupted, paused, aborted, upstream, runVars>>

\* interrupt(), under the lock: flag the entry and capture its controller.
\* The slot stays held.
Interrupt(a) ==
  /\ a \in live
  /\ interrupted' = interrupted \cup {a}
  /\ aborting' = aborting \cup {Controller(a)}
  /\ flag' = [flag EXCEPT ![Controller(a)] =
                IF @ = "no" /\ run[a] = "releasing" THEN "late"
                ELSE IF @ = "no" THEN "early" ELSE @]
  /\ UNCHANGED <<live, ancestors, paused, aborted, upstream, runVars>>

\* Mutant of FireAbort: the controller is looked up again after the lock.
FireCurrentAbort(c) ==
  /\ c \in aborting
  /\ aborting' = aborting \ {c}
  /\ aborted' = aborted \cup {Controller(c[1])}
  /\ UNCHANGED <<supVars, upstream, runVars, flag>>

\* Mutant of FireAbort: the entry holds no handle, nothing is aborted.
FireNoAbort(c) ==
  /\ c \in aborting
  /\ aborting' = aborting \ {c}
  /\ UNCHANGED <<supVars, aborted, upstream, runVars, flag>>

\* interrupt(), after the lock: abort what was captured; the listeners of a
\* controller abort the controllers of the foreground runs below it.
FireAbort(c) ==
  /\ c \in aborting
  /\ aborting' = aborting \ {c}
  /\ aborted' = aborted \cup {c} \cup
                {Controller(b) : b \in {x \in Agents : c \in upstream[x]}}
  /\ UNCHANGED <<supVars, upstream, runVars, flag>>

-----------------------------------------------------------------------------
(* The callers.                                                            *)

\* The controller a run is given: a child of the parent's for a foreground
\* run, which starts aborted under an aborted parent; fresh otherwise.
LinkController(a, p) ==
  IF a \in Sync /\ p # Root
  THEN /\ upstream' = [upstream EXCEPT ![a] = {Controller(p)} \cup upstream[p]]
       /\ aborted' = IF Controller(p) \in aborted
                     THEN aborted \cup {<<a, runs[a] + 1>>} ELSE aborted
  ELSE UNCHANGED <<upstream, aborted>>

\* Between admission and the run: the isolated checkout is created, or reused
\* when it still exists. Failing to create it is the launch failing: the slot
\* goes straight back.
PrepareRun(a) ==
  /\ runs' = [runs EXCEPT ![a] = @ + 1]
  /\ \/ /\ run' = [run EXCEPT ![a] = "running"]
        /\ worktree' = [worktree EXCEPT ![a] = IF a \in Isolated THEN "present" ELSE @]
     \/ /\ a \in Isolated /\ worktree[a] \in {"none", "removed"}
        /\ run' = [run EXCEPT ![a] = "releasing"]
        /\ UNCHANGED worktree

\* The Agent tool admits a new agent for the root session or for an agent
\* whose run is in progress. A refused spawn returns a tool error and
\* changes nothing.
Spawn(a, p) ==
  /\ run[a] = "idle"
  /\ p # Root => run[p] = "running"
  /\ LET d == IF p = Root THEN 0 ELSE depth[p] + 1 IN
       /\ Admissible(d)
       /\ depth' = [depth EXCEPT ![a] = d]
  /\ Reserve(a, p)
  /\ LinkController(a, p)
  /\ parent' = [parent EXCEPT ![a] = p]
  /\ PrepareRun(a)
  /\ UNCHANGED <<paused, aborting, outcome, flag>>

\* A continuation admits the same id again, under the parent and depth of the
\* spawn; its checkout is reused, or created anew when it is gone.
Resume(a) ==
  /\ a \in Resumable
  /\ run[a] = "done"
  /\ runs[a] < MaxRuns
  /\ a \in Isolated => worktree[a] # "none"
  /\ Admissible(depth[a])
  /\ Reserve(a, parent[a])
  /\ PrepareRun(a)
  /\ UNCHANGED <<paused, abortVars, parent, depth, outcome, flag>>

\* The run returns or raises: a result, an error, or a seen abort.
Finish(a) ==
  /\ run[a] = "running"
  /\ run' = [run EXCEPT ![a] = "closing"]
  /\ UNCHANGED <<supVars, abortVars, runs, parent, depth, worktree, outcome, flag>>

\* A foreground run still has to read how it ended; a background run reports
\* from its task state (module LocalAgent).
AfterClose(a) == IF a \in Sync THEN "exiting" ELSE "releasing"

\* AgentWorktree.close() asks in_use(); a checkout in use is retained.
CheckInUse(a) ==
  /\ run[a] = "closing"
  /\ IF worktree[a] = "none"
     THEN /\ run' = [run EXCEPT ![a] = AfterClose(a)]
          /\ UNCHANGED worktree
     ELSE IF HasLiveDescendants(a)
     THEN /\ run' = [run EXCEPT ![a] = AfterClose(a)]
          /\ worktree' = [worktree EXCEPT ![a] = "retained"]
     ELSE /\ run' = [run EXCEPT ![a] = "removing"]
          /\ UNCHANGED worktree
  /\ UNCHANGED <<supVars, abortVars, runs, parent, depth, outcome, flag>>

\* The rest of close(): a changed checkout is retained, an unchanged one is
\* removed.
CloseWorktree(a) ==
  /\ run[a] = "removing"
  /\ \E w \in {"retained", "removed"} : worktree' = [worktree EXCEPT ![a] = w]
  /\ run' = [run EXCEPT ![a] = AfterClose(a)]
  /\ UNCHANGED <<supVars, abortVars, runs, parent, depth, outcome, flag>>

\* Mutant of ReadOutcome: only the signal is read, which interrupt() fires
\* after it has answered.
ReadSignalOnly(a) ==
  /\ run[a] = "exiting"
  /\ outcome' = [outcome EXCEPT ![a] =
       IF Controller(a) \in aborted THEN "interrupted" ELSE "completed"]
  /\ run' = [run EXCEPT ![a] = "releasing"]
  /\ UNCHANGED <<supVars, abortVars, runs, parent, depth, worktree, flag>>

\* is_interrupted() is read, and the signal with it, before the release.
ReadOutcome(a) ==
  /\ run[a] = "exiting"
  /\ outcome' = [outcome EXCEPT ![a] =
       IF (a \in live /\ a \in interrupted) \/ Controller(a) \in aborted
       THEN "interrupted" ELSE "completed"]
  /\ run' = [run EXCEPT ![a] = "releasing"]
  /\ UNCHANGED <<supVars, abortVars, runs, parent, depth, worktree, flag>>

\* release(): the entry is popped.
Release(a) ==
  /\ run[a] = "releasing"
  /\ live' = live \ {a}
  /\ interrupted' = interrupted \ {a}
  /\ run' = [run EXCEPT ![a] = "done"]
  /\ UNCHANGED <<ancestors, paused, abortVars, runs, parent, depth, worktree, outcome, flag>>

RunStep(a) == Finish(a) \/ CheckInUse(a) \/ CloseWorktree(a)
                \/ ReadOutcome(a) \/ Release(a)

Next ==
  \/ \E b \in BOOLEAN : SetPaused(b)
  \/ \E a \in Agents : Interrupt(a) \/ Resume(a) \/ RunStep(a)
  \/ \E a \in Agents, p \in Agents \cup {Root} : Spawn(a, p)
  \/ \E c \in Controllers : FireAbort(c)

Spec == Init /\ [][Next]_vars

\* A run polls its signal at every yield point, so an aborted run ends; a run
\* nobody aborts owes nothing. The cleanup after the run is straight-line code.
RunCleanup(a) == CheckInUse(a) \/ CloseWorktree(a) \/ ReadOutcome(a) \/ Release(a)
SeeAbort(a) == Controller(a) \in aborted /\ Finish(a)

Fairness ==
  /\ \A c \in Controllers : WF_vars(FireAbort(c))
  /\ \A a \in Agents : WF_vars(RunCleanup(a)) /\ WF_vars(SeeAbort(a))

FairSpec == Spec /\ Fairness

-----------------------------------------------------------------------------
(* Properties.                                                             *)

\* The session never has more agents at work than the cap: the slots bound
\* the workers, not merely the labels (release() runs at the worker's exit).
CapacityRespected ==
  /\ Cardinality({a \in Agents : run[a] \in Active}) <= MaxConcurrent
  /\ \A a \in Agents : run[a] \in Active => depth[a] <= MaxDepth

\* A slot is held exactly from admission to the worker's exit: no worker runs
\* without one, and no exited worker strands one.
SlotIffWorker == live = {a \in Agents : run[a] \in Active}

\* A foreground run that interrupt() reached before the run looked at how it
\* ended never reports "completed": the flag is read before the release.
HonestOutcome ==
  \A a \in Sync : /\ run[a] \in {"releasing", "done"}
                  /\ flag[Controller(a)] = "early"
                  => outcome[a] # "completed"

\* interrupt() stops only the run it flagged and the foreground runs below it,
\* although it aborts after leaving the lock: a resumed run never inherits the
\* abort meant for the run before it.
AbortHasCause ==
  \A c \in aborted : \/ flag[c] # "no"
                     \/ \E u \in upstream[c[1]] : flag[u] # "no"

\* The spawn tree: a is in every set that holds b and is closed under parent.
Above(a, b) ==
  /\ a # b
  /\ \A S \in SUBSET Agents :
       b \in S /\ (\A x \in S : parent[x] \in S \cup {Root}) => a \in S

\* "Keep ancestor resources alive even after an intermediate child exits":
\* a checkout is not removed under a live agent of its subtree.
NoRemovalUnderLiveDescendant ==
  [][\A a \in Agents :
       worktree[a] = "present" /\ worktree'[a] = "removed"
         => ~ \E b \in live : Above(a, b)]_vars

\* An interrupted run gives its slot back.
InterruptFreesSlot ==
  \A a \in Agents : \A n \in 1..MaxRuns :
    (<<a, n>> \in aborting) ~> ~(a \in live /\ runs[a] = n)

\* What the session promises about its workers: at most MaxConcurrent are at
\* work, and none starts for an id that has one at work.
BusyAgents == {a \in Agents : run[a] \in Active}
Pool == INSTANCE SlotPool WITH
          Workers <- Agents, Capacity <- MaxConcurrent, busy <- BusyAgents
PoolSpec == Pool!Spec
=============================================================================
