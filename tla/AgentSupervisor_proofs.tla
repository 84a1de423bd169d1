----------------------- MODULE AgentSupervisor_proofs -----------------------
(***************************************************************************)
(* Proofs about AgentSupervisor, for every set of agents, every cap, depth *)
(* and number of runs.                                                     *)
(***************************************************************************)
EXTENDS AgentSupervisor, FiniteSetTheorems, TLAPS

\* An id was admitted once for each of its runs; a child is linked to its
\* parent's controller when it is spawned.
RunsInv ==
  \A a \in Agents :
    /\ run[a] = "idle" <=> runs[a] = 0
    /\ upstream[a] # {} => runs[a] # 0

SlotsInv ==
  /\ SlotIffWorker
  /\ Cardinality(live) <= MaxConcurrent
  /\ \A a \in Agents : run[a] \in Active => depth[a] <= MaxDepth
  /\ interrupted \subseteq live

IInv == TypeOK /\ RunsInv /\ SlotsInv

LEMMA AdmittedController ==
  ASSUME TypeOK, NEW a \in Agents, runs[a] # 0
  PROVE  Controller(a) \in Controllers
BY BoundsAssumption DEF TypeOK, Controller, Controllers

LEMMA InitIInv == Init => IInv
<1>1. Cardinality({}) = 0
  BY FS_EmptySet
<1>2. Init => TypeOK
  <2> SUFFICES ASSUME Init PROVE TypeOK
    OBVIOUS
  <2>1. /\ run \in [Agents -> RunStates] /\ runs \in [Agents -> 0..MaxRuns]
        /\ worktree \in [Agents -> {"none", "present", "retained", "removed"}]
        /\ outcome \in [Agents -> {"none", "completed", "interrupted"}]
        /\ flag \in [Controllers -> {"no", "early", "late"}]
    BY BoundsAssumption DEF Init, RunStates
  <2>2. /\ parent \in [Agents -> Agents \cup {Root}] /\ depth \in [Agents -> Nat]
        /\ ancestors \in [Agents -> SUBSET Agents]
        /\ upstream \in [Agents -> SUBSET Controllers]
    BY DEF Init
  <2> QED
    BY <2>1, <2>2 DEF Init, TypeOK
<1>3. Init => RunsInv
  BY DEF Init, RunsInv
<1>4. Init => SlotsInv
  BY <1>1, BoundsAssumption DEF Init, SlotsInv, SlotIffWorker, Active
<1> QED
  BY <1>2, <1>3, <1>4 DEF IInv

\* A reserved slot: the set of live ids grows by an id that was not in it,
\* below the cap.
LEMMA ReserveCard ==
  ASSUME TypeOK, NEW a \in Agents, NEW d, Admissible(d),
         live' = live \cup {a}
  PROVE  Cardinality(live') <= MaxConcurrent
<1>1. IsFiniteSet(live)
  BY AgentsAssumption, FS_Subset DEF TypeOK
<1>2. Cardinality(live) \in Nat /\ Cardinality(live) < MaxConcurrent
  BY <1>1, FS_CardinalityType DEF Admissible
<1>3. Cardinality(live') = IF a \in live THEN Cardinality(live) ELSE Cardinality(live) + 1
  BY <1>1, FS_AddElement
<1> QED
  BY <1>2, <1>3, BoundsAssumption

\* Admission and the preparation of the run, for a spawn and for a resume.
LEMMA AdmitStep ==
  ASSUME IInv, NEW a \in Agents, NEW p \in Agents \cup {Root}, NEW d \in Nat,
         run[a] \in {"idle", "done"}, runs[a] < MaxRuns,
         Admissible(d), Reserve(a, p), PrepareRun(a),
         depth' = [depth EXCEPT ![a] = d]
  PROVE  /\ live' \subseteq Agents
         /\ ancestors' \in [Agents -> SUBSET Agents]
         /\ interrupted' \subseteq Agents
         /\ run' \in [Agents -> RunStates]
         /\ runs' \in [Agents -> 0..MaxRuns]
         /\ worktree' \in [Agents -> {"none", "present", "retained", "removed"}]
         /\ depth' \in [Agents -> Nat]
         /\ runs'[a] # 0 /\ run'[a] # "idle"
         /\ \A b \in Agents \ {a} : runs'[b] = runs[b] /\ run'[b] = run[b]
         /\ SlotsInv'
<1> USE DEF IInv, TypeOK
<1>1. /\ run' \in [Agents -> RunStates] /\ run'[a] \in {"running", "releasing"}
      /\ \A b \in Agents \ {a} : run'[b] = run[b]
  BY DEF PrepareRun, RunStates
<1>2. /\ runs' \in [Agents -> 0..MaxRuns] /\ runs'[a] # 0
      /\ \A b \in Agents \ {a} : runs'[b] = runs[b]
  BY BoundsAssumption DEF PrepareRun
<1>3. worktree' \in [Agents -> {"none", "present", "retained", "removed"}]
  BY DEF PrepareRun
<1>4. live' = live \cup {a} /\ interrupted' = interrupted \ {a}
  BY DEF Reserve
<1>5. ancestors' \in [Agents -> SUBSET Agents]
  BY DEF Reserve, ChainOf
<1>6. Cardinality(live') <= MaxConcurrent
  BY <1>4, ReserveCard
<1>7. SlotIffWorker'
  BY <1>1, <1>4 DEF SlotIffWorker, SlotsInv, Active
<1>8. \A b \in Agents : run'[b] \in Active => depth'[b] <= MaxDepth
  BY <1>1 DEF SlotsInv, Admissible
<1>9. SlotsInv'
  BY <1>4, <1>6, <1>7, <1>8 DEF SlotsInv
<1> QED
  BY <1>1, <1>2, <1>3, <1>4, <1>5, <1>9

LEMMA NextIInv == IInv /\ [Next]_vars => IInv'
<1> SUFFICES ASSUME IInv, [Next]_vars PROVE IInv'
  OBVIOUS
<1> USE DEF supVars, abortVars, runVars
<1>1. ASSUME NEW b \in BOOLEAN, SetPaused(b) PROVE IInv'
  BY <1>1 DEF SetPaused, IInv, TypeOK, RunsInv, SlotsInv, SlotIffWorker
<1>2. ASSUME NEW a \in Agents, Interrupt(a) PROVE IInv'
  <2>1. runs[a] # 0 /\ Controller(a) \in Controllers
    <3>1. runs[a] # 0
      BY <1>2 DEF Interrupt, IInv, RunsInv, SlotsInv, SlotIffWorker, Active
    <3> QED
      BY <3>1, AdmittedController DEF IInv
  <2>2. TypeOK'
    BY <1>2, <2>1 DEF Interrupt, IInv, TypeOK
  <2> QED
    BY <1>2, <2>2 DEF Interrupt, IInv, RunsInv, SlotsInv, SlotIffWorker
<1>3. ASSUME NEW c \in Controllers, FireAbort(c) PROVE IInv'
  <2>1. {Controller(b) : b \in {x \in Agents : c \in upstream[x]}} \subseteq Controllers
    <3> SUFFICES ASSUME NEW b \in Agents, c \in upstream[b]
                 PROVE  Controller(b) \in Controllers
      OBVIOUS
    <3> QED
      BY AdmittedController DEF IInv, RunsInv
  <2>2. TypeOK'
    BY <1>3, <2>1 DEF FireAbort, IInv, TypeOK
  <2> QED
    BY <1>3, <2>2 DEF FireAbort, IInv, RunsInv, SlotsInv, SlotIffWorker
<1>4. ASSUME NEW a \in Agents, Resume(a) PROVE IInv'
  <2>1. /\ depth' = [depth EXCEPT ![a] = depth[a]]
        /\ depth[a] \in Nat /\ parent[a] \in Agents \cup {Root}
    BY <1>4 DEF Resume, IInv, TypeOK
  <2>2. /\ run[a] \in {"idle", "done"} /\ runs[a] < MaxRuns
        /\ Admissible(depth[a]) /\ Reserve(a, parent[a]) /\ PrepareRun(a)
        /\ UNCHANGED <<paused, abortVars, parent, outcome, flag>>
    BY <1>4 DEF Resume
  <2>3. TypeOK' /\ SlotsInv' /\ runs'[a] # 0 /\ run'[a] # "idle"
        /\ \A b \in Agents \ {a} : runs'[b] = runs[b] /\ run'[b] = run[b]
    BY <2>1, <2>2, AdmitStep DEF IInv, TypeOK
  <2> QED
    BY <2>2, <2>3 DEF IInv, RunsInv
<1>5. ASSUME NEW a \in Agents, NEW p \in Agents \cup {Root}, Spawn(a, p) PROVE IInv'
  <2> DEFINE d == IF p = Root THEN 0 ELSE depth[p] + 1
  <2>1. d \in Nat
    BY DEF IInv, TypeOK
  <2>2. /\ run[a] \in {"idle", "done"} /\ run[a] = "idle" /\ runs[a] = 0
        /\ Admissible(d) /\ Reserve(a, p) /\ PrepareRun(a)
        /\ depth' = [depth EXCEPT ![a] = d]
        /\ LinkController(a, p)
        /\ parent' = [parent EXCEPT ![a] = p]
        /\ UNCHANGED <<paused, aborting, outcome, flag>>
    BY <1>5 DEF Spawn, IInv, RunsInv
  <2>3. runs[a] < MaxRuns
    BY <2>2, BoundsAssumption
  <2> HIDE DEF d
  <2>4. /\ live' \subseteq Agents
        /\ ancestors' \in [Agents -> SUBSET Agents]
        /\ interrupted' \subseteq Agents
        /\ run' \in [Agents -> RunStates]
        /\ runs' \in [Agents -> 0..MaxRuns]
        /\ worktree' \in [Agents -> {"none", "present", "retained", "removed"}]
        /\ depth' \in [Agents -> Nat]
        /\ runs'[a] # 0 /\ run'[a] # "idle"
        /\ \A b \in Agents \ {a} : runs'[b] = runs[b] /\ run'[b] = run[b]
        /\ SlotsInv'
    BY <2>1, <2>2, <2>3, AdmitStep
  <2>5. aborted' \subseteq Controllers /\ upstream' \in [Agents -> SUBSET Controllers]
    <3>1. CASE a \in Sync /\ p # Root
      <4>1. p \in Agents /\ runs[p] # 0
        BY <1>5, <3>1 DEF Spawn, IInv, RunsInv
      <4>2. Controller(p) \in Controllers
        BY <4>1, AdmittedController DEF IInv
      <4>3. <<a, runs[a] + 1>> \in Controllers
        BY <2>2, BoundsAssumption DEF Controllers
      <4> QED
        BY <2>2, <3>1, <4>1, <4>2, <4>3 DEF LinkController, IInv, TypeOK
    <3>2. CASE ~(a \in Sync /\ p # Root)
      BY <2>2, <3>2 DEF LinkController, IInv, TypeOK
    <3> QED
      BY <3>1, <3>2
  <2>6. \A b \in Agents \ {a} : upstream'[b] = upstream[b]
    BY <2>2 DEF LinkController, IInv, TypeOK
  <2>7. TypeOK'
    BY <2>2, <2>4, <2>5 DEF IInv, TypeOK
  <2>8. RunsInv'
    BY <2>4, <2>6 DEF IInv, RunsInv
  <2> QED
    BY <2>4, <2>7, <2>8 DEF IInv
<1>6. ASSUME NEW a \in Agents,
             Finish(a) \/ CheckInUse(a) \/ CloseWorktree(a) \/ ReadOutcome(a)
      PROVE  IInv'
  <2>1. TypeOK'
    BY <1>6 DEF Finish, CheckInUse, CloseWorktree, ReadOutcome, AfterClose, IInv,
                TypeOK, RunStates
  <2>2. /\ run[a] \in Active /\ \E l \in Active : run' = [run EXCEPT ![a] = l]
        /\ UNCHANGED <<live, interrupted, runs, upstream, depth>>
    BY <1>6 DEF Finish, CheckInUse, CloseWorktree, ReadOutcome, AfterClose, Active
  <2>3. RunsInv'
    BY <2>2 DEF IInv, RunsInv, TypeOK, Active
  <2>4. SlotsInv'
    BY <2>2 DEF IInv, SlotsInv, SlotIffWorker, TypeOK
  <2> QED
    BY <2>1, <2>3, <2>4 DEF IInv
<1>7. ASSUME NEW a \in Agents, Release(a) PROVE IInv'
  <2>1. TypeOK'
    BY <1>7 DEF Release, IInv, TypeOK, RunStates
  <2>2. RunsInv'
    BY <1>7 DEF Release, IInv, RunsInv, TypeOK
  <2>3. Cardinality(live') <= MaxConcurrent
    <3>1. live' = live \ {a} /\ live' \subseteq live
      BY <1>7 DEF Release
    <3>2. IsFiniteSet(live)
      BY AgentsAssumption, FS_Subset DEF IInv, TypeOK
    <3>3. /\ IsFiniteSet(live') /\ Cardinality(live') <= Cardinality(live)
          /\ Cardinality(live) \in Nat /\ Cardinality(live') \in Nat
      BY <3>1, <3>2, FS_Subset, FS_CardinalityType
    <3> QED
      BY <3>3, BoundsAssumption DEF IInv, SlotsInv
  <2>4. SlotsInv'
    BY <1>7, <2>3 DEF Release, IInv, SlotsInv, SlotIffWorker, TypeOK, Active
  <2> QED
    BY <2>1, <2>2, <2>4 DEF IInv
<1>8. CASE UNCHANGED vars
  BY <1>8 DEF vars, IInv, TypeOK, RunsInv, SlotsInv, SlotIffWorker
<1> QED
  BY <1>1, <1>2, <1>3, <1>4, <1>5, <1>6, <1>7, <1>8 DEF Next, RunStep

\* Every variable keeps its type.
THEOREM TypeCorrect == Spec => []TypeOK
BY InitIInv, NextIInv, PTL DEF Spec, IInv

\* A slot is held exactly from admission to the worker's exit.
THEOREM SlotsMatchWorkers == Spec => []SlotIffWorker
BY InitIInv, NextIInv, PTL DEF Spec, IInv, SlotsInv

\* admit() and release() keep the workers of a session within its caps,
\* whatever interleaving of spawns, resumes, interrupts and exits.
THEOREM CapacityHolds == Spec => []CapacityRespected
<1>1. IInv => CapacityRespected
  BY DEF IInv, SlotsInv, SlotIffWorker, CapacityRespected
<1> QED
  BY <1>1, InitIInv, NextIInv, PTL DEF Spec

-----------------------------------------------------------------------------
(***************************************************************************)
(* interrupt() aborts after it has left the lock. What it captured is the  *)
(* controller of the run it flagged, so a run that took the id over in the *)
(* meantime is not touched.                                                *)
(***************************************************************************)
\* Controllers exist once their run was admitted.
PastController(c) == c[2] <= runs[c[1]]
CauseInv ==
  /\ AbortHasCause
  /\ \A c \in aborting : flag[c] # "no"
  /\ \A c \in aborted \cup aborting : PastController(c)

\* A flag once raised stays raised.
LEMMA FlagsStay == TypeOK /\ [Next]_vars => \A c \in Controllers : flag[c] # "no" => flag'[c] # "no"
<1> SUFFICES ASSUME TypeOK, [Next]_vars, NEW c \in Controllers, flag[c] # "no"
             PROVE  flag'[c] # "no"
  OBVIOUS
<1>1. ASSUME NEW a \in Agents, Interrupt(a) PROVE flag'[c] # "no"
  BY <1>1 DEF Interrupt, TypeOK
<1>2. ~(\E a \in Agents : Interrupt(a)) => flag' = flag
  BY DEF Next, vars, SetPaused, Resume, RunStep, Finish, CheckInUse, CloseWorktree,
         ReadOutcome, Release, Spawn, FireAbort
<1> QED
  BY <1>1, <1>2

LEMMA CauseStep == IInv /\ CauseInv /\ [Next]_vars => CauseInv'
<1> SUFFICES ASSUME IInv, CauseInv, [Next]_vars PROVE CauseInv'
  OBVIOUS
<1>f. \A c \in Controllers : flag[c] # "no" => flag'[c] # "no"
  BY FlagsStay DEF IInv
<1>t. /\ aborted \subseteq Controllers /\ aborting \subseteq Controllers
      /\ \A a \in Agents : upstream[a] \subseteq Controllers
      /\ \A c \in Controllers : c[1] \in Agents
  BY DEF IInv, TypeOK, Controllers
<1> USE DEF supVars, abortVars, runVars
\* Nothing is aborted, captured or linked.
<1>0. ASSUME UNCHANGED <<aborted, aborting, upstream>>,
             \A a \in Agents : runs[a] <= runs'[a]
      PROVE  CauseInv'
  <2>1. AbortHasCause'
    BY <1>0, <1>f, <1>t DEF CauseInv, AbortHasCause
  <2>2. \A c \in aborted' \cup aborting' : PastController(c)'
    <3> SUFFICES ASSUME NEW c \in aborted \cup aborting PROVE c[2] <= runs'[c[1]]
      BY <1>0 DEF PastController
    <3>1. c[1] \in Agents /\ c[2] \in Nat /\ c[2] <= runs[c[1]]
      BY <1>t DEF CauseInv, PastController, Controllers
    <3>2. runs[c[1]] <= runs'[c[1]] /\ runs[c[1]] \in Nat /\ runs'[c[1]] \in Nat
      BY <1>0, <3>1, NextIInv DEF IInv, TypeOK
    <3> QED
      BY <3>1, <3>2
  <2> QED
    BY <1>0, <1>f, <1>t, <2>1, <2>2 DEF CauseInv
<1>1. ASSUME NEW b \in BOOLEAN, SetPaused(b) PROVE CauseInv'
  BY <1>0, <1>1 DEF SetPaused, IInv, TypeOK
<1>2. ASSUME NEW a \in Agents, Interrupt(a) PROVE CauseInv'
  <2>1. Controller(a) \in Controllers
    <3>1. runs[a] # 0
      BY <1>2 DEF Interrupt, IInv, RunsInv, SlotsInv, SlotIffWorker, Active
    <3> QED
      BY <3>1, AdmittedController DEF IInv
  <2>2. flag'[Controller(a)] # "no" /\ PastController(Controller(a))
    BY <1>2, <2>1 DEF Interrupt, IInv, TypeOK, PastController, Controller
  <2>3. aborting' = aborting \cup {Controller(a)} /\ UNCHANGED <<aborted, upstream, runs>>
    BY <1>2 DEF Interrupt
  <2> QED
    BY <1>f, <1>t, <2>2, <2>3 DEF CauseInv, AbortHasCause, PastController
<1>3. ASSUME NEW c \in Controllers, FireAbort(c) PROVE CauseInv'
  <2> DEFINE Caused(d) == flag[d] # "no" \/ \E u \in upstream[d[1]] : flag[u] # "no"
  <2>1. c \in aborting /\ flag[c] # "no" /\ PastController(c) /\ UNCHANGED <<flag, upstream, runs>>
    BY <1>3 DEF FireAbort, CauseInv
  <2>2. ASSUME NEW d \in aborted' PROVE PastController(d) /\ Caused(d)
    <3>1. CASE d \in aborted \/ d = c
      BY <2>1, <3>1 DEF CauseInv, AbortHasCause
    <3>2. CASE \E b \in Agents : c \in upstream[b] /\ d = Controller(b)
      <4>1. PICK b \in Agents : c \in upstream[b] /\ d = <<b, runs[b]>>
        BY <3>2 DEF Controller
      <4>2. d[1] = b /\ d[2] = runs[b] /\ runs[b] \in Nat
        BY <4>1 DEF IInv, TypeOK
      <4> QED
        BY <2>1, <4>1, <4>2 DEF PastController
    <3> QED
      BY <1>3, <2>2, <3>1, <3>2 DEF FireAbort
  <2>3. aborting' \subseteq aborting
    BY <1>3 DEF FireAbort
  <2> QED
    BY <2>1, <2>2, <2>3 DEF CauseInv, AbortHasCause, PastController
<1>4. ASSUME NEW a \in Agents, Resume(a) PROVE CauseInv'
  <2>1. \A b \in Agents : runs[b] <= runs'[b]
    BY <1>4 DEF Resume, PrepareRun, IInv, TypeOK
  <2> QED
    BY <1>0, <1>4, <2>1 DEF Resume
<1>5. ASSUME NEW a \in Agents, NEW p \in Agents \cup {Root}, Spawn(a, p) PROVE CauseInv'
  <2>1. \A b \in Agents : runs[b] <= runs'[b]
    BY <1>5 DEF Spawn, PrepareRun, IInv, TypeOK
  <2>2. CASE ~(a \in Sync /\ p # Root)
    BY <1>0, <1>5, <2>1, <2>2 DEF Spawn, LinkController
  <2>3. CASE a \in Sync /\ p # Root
    <3>1. /\ runs[a] = 0 /\ runs'[a] = 1 /\ p \in Agents /\ UNCHANGED <<aborting, flag>>
          /\ upstream' = [upstream EXCEPT ![a] = {Controller(p)} \cup upstream[p]]
          /\ aborted' = IF Controller(p) \in aborted
                        THEN aborted \cup {<<a, 1>>} ELSE aborted
      BY <1>5, <2>3 DEF Spawn, PrepareRun, LinkController, IInv, RunsInv, TypeOK
    <3>2. \A c \in aborted \cup aborting : c[1] # a /\ PastController(c)'
      <4> SUFFICES ASSUME NEW c \in aborted \cup aborting
                   PROVE  c[1] # a /\ PastController(c)'
        OBVIOUS
      <4>1. c[1] \in Agents /\ c[2] \in 1..MaxRuns /\ c[2] <= runs[c[1]]
        BY <1>t DEF CauseInv, PastController, Controllers
      <4>2. runs[c[1]] \in Nat /\ runs'[c[1]] \in Nat
        BY <4>1, NextIInv DEF IInv, TypeOK
      <4> QED
        BY <2>1, <3>1, <4>1, <4>2, BoundsAssumption DEF PastController
    <3>3. \A c \in aborted : flag[c] # "no" \/ \E u \in upstream'[c[1]] : flag[u] # "no"
      <4>1. \A c \in aborted : upstream'[c[1]] = upstream[c[1]]
        BY <1>t, <3>1, <3>2 DEF IInv, TypeOK
      <4> QED
        BY <4>1 DEF CauseInv, AbortHasCause
    <3>4. Controller(p) \in aborted => \E u \in upstream'[a] : flag[u] # "no"
      <4>1. upstream'[a] = {Controller(p)} \cup upstream[p]
        BY <3>1 DEF IInv, TypeOK
      <4> QED
        BY <3>1, <4>1 DEF CauseInv, AbortHasCause, Controller
    <3>5. AbortHasCause'
      BY <3>1, <3>3, <3>4 DEF AbortHasCause
    <3>6. \A c \in aborted' \cup aborting' : PastController(c)'
      BY <3>1, <3>2 DEF PastController
    <3> QED
      BY <3>1, <3>5, <3>6 DEF CauseInv
  <2> QED
    BY <2>2, <2>3
<1>6. ASSUME NEW a \in Agents, RunStep(a) PROVE CauseInv'
  BY <1>0, <1>6 DEF RunStep, Finish, CheckInUse, CloseWorktree, ReadOutcome,
                    Release, IInv, TypeOK
<1>7. CASE UNCHANGED vars
  BY <1>0, <1>7 DEF vars, IInv, TypeOK
<1> QED
  BY <1>1, <1>2, <1>3, <1>4, <1>5, <1>6, <1>7 DEF Next

\* interrupt() stops only runs it was aimed at, and the foreground runs below
\* them, although it aborts after leaving the lock.
THEOREM AbortsHaveCauses == Spec => []AbortHasCause
<1>1. Init => CauseInv
  BY DEF Init, CauseInv, AbortHasCause
<1> QED
  BY <1>1, InitIInv, NextIInv, CauseStep, PTL DEF Spec, CauseInv

-----------------------------------------------------------------------------
(***************************************************************************)
(* What a foreground run reports. The flag interrupt() raises lives in the *)
(* entry, and the entry stays until the run has read it.                   *)
(***************************************************************************)
BeforeReport == {"idle", "running", "closing", "removing", "exiting"}
ReportInv ==
  /\ \A c \in Controllers : flag[c] # "no" => PastController(c)
  /\ \A a \in Sync :
       /\ run[a] \in BeforeReport => outcome[a] = "none"
       /\ run[a] \in BeforeReport \ {"idle"} /\ flag[Controller(a)] = "early"
            => a \in interrupted
  /\ HonestOutcome

LEMMA ReportStep == IInv /\ ReportInv /\ [Next]_vars => ReportInv'
<1> SUFFICES ASSUME IInv, ReportInv, [Next]_vars PROVE ReportInv'
  OBVIOUS
<1>t. /\ Sync \subseteq Agents
      /\ \A a \in Agents : runs[a] \in 0..MaxRuns /\ runs'[a] \in 0..MaxRuns
      /\ \A a, b \in Agents : a # b => Controller(a) # Controller(b)
      /\ \A c \in Controllers : c[1] \in Agents /\ c[2] \in 1..MaxRuns
  BY NextIInv, AgentsAssumption, BoundsAssumption DEF IInv, TypeOK, Controller, Controllers
<1> USE DEF supVars, abortVars, runVars
\* No flag is raised and no run starts, reports or ends.
<1>0. ASSUME UNCHANGED <<flag, outcome, runs>>,
             \A a \in Sync : /\ run'[a] = run[a] \/ {run[a], run'[a]} \subseteq BeforeReport \ {"idle"}
                             /\ a \in interrupted => a \in interrupted'
      PROVE  ReportInv'
  BY <1>0 DEF ReportInv, HonestOutcome, Controller, PastController, BeforeReport
<1>1. ASSUME NEW b \in BOOLEAN, SetPaused(b) PROVE ReportInv'
  BY <1>0, <1>1 DEF SetPaused
<1>2. ASSUME NEW a \in Agents, Interrupt(a) PROVE ReportInv'
  <2>1. /\ Controller(a) \in Controllers /\ PastController(Controller(a))
        /\ run[a] \in Active
    <3>1. runs[a] # 0 /\ run[a] \in Active
      BY <1>2 DEF Interrupt, IInv, RunsInv, SlotsInv, SlotIffWorker, Active
    <3> QED
      BY <3>1, <1>t, AdmittedController DEF IInv, PastController, Controller
  <2>2. /\ \A c \in Controllers : c # Controller(a) => flag'[c] = flag[c]
        /\ flag'[Controller(a)] = "early" =>
             flag[Controller(a)] = "early" \/ run[a] # "releasing"
    BY <1>2, <2>1 DEF Interrupt, IInv, TypeOK
  <2>3. /\ interrupted' = interrupted \cup {a}
        /\ UNCHANGED <<run, runs, outcome>>
    BY <1>2 DEF Interrupt
  <2>4. \A c \in Controllers : flag'[c] # "no" => PastController(c)'
    BY <2>1, <2>2, <2>3 DEF ReportInv, PastController
  <2>5. ASSUME NEW b \in Sync
        PROVE  /\ run'[b] \in BeforeReport => outcome'[b] = "none"
               /\ run'[b] \in BeforeReport \ {"idle"} /\ flag'[Controller(b)'] = "early"
                    => b \in interrupted'
               /\ run'[b] \in {"releasing", "done"} /\ flag'[Controller(b)'] = "early"
                    => outcome'[b] # "completed"
    <3>1. CASE b = a
      BY <2>1, <2>2, <2>3, <3>1 DEF ReportInv, HonestOutcome, BeforeReport, Active, Controller
    <3>2. CASE b # a
      <4>1. CASE runs[b] = 0
        BY <2>3, <4>1, <1>t DEF ReportInv, HonestOutcome, BeforeReport, Controller, IInv, RunsInv
      <4>2. CASE runs[b] # 0
        <5>1. Controller(b) \in Controllers /\ Controller(b) # Controller(a)
          BY <1>t, <3>2, <4>2, AdmittedController DEF IInv
        <5>2. flag'[Controller(b)'] = flag[Controller(b)]
          BY <2>2, <2>3, <5>1 DEF Controller
        <5> QED
          BY <2>3, <5>2 DEF ReportInv, HonestOutcome
      <4> QED
        BY <4>1, <4>2
    <3> QED
      BY <3>1, <3>2
  <2> QED
    BY <2>4, <2>5 DEF ReportInv, HonestOutcome
<1>3. ASSUME NEW c \in Controllers, FireAbort(c) PROVE ReportInv'
  BY <1>0, <1>3 DEF FireAbort
<1>4. ASSUME NEW a \in Agents,
             Resume(a) \/ \E p \in Agents \cup {Root} : Spawn(a, p)
      PROVE  ReportInv'
  <2>1. /\ run[a] \in {"idle", "done"} /\ (a \in Sync => run[a] = "idle")
        /\ interrupted' = interrupted \ {a}
        /\ runs' = [runs EXCEPT ![a] = @ + 1]
        /\ \E l \in {"running", "releasing"} : run' = [run EXCEPT ![a] = l]
        /\ UNCHANGED <<outcome, flag>>
    BY <1>4, AgentsAssumption DEF Resume, Spawn, Reserve, PrepareRun
  <2>2. runs'[a] = runs[a] + 1 /\ \A b \in Agents : b # a => runs'[b] = runs[b] /\ run'[b] = run[b]
    BY <2>1 DEF IInv, TypeOK
  <2>3. \A c \in Controllers : flag'[c] # "no" => PastController(c)'
    BY <1>t, <2>1, <2>2 DEF ReportInv, PastController
  <2>4. Controller(a)' \in Controllers /\ flag'[Controller(a)'] = "no"
    <3>1. Controller(a)' = <<a, runs[a] + 1>> /\ runs[a] + 1 \in 1..MaxRuns
      BY <1>t, <2>2 DEF Controller
    <3>2. <<a, runs[a] + 1>> \in Controllers /\ ~PastController(<<a, runs[a] + 1>>)
      BY <1>t, <3>1 DEF Controllers, PastController
    <3> QED
      BY <2>1, <3>1, <3>2 DEF ReportInv
  <2>5. ASSUME NEW b \in Sync
        PROVE  /\ run'[b] \in BeforeReport => outcome'[b] = "none"
               /\ run'[b] \in BeforeReport \ {"idle"} /\ flag'[Controller(b)'] = "early"
                    => b \in interrupted'
               /\ run'[b] \in {"releasing", "done"} /\ flag'[Controller(b)'] = "early"
                    => outcome'[b] # "completed"
    <3>1. CASE b = a
      BY <2>1, <2>4, <3>1 DEF ReportInv, BeforeReport
    <3>2. CASE b # a
      BY <1>t, <2>1, <2>2, <3>2 DEF ReportInv, HonestOutcome, Controller
    <3> QED
      BY <3>1, <3>2
  <2> QED
    BY <2>3, <2>5 DEF ReportInv, HonestOutcome
<1>5. ASSUME NEW a \in Agents, Finish(a) \/ CheckInUse(a) \/ CloseWorktree(a)
      PROVE  ReportInv'
  <2>1. UNCHANGED <<flag, outcome, runs, interrupted>>
    BY <1>5 DEF Finish, CheckInUse, CloseWorktree
  <2>2. \A b \in Sync : run'[b] = run[b] \/ {run[b], run'[b]} \subseteq BeforeReport \ {"idle"}
    BY <1>5, <1>t DEF Finish, CheckInUse, CloseWorktree, AfterClose, BeforeReport, IInv, TypeOK
  <2> QED
    BY <1>0, <2>1, <2>2
<1>6. ASSUME NEW a \in Agents, ReadOutcome(a) PROVE ReportInv'
  <2>1. /\ a \in live /\ run[a] = "exiting" /\ run'[a] = "releasing"
        /\ \A b \in Agents : b # a => run'[b] = run[b] /\ outcome'[b] = outcome[b]
        /\ a \in interrupted => outcome'[a] = "interrupted"
        /\ UNCHANGED <<interrupted, flag, runs>>
    BY <1>6 DEF ReadOutcome, IInv, TypeOK, SlotsInv, SlotIffWorker, Active
  <2> QED
    BY <1>t, <2>1 DEF ReportInv, HonestOutcome, BeforeReport, Controller, PastController
<1>7. ASSUME NEW a \in Agents, Release(a) PROVE ReportInv'
  <2>1. /\ run[a] = "releasing" /\ run'[a] = "done"
        /\ \A b \in Agents : b # a => run'[b] = run[b] /\ (b \in interrupted => b \in interrupted')
        /\ UNCHANGED <<outcome, flag, runs>>
    BY <1>7 DEF Release, IInv, TypeOK
  <2> QED
    BY <1>t, <2>1 DEF ReportInv, HonestOutcome, BeforeReport, Controller, PastController
<1>8. CASE UNCHANGED vars
  BY <1>0, <1>8 DEF vars
<1> QED
  BY <1>1, <1>2, <1>3, <1>4, <1>5, <1>6, <1>7, <1>8 DEF Next, RunStep

\* A foreground run that was interrupted before it looked never reports that
\* it completed.
THEOREM OutcomesHonest == Spec => []HonestOutcome
<1>1. Init => ReportInv
  BY AgentsAssumption DEF Init, ReportInv, HonestOutcome, BeforeReport
<1> QED
  BY <1>1, InitIInv, NextIInv, ReportStep, PTL DEF Spec, ReportInv

-----------------------------------------------------------------------------
(***************************************************************************)
(* The supervisor and its callers implement the slot pool: an admission    *)
(* maps to Start, a release to Stop.                                       *)
(***************************************************************************)
\* The pool's Cardinality is ours.
LEMMA SameCardinality == \A S : Pool!Cardinality(S) = Cardinality(S)
BY DEF Pool!Cardinality, Cardinality

LEMMA PoolStep == IInv /\ IInv' /\ [Next]_vars => [Pool!Next]_(BusyAgents)
<1> SUFFICES ASSUME IInv, IInv', [Next]_vars
             PROVE  Pool!Next \/ UNCHANGED BusyAgents
  OBVIOUS
<1>l. BusyAgents = live /\ BusyAgents' = live'
  BY DEF IInv, SlotsInv, SlotIffWorker, BusyAgents
<1>s. live' = live => UNCHANGED BusyAgents
  BY <1>l
<1>1. ASSUME NEW a \in Agents,
             Resume(a) \/ \E p \in Agents \cup {Root} : Spawn(a, p)
      PROVE  Pool!Next
  <2>1. /\ a \notin live /\ live' = live \cup {a}
        /\ Cardinality(live) < MaxConcurrent
    BY <1>1 DEF Resume, Spawn, Reserve, Admissible, IInv, SlotsInv, SlotIffWorker, Active
  <2> QED
    BY <1>l, <2>1, SameCardinality DEF Pool!Next, Pool!Start
<1>2. ASSUME NEW a \in Agents, Release(a) PROVE Pool!Next
  <2>1. a \in live /\ live' = live \ {a}
    BY <1>2 DEF Release, IInv, SlotsInv, SlotIffWorker, Active
  <2> QED
    BY <1>l, <2>1 DEF Pool!Next, Pool!Stop
<1>3. ASSUME NEW a \in Agents,
             \/ Interrupt(a) \/ Finish(a) \/ CheckInUse(a) \/ CloseWorktree(a)
             \/ ReadOutcome(a)
      PROVE  live' = live
  BY <1>3 DEF Interrupt, Finish, CheckInUse, CloseWorktree, ReadOutcome, supVars
<1>4. CASE \/ UNCHANGED vars \/ \E b \in BOOLEAN : SetPaused(b)
           \/ \E c \in Controllers : FireAbort(c)
  BY <1>4, <1>s DEF vars, SetPaused, FireAbort, supVars
<1> QED
  BY <1>1, <1>2, <1>3, <1>4, <1>s DEF Next, RunStep

\* The supervisor and its callers implement the slot pool.
THEOREM ImplementsPool == Spec => PoolSpec
<1>1. Init => Pool!Init
  BY DEF Init, Pool!Init, BusyAgents, Active
<1> QED
  BY <1>1, InitIInv, NextIInv, PoolStep, PTL DEF Spec, PoolSpec, Pool!Spec

-----------------------------------------------------------------------------
(***************************************************************************)
(* Checkouts. What close() asks, whether a live entry names the agent in   *)
(* its chain, stands for the whole subtree, and stays true until the       *)
(* checkout is gone: only a running member of the subtree spawns into it.  *)
(* A resume breaks both, with a chain cut off at an exited parent.         *)
(***************************************************************************)
\* Recorded chains reach up to the root, over agents that were admitted.
ChainInv ==
  \A b \in Agents : \A x \in ancestors[b] \cup {b} :
    /\ parent[x] \in ancestors[b] \cup {Root}
    /\ x \in ancestors[b] => run[x] # "idle"

\* What close() found stays true until it has removed the checkout.
RemovalInv == \A a \in Agents : run[a] = "removing" => ~HasLiveDescendants(a)

LEMMA ChainIsAll ==
  ASSUME TypeOK, ChainInv, NEW a \in Agents, NEW b \in Agents, Above(a, b)
  PROVE  a \in ancestors[b]
<1> DEFINE S == ancestors[b] \cup {b}
<1>1. S \in SUBSET Agents /\ b \in S
  BY DEF TypeOK
<1>2. \A x \in S : parent[x] \in S \cup {Root}
  BY DEF ChainInv
<1>3. a \in S /\ a # b
  BY <1>1, <1>2 DEF Above
<1> QED
  BY <1>3

LEMMA SpawnKeeps ==
  ASSUME IInv, ChainInv, RemovalInv, NEW a \in Agents, NEW p \in Agents \cup {Root},
         Spawn(a, p)
  PROVE  ChainInv' /\ RemovalInv'
<1>1. /\ run[a] = "idle" /\ (p # Root => run[p] = "running")
      /\ live' = live \cup {a}
      /\ ancestors' = [ancestors EXCEPT ![a] = ChainOf(p)]
      /\ parent' = [parent EXCEPT ![a] = p]
  BY DEF Spawn, Reserve
<1>2. run'[a] \in {"running", "releasing"} /\ \A x \in Agents : x # a => run'[x] = run[x]
  BY DEF Spawn, PrepareRun, IInv, TypeOK
<1>3. /\ ancestors'[a] = ChainOf(p) /\ parent'[a] = p
      /\ \A b \in Agents : b # a => ancestors'[b] = ancestors[b] /\ parent'[b] = parent[b]
  BY <1>1 DEF IInv, TypeOK
<1>4. p # Root => p \in Agents /\ p \in live /\ ChainOf(p) = {p} \cup ancestors[p]
  BY <1>1 DEF IInv, SlotsInv, SlotIffWorker, Active, ChainOf
<1>5. \A b \in Agents : ancestors[b] \subseteq Agents \ {a}
  BY <1>1 DEF ChainInv, IInv, TypeOK
<1>6. ASSUME NEW b \in Agents, NEW x \in ancestors'[b] \cup {b}
      PROVE  /\ parent'[x] \in ancestors'[b] \cup {Root}
             /\ x \in ancestors'[b] => run'[x] # "idle"
  <2>1. CASE b # a
    <3>1. x \in ancestors[b] \cup {b} /\ x # a /\ x \in Agents
      BY <1>3, <1>5, <1>6, <2>1
    <3> QED
      BY <1>2, <1>3, <2>1, <3>1 DEF ChainInv
  <2>2. CASE b = a /\ p = Root
    BY <1>3, <1>6, <2>2 DEF ChainOf
  <2>3. CASE b = a /\ p # Root /\ x = a
    BY <1>3, <1>4, <1>5, <2>3, <1>1
  <2>4. CASE b = a /\ p # Root /\ x # a
    <3>1. x \in {p} \cup ancestors[p] /\ x \in Agents
      BY <1>3, <1>4, <1>5, <1>6, <2>4
    <3>2. parent[x] \in ancestors[p] \cup {Root} /\ run[x] # "idle"
      BY <1>1, <1>4, <2>4, <3>1 DEF ChainInv
    <3> QED
      BY <1>2, <1>3, <1>4, <2>4, <3>1, <3>2
  <2> QED
    BY <2>1, <2>2, <2>3, <2>4
<1>7. ChainInv'
  BY <1>6 DEF ChainInv
<1>8. ASSUME NEW x \in Agents, run'[x] = "removing", NEW b \in live', x \in ancestors'[b]
      PROVE  FALSE
  <2>1. x # a /\ run[x] = "removing" /\ b \in Agents
    BY <1>1, <1>2, <1>8 DEF IInv, TypeOK
  <2>2. CASE b # a
    BY <1>1, <1>3, <1>8, <2>1, <2>2 DEF RemovalInv, HasLiveDescendants
  <2>3. CASE b = a
    <3>1. p # Root /\ x \in {p} \cup ancestors[p]
      BY <1>3, <1>4, <1>8, <2>3 DEF ChainOf
    <3>2. x \in ancestors[p]
      BY <1>1, <2>1, <3>1
    <3> QED
      BY <1>4, <2>1, <3>1, <3>2 DEF RemovalInv, HasLiveDescendants
  <2> QED
    BY <2>2, <2>3
<1>9. RemovalInv'
  BY <1>8 DEF RemovalInv, HasLiveDescendants
<1> QED
  BY <1>7, <1>9

\* Every other step leaves the tree alone and makes no id live.
LEMMA TreeStep ==
  ASSUME Resumable = {}
  PROVE  IInv /\ ChainInv /\ RemovalInv /\ [Next]_vars => ChainInv' /\ RemovalInv'
<1> SUFFICES ASSUME IInv, ChainInv, RemovalInv, [Next]_vars PROVE ChainInv' /\ RemovalInv'
  OBVIOUS
<1>f. ASSUME UNCHANGED <<ancestors, parent>>, live' \subseteq live,
             \A a \in Agents : run[a] # "idle" => run'[a] # "idle",
             \A a \in Agents : run'[a] = "removing" =>
               run[a] = "removing" \/ ~HasLiveDescendants(a)
      PROVE  ChainInv' /\ RemovalInv'
  <2>1. \A b \in Agents : ancestors[b] \subseteq Agents
    BY DEF IInv, TypeOK
  <2>2. ChainInv'
    BY <1>f, <2>1 DEF ChainInv
  <2>3. RemovalInv'
    BY <1>f DEF RemovalInv, HasLiveDescendants
  <2> QED
    BY <2>2, <2>3
<1>1. ASSUME NEW a \in Agents, NEW p \in Agents \cup {Root}, Spawn(a, p)
      PROVE  ChainInv' /\ RemovalInv'
  BY <1>1, SpawnKeeps
<1>2. ASSUME NEW a \in Agents, Resume(a) PROVE FALSE
  BY <1>2 DEF Resume
<1>3. CASE \/ UNCHANGED vars \/ \E b \in BOOLEAN : SetPaused(b)
           \/ \E c \in Controllers : FireAbort(c)
           \/ \E a \in Agents : Interrupt(a)
  <2>1. UNCHANGED <<ancestors, parent, live, run>>
    BY <1>3 DEF vars, SetPaused, FireAbort, Interrupt, supVars, runVars
  <2> QED
    BY <1>f, <2>1
<1>4. ASSUME NEW a \in Agents, RunStep(a) PROVE ChainInv' /\ RemovalInv'
  <2>1. UNCHANGED <<ancestors, parent>> /\ live' \subseteq live
    BY <1>4 DEF RunStep, Finish, CheckInUse, CloseWorktree, ReadOutcome, Release, supVars
  <2>2. \A x \in Agents : run[x] # "idle" => run'[x] # "idle"
    BY <1>4 DEF RunStep, Finish, CheckInUse, CloseWorktree, ReadOutcome, Release, AfterClose,
                IInv, TypeOK
  <2>3. \A x \in Agents : run'[x] = "removing" => run[x] = "removing" \/ ~HasLiveDescendants(x)
    BY <1>4 DEF RunStep, Finish, CheckInUse, CloseWorktree, ReadOutcome, Release, AfterClose,
                IInv, TypeOK
  <2> QED
    BY <1>f, <2>1, <2>2, <2>3
<1> QED
  BY <1>1, <1>2, <1>3, <1>4 DEF Next

\* A checkout is never removed under a live agent of its subtree, also when
\* agents in between have exited, as long as nobody is resumed: the chain a
\* resume records under a parent that has exited names that parent alone.
THEOREM CheckoutsKept == Resumable = {} => (Spec => NoRemovalUnderLiveDescendant)
<1> SUFFICES ASSUME Resumable = {} PROVE Spec => NoRemovalUnderLiveDescendant
  OBVIOUS
<1> DEFINE Kept == \A a \in Agents :
                     worktree[a] = "present" /\ worktree'[a] = "removed"
                       => ~ \E b \in live : Above(a, b)
<1>1. Init => ChainInv /\ RemovalInv
  BY DEF Init, ChainInv, RemovalInv
<1>2. IInv /\ ChainInv /\ RemovalInv /\ [Next]_vars => [Kept]_vars
  <2> SUFFICES ASSUME IInv, ChainInv, RemovalInv, [Next]_vars, NEW a \in Agents,
                      worktree[a] = "present", worktree'[a] = "removed",
                      NEW b \in live, Above(a, b)
               PROVE  FALSE
    OBVIOUS
  <2>1. a \in ancestors[b]
    BY ChainIsAll DEF IInv, TypeOK
  <2>2. run[a] = "removing"
    <3>1. worktree' # worktree
      OBVIOUS
    <3>2. PICK c \in Agents :
            CheckInUse(c) \/ CloseWorktree(c) \/ (PrepareRun(c) /\ worktree' # worktree)
      BY <3>1 DEF Next, RunStep, Finish, ReadOutcome, Release, SetPaused, Interrupt,
                  FireAbort, Resume, Spawn, vars, runVars
    <3>3. ~CheckInUse(c) /\ ~PrepareRun(c)
      BY DEF CheckInUse, PrepareRun, IInv, TypeOK
    <3> QED
      BY <3>2, <3>3 DEF CloseWorktree, IInv, TypeOK
  <2> QED
    BY <2>1, <2>2 DEF RemovalInv, HasLiveDescendants
<1>3. IInv /\ ChainInv /\ RemovalInv /\ [Next]_vars => ChainInv' /\ RemovalInv'
  BY TreeStep
<1> QED
  BY <1>1, <1>2, <1>3, InitIInv, NextIInv, PTL DEF Spec, NoRemovalUnderLiveDescendant

-----------------------------------------------------------------------------
(***************************************************************************)
(* An interrupt is never only a label: the part of InterruptFreesSlot that *)
(* is a matter of safety.                                                  *)
(***************************************************************************)
\* Whoever is labelled interrupted has an abort on its way or behind it, and that
\* abort is its own run's; and the abort of a run is the abort of every foreground
\* run below it, at whatever depth and whether it was spawned before or after.
InterruptsReach ==
  /\ \A a \in interrupted : Controller(a) \in aborting \cup aborted
  /\ \A b \in Agents : upstream[b] \cap aborted # {} => Controller(b) \in aborted

\* A run is below the controllers of admitted runs, and of all those they are below.
ChainsNest ==
  \A b \in Agents : \A c \in upstream[b] :
    /\ b \in Sync
    /\ runs[c[1]] # 0
    /\ upstream[c[1]] \subseteq upstream[b]

LEMMA InitReach == Init => ChainsNest /\ InterruptsReach
BY DEF Init, ChainsNest, InterruptsReach

\* A step that links, aborts and labels nothing new.
LEMMA ReachSame ==
  ASSUME IInv, ChainsNest, InterruptsReach,
         UNCHANGED <<upstream, aborted, runs>>,
         aborting \subseteq aborting', interrupted' \subseteq interrupted
  PROVE  ChainsNest' /\ InterruptsReach'
<1>1. ChainsNest'
  BY DEF ChainsNest
<1>2. \A a \in Agents : Controller(a)' = Controller(a)
  BY DEF Controller
<1>3. interrupted \subseteq Agents
  BY DEF IInv, TypeOK
<1> QED
  BY <1>1, <1>2, <1>3 DEF InterruptsReach

\* The fresh controller of an admitted run: nobody is below it yet.
LEMMA FreshController ==
  ASSUME IInv, ChainsNest, NEW a \in Agents, runs[a] < MaxRuns, PrepareRun(a)
  PROVE  /\ \A x \in Agents : runs'[x] = IF x = a THEN runs[a] + 1 ELSE runs[x]
         /\ Controller(a)' = <<a, runs[a] + 1>>
         /\ \A x \in Agents : x # a => Controller(x)' = Controller(x)
         /\ runs'[a] # 0
<1>1. \A x \in Agents : runs'[x] = IF x = a THEN runs[a] + 1 ELSE runs[x]
  BY DEF PrepareRun, IInv, TypeOK
<1>2. runs[a] \in Nat
  BY BoundsAssumption DEF IInv, TypeOK
<1> QED
  BY <1>1, <1>2 DEF Controller

LEMMA ReachStep == IInv /\ ChainsNest /\ InterruptsReach /\ [Next]_vars
                     => ChainsNest' /\ InterruptsReach'
<1> SUFFICES ASSUME IInv, ChainsNest, InterruptsReach, [Next]_vars
             PROVE  ChainsNest' /\ InterruptsReach'
  OBVIOUS
<1>0. interrupted \subseteq Agents /\ \A b \in Agents : upstream[b] \subseteq Controllers
  BY DEF IInv, TypeOK
<1>1. ASSUME NEW a \in Agents, Interrupt(a) PROVE ChainsNest' /\ InterruptsReach'
  <2>1. /\ UNCHANGED <<upstream, aborted, runs>>
        /\ interrupted' = interrupted \cup {a}
        /\ aborting' = aborting \cup {Controller(a)}
    BY <1>1 DEF Interrupt, runVars
  <2>2. \A x \in Agents : Controller(x)' = Controller(x)
    BY <2>1 DEF Controller
  <2> QED
    BY <1>0, <2>1, <2>2 DEF ChainsNest, InterruptsReach
<1>2. ASSUME NEW c \in Controllers, FireAbort(c) PROVE ChainsNest' /\ InterruptsReach'
  <2>1. /\ UNCHANGED <<upstream, runs, interrupted>>
        /\ aborting' = aborting \ {c}
        /\ aborted' = aborted \cup {c} \cup {Controller(b) : b \in {x \in Agents : c \in upstream[x]}}
    BY <1>2 DEF FireAbort, supVars, runVars
  <2>2. \A x \in Agents : Controller(x)' = Controller(x)
    BY <2>1 DEF Controller
  <2>3. ChainsNest'
    BY <2>1 DEF ChainsNest
  <2>4. \A a \in interrupted' : Controller(a)' \in aborting' \cup aborted'
    BY <1>0, <2>1, <2>2 DEF InterruptsReach
  <2>5. ASSUME NEW b \in Agents, NEW d \in upstream[b], d \in aborted'
        PROVE  Controller(b) \in aborted'
    <3>1. CASE d \in aborted
      BY <2>1, <3>1 DEF InterruptsReach
    <3>2. CASE d = c
      BY <2>1, <3>2
    <3>3. CASE \E x \in Agents : c \in upstream[x] /\ d = Controller(x)
      <4>1. PICK x \in Agents : c \in upstream[x] /\ d = Controller(x)
        BY <3>3
      <4>2. c \in upstream[b]
        BY <4>1 DEF ChainsNest, Controller
      <4> QED
        BY <2>1, <4>2
    <3> QED
      BY <2>1, <2>5, <3>1, <3>2, <3>3
  <2> QED
    BY <2>1, <2>2, <2>3, <2>4, <2>5 DEF InterruptsReach
<1>3. ASSUME NEW a \in Agents, Resume(a) PROVE ChainsNest' /\ InterruptsReach'
  <2>1. /\ UNCHANGED <<upstream, aborted, aborting>> /\ interrupted' = interrupted \ {a}
        /\ a \notin Sync /\ runs[a] < MaxRuns /\ PrepareRun(a)
    BY <1>3, AgentsAssumption DEF Resume, Reserve, abortVars
  <2>2. ChainsNest'
    BY <2>1, <1>0, FreshController DEF ChainsNest, Controllers
  <2>3. \A x \in interrupted' : Controller(x)' \in aborting' \cup aborted'
    BY <1>0, <2>1, FreshController DEF InterruptsReach
  <2>4. ASSUME NEW b \in Agents, upstream'[b] \cap aborted' # {} PROVE Controller(b)' \in aborted'
    <3>1. b # a
      BY <2>1, <2>4 DEF ChainsNest
    <3> QED
      BY <2>1, <2>4, <3>1, FreshController DEF InterruptsReach
  <2> QED
    BY <2>2, <2>3, <2>4 DEF InterruptsReach
<1>4. ASSUME NEW a \in Agents, NEW p \in Agents \cup {Root}, Spawn(a, p)
      PROVE  ChainsNest' /\ InterruptsReach'
  <2>1. /\ aborting' = aborting /\ interrupted' = interrupted \ {a}
        /\ LinkController(a, p) /\ PrepareRun(a)
        /\ run[a] = "idle" /\ (p # Root => run[p] = "running")
    BY <1>4 DEF Spawn, Reserve
  <2>2. runs[a] = 0 /\ runs[a] < MaxRuns /\ upstream[a] = {}
    BY <2>1, BoundsAssumption DEF IInv, RunsInv
  <2>3. \A x \in Agents : runs'[x] = IF x = a THEN runs[a] + 1 ELSE runs[x]
    BY <2>1, <2>2, FreshController
  <2>4. /\ Controller(a)' = <<a, runs[a] + 1>> /\ runs'[a] # 0
        /\ \A x \in Agents : x # a => Controller(x)' = Controller(x)
    BY <2>1, <2>2, FreshController
  <2>5. aborted \subseteq aborted'
    BY <2>1 DEF LinkController
  <2>6. \A x \in interrupted' : Controller(x)' \in aborting' \cup aborted'
    BY <1>0, <2>1, <2>4, <2>5 DEF InterruptsReach
  <2>7. CASE a \in Sync /\ p # Root
    <3>1. /\ p \in Agents /\ p # a /\ runs[p] # 0
      BY <2>1, <2>7 DEF IInv, RunsInv
    <3>2. /\ \A b \in Agents : upstream'[b] = IF b = a THEN {Controller(p)} \cup upstream[p]
                                             ELSE upstream[b]
          /\ aborted' = IF Controller(p) \in aborted
                        THEN aborted \cup {<<a, runs[a] + 1>>} ELSE aborted
      BY <2>1, <2>7 DEF LinkController, IInv, TypeOK
    <3>3. \A b \in Agents : \A c \in upstream[b] : c[1] \in Agents /\ c[1] # a
      BY <1>0, <2>2 DEF ChainsNest, Controllers
    <3>4. Controller(p)[1] = p
      BY DEF Controller
    <3>5. ChainsNest'
      <4>1. ASSUME NEW b \in Agents, NEW c \in upstream'[b], b # a
            PROVE  b \in Sync /\ runs'[c[1]] # 0 /\ upstream'[c[1]] \subseteq upstream'[b]
        BY <2>3, <3>2, <3>3, <4>1 DEF ChainsNest
      <4>2. ASSUME NEW c \in upstream'[a]
            PROVE  a \in Sync /\ runs'[c[1]] # 0 /\ upstream'[c[1]] \subseteq upstream'[a]
        <5>1. CASE c = Controller(p)
          BY <2>3, <2>7, <3>1, <3>2, <3>4, <5>1
        <5>2. CASE c \in upstream[p]
          BY <2>3, <2>7, <3>1, <3>2, <3>3, <5>2 DEF ChainsNest
        <5> QED
          BY <3>2, <5>1, <5>2
      <4> QED
        BY <4>1, <4>2 DEF ChainsNest
    <3>6. ASSUME NEW b \in Agents, upstream'[b] \cap aborted' # {} PROVE Controller(b)' \in aborted'
      <4>1. CASE b = a
        <5>1. Controller(p) \in aborted
          BY <3>1, <3>2, <3>3, <3>4, <3>6, <4>1 DEF InterruptsReach
        <5> QED
          BY <2>4, <3>2, <4>1, <5>1
      <4>2. CASE b # a
        <5>1. upstream[b] \cap aborted # {}
          BY <3>2, <3>3, <3>6, <4>2
        <5> QED
          BY <2>4, <2>5, <4>2, <5>1 DEF InterruptsReach
      <4> QED
        BY <4>1, <4>2
    <3> QED
      BY <2>6, <3>5, <3>6 DEF InterruptsReach
  <2>8. CASE ~(a \in Sync /\ p # Root)
    <3>1. UNCHANGED <<upstream, aborted>>
      BY <2>1, <2>8 DEF LinkController
    <3>2. ChainsNest'
      BY <1>0, <2>3, <2>4, <3>1 DEF ChainsNest, Controllers
    <3>3. ASSUME NEW b \in Agents, upstream'[b] \cap aborted' # {} PROVE Controller(b)' \in aborted'
      BY <2>2, <2>4, <3>1, <3>3 DEF InterruptsReach
    <3> QED
      BY <2>6, <3>2, <3>3 DEF InterruptsReach
  <2> QED
    BY <2>7, <2>8
<1>5. ASSUME \/ \E b \in BOOLEAN : SetPaused(b)
             \/ \E a \in Agents : RunStep(a)
             \/ UNCHANGED vars
      PROVE  ChainsNest' /\ InterruptsReach'
  <2>1. UNCHANGED <<upstream, aborted, aborting, runs>> /\ interrupted' \subseteq interrupted
    BY <1>5 DEF SetPaused, RunStep, Finish, CheckInUse, CloseWorktree, ReadOutcome, Release,
                vars, supVars, abortVars, runVars
  <2> QED
    BY <2>1, ReachSame
<1> QED
  BY <1>1, <1>2, <1>3, <1>4, <1>5 DEF Next

\* Although interrupt() labels under the lock and aborts after it, and an id may
\* be released and resumed in between, no run is labelled interrupted without
\* being aborted, and no foreground run is left out of the abort of a run that
\* waits for it. (Giving a child its controller is one step of Spawn here.)
THEOREM InterruptsAreReal == Spec => []InterruptsReach
<1>1. IInv /\ [Next]_vars => IInv'
  BY NextIInv
<1> QED
  BY <1>1, InitIInv, InitReach, ReachStep, PTL DEF Spec
=============================================================================
