-------------------------- MODULE LocalAgentRuns_proofs --------------------------
(***************************************************************************)
(* LocalAgent implements AgentRuns, for every set of agents, senders and   *)
(* killers, every bound, and whether or not entries are evicted and thread *)
(* starts fail; and the continuation's lock is never stranded.             *)
(***************************************************************************)
EXTENDS LocalAgentHistory_proofs

(***************************************************************************)
(* The lock.                                                               *)
(***************************************************************************)
\* One sender moves, and the lock of its agent with it.
LEMMA HeldMove ==
  ASSUME TypeOK, LockHeldInside, NEW p \in Callers, NEW l \in PCs, Goto(p, l),
         \/ /\ p \in Senders => (pc[p] \in LockedPCs => l \in LockedPCs)
            /\ lock' = lock
         \/ /\ p \in Senders
            /\ pc[p] \in LockedPCs => lock[Of(p)] = p
            /\ lock' = [lock EXCEPT ![Of(p)] = NoOne]
         \/ /\ p \in Senders /\ l \in LockedPCs
            /\ lock' = [lock EXCEPT ![Of(p)] = p]
  PROVE  LockHeldInside'
<1>1. \A q \in Callers : pc'[q] = IF q = p THEN l ELSE pc[q]
  BY DEF Goto, TypeOK
<1>2. \A a \in Agents : lock[a] # NoOne =>
        lock[a] \in Senders /\ lock[a] \in Callers /\ Of(lock[a]) = a /\ pc[lock[a]] \in LockedPCs
  BY OfType DEF LockHeldInside
<1>3. CASE /\ p \in Senders => (pc[p] \in LockedPCs => l \in LockedPCs)
           /\ lock' = lock
  BY <1>1, <1>2, <1>3 DEF LockHeldInside, Of
<1>4. CASE /\ p \in Senders
           /\ pc[p] \in LockedPCs => lock[Of(p)] = p
           /\ lock' = [lock EXCEPT ![Of(p)] = NoOne]
  <2>1. \A a \in Agents : lock'[a] = IF a = Of(p) THEN NoOne ELSE lock[a]
    BY <1>4 DEF TypeOK
  <2>2. \A a \in Agents : a # Of(p) => lock[a] # p \/ lock[a] = NoOne
    BY <1>2
  <2> QED
    BY <1>1, <1>2, <2>1, <2>2 DEF LockHeldInside, Of
<1>5. CASE /\ p \in Senders /\ l \in LockedPCs
           /\ lock' = [lock EXCEPT ![Of(p)] = p]
  <2>1. \A a \in Agents : lock'[a] = IF a = Of(p) THEN p ELSE lock[a]
    BY <1>5 DEF TypeOK
  <2> QED
    BY <1>1, <1>2, <1>5, <2>1 DEF LockHeldInside, Of
<1> QED
  BY <1>3, <1>4, <1>5

LEMMA HeldStep == TypeOK /\ LockInv /\ LockHeldInside /\ [Next]_vars => LockHeldInside'
<1> SUFFICES ASSUME TypeOK, LockInv, LockHeldInside, [Next]_vars PROVE LockHeldInside'
  OBVIOUS
<1>l. \A s \in Senders : pc[s] \in LockedPCs => lock[Of(s)] = s
  BY DEF LockInv
\* A step that moves no sender.
<1>s. ASSUME lock' = lock, \A s \in Senders : pc'[s] = pc[s] PROVE LockHeldInside'
  BY <1>s DEF LockHeldInside, Of
<1>1. ASSUME NEW p \in Callers, Admit(p) \/ LaunchStep(p), ~StartThread(p), ~UndoSlot(p)
      PROVE  LockHeldInside'
  <2>1. /\ lock' = lock
        /\ \E l \in PCs : Goto(p, l) /\ (p \in Senders => l \in LockedPCs)
    BY <1>1, Labels, OfType
    DEF Admit, LaunchStep, Register, ClaimName, Continue, StartFails, UndoTask, UndoCont,
        UndoFinished, contVars, LockedPCs, LaunchPCs, UndoPCs
  <2> QED
    BY <2>1, HeldMove
<1>2. ASSUME NEW p \in Callers, AdmitRefused(p) \/ StartThread(p) \/ UndoSlot(p)
      PROVE  LockHeldInside'
  <2>1. Unlock(p) /\ \E l \in PCs : Goto(p, l)
    BY <1>2, Labels DEF AdmitRefused, StartThread, UndoSlot, GiveUp
  <2> QED
    BY <1>l, <2>1, HeldMove DEF Unlock
<1>3. ASSUME NEW s \in Senders, Route(s) \/ SenderStep(s) PROVE LockHeldInside'
  <2>0. s \in Callers
    BY OfType
  <2>1. CASE Route(s) \/ Queue(s) \/ Requeue(s) \/ FetchContinuation(s) \/ Precheck(s)
    <3>1. lock' = lock /\ pc[s] \notin LockedPCs /\ \E l \in PCs : Goto(s, l)
      BY <2>1, Labels DEF Route, Queue, Requeue, QueueMessage, FetchContinuation, Precheck,
                          contVars, LockedPCs, LaunchPCs, UndoPCs
    <3> QED
      BY <2>0, <3>1, HeldMove
  <2>2. CASE AcquireLock(s)
    BY <2>0, <2>2, HeldMove, Labels DEF AcquireLock, LockedPCs
  <2>3. CASE Recheck(s) \/ WaitFinished(s)
    <3>1. \/ lock' = lock /\ \E l \in LockedPCs \cap PCs : Goto(s, l)
          \/ Unlock(s) /\ \E l \in PCs : Goto(s, l)
      BY <2>3, Labels DEF Recheck, WaitFinished, LockedPCs
    <3> QED
      BY <1>l, <2>0, <3>1, HeldMove DEF Unlock
  <2> QED
    BY <1>3, <2>1, <2>2, <2>3 DEF SenderStep
<1>4. ASSUME NEW k \in Killers, Kill(k) \/ KillerStep(k) PROVE LockHeldInside'
  <2>1. lock' = lock /\ \E l \in PCs : Goto(k, l)
    BY <1>4, Labels DEF Kill, KillerStep, AbortRun, KillMark, KillEnqueue, contVars
  <2> QED
    BY <1>s, <2>1, CallersOnly, OfType
<1>5. ASSUME \/ \E r \in Runs : WorkerStep(r)
             \/ SweepSnapshot \/ \E a \in Agents : SweepRemove(a)
             \/ UNCHANGED vars
      PROVE  LockHeldInside'
  <2>1. lock' = lock /\ pc' = pc
    BY <1>5 DEF WorkerStep, WorkerCleanup, DrainRound, CompleteOrDrain, RunRaises, FailTask,
                MarkNotified, EnqueueNotice, ReleaseSlot, SetFinished, SweepSnapshot,
                SweepRemove, vars, callVars, contVars
  <2> QED
    BY <1>s, <2>1
<1> QED
  BY <1>1, <1>2, <1>3, <1>4, <1>5 DEF Next

\* Whatever refuses, times out or fails under the continuation's lock, the lock
\* is given back: a lock that is held is held by a call inside its block.
THEOREM LockNeverStranded == Spec => []LockHeldInside
<1>1. Init => LockHeldInside
  BY DEF Init, LockHeldInside
<1> QED
  BY <1>1, InitType, NextType, InitIInv, IInvStep, InitSlotInv, SlotStep, HeldStep, PTL
  DEF Spec, IInv

-----------------------------------------------------------------------------
(***************************************************************************)
(* Which generation a worker and an entry belong to. Every update of the   *)
(* registry is by task id: that a worker ends its own generation, and a    *)
(* kill the current one, rests on the entry of an id being of the          *)
(* generation that is launched or at work.                                 *)
(***************************************************************************)
\* A launch has registered its generation and not started or undone it.
StartingPCs == {"claim", "continue", "thread"}

CurrentInv ==
  /\ \A r \in Runs : Alive(r) =>
       r[2] = gens[r[1]] /\ (Present(r[1]) => registry[r[1]].gen = r[2])
  /\ \A r \in Runs : worker[r] # "none" => r[2] <= gens[r[1]]
  /\ \A p \in Callers : pc[p] \in StartingPCs =>
       /\ worker[<<Of(p), gens[Of(p)]>>] = "none"
       /\ Present(Of(p)) => registry[Of(p)].gen = gens[Of(p)]
  /\ \A a \in Agents : IsRunning(a) =>
       registry[a].gen = gens[a] /\ worker[<<a, gens[a]>>] # "exited"

\* Without a sweeper a run that is starting or at work has its entry.
KeptInv ==
  /\ doomed = {}
  /\ \A p \in Callers : pc[p] \in StartingPCs => Present(Of(p))
  /\ \A r \in Runs : Alive(r) => Present(r[1])

LEMMA InitCurrent == Init => CurrentInv /\ KeptInv
BY OfType DEF Init, CurrentInv, KeptInv, StartingPCs, Alive, AliveStates, IsRunning, Present,
              Callers, Runs

\* One launch of an id at a time.
LEMMA OneLauncher ==
  ASSUME IInv, NEW p \in Callers, NEW q \in Callers, Of(p) = Of(q),
         pc[p] \in LaunchPCs \cup {"undoTask"}, pc[q] \in LaunchPCs \cup {"undoTask"}
  PROVE  p = q
<1>1. \A t \in Callers : pc[t] \in LaunchPCs \cup {"undoTask"} =>
        /\ t \in Senders => pc[t] \in LockedPCs /\ Resuming(t)
        /\ t \in Agents => pc[t] \in PreFinish
  BY DEF LockedPCs, LaunchPCs, UndoPCs, Resuming, PreFinish
<1>2. CASE p \in Senders /\ q \in Senders
  BY <1>1, <1>2, LockExclusive DEF IInv
<1>3. CASE p \in Agents \/ q \in Agents
  BY <1>1, <1>3, OfType DEF IInv, FirstLaunchInv, Callers
<1> QED
  BY <1>2, <1>3 DEF Callers

\* A worker comes with StartThread and goes with SetFinished.
LEMMA WorkerMoves ==
  ASSUME TypeOK, [Next]_vars
  PROVE  \/ \E p \in Callers : StartThread(p)
         \/ \E r \in Runs : SetFinished(r)
         \/ \A r \in Runs : /\ Alive(r)' <=> Alive(r)
                            /\ worker'[r] = "exited" <=> worker[r] = "exited"
                            /\ worker'[r] = "none" <=> worker[r] = "none"
<1>1. CASE worker' = worker
  BY <1>1 DEF Alive
<1>2. ASSUME NEW r \in Runs, NEW l \in AliveStates, Alive(r), Move(r, l)
      PROVE  \A q \in Runs : /\ Alive(q)' <=> Alive(q)
                             /\ worker'[q] = "exited" <=> worker[q] = "exited"
                             /\ worker'[q] = "none" <=> worker[q] = "none"
  BY <1>2 DEF Move, TypeOK, Alive, AliveStates
<1>3. ASSUME NEW r \in Runs, WorkerStep(r), ~SetFinished(r), worker' # worker
      PROVE  Alive(r) /\ \E l \in AliveStates : Move(r, l)
  BY <1>3 DEF WorkerStep, WorkerCleanup, DrainRound, CompleteOrDrain, RunRaises, FailTask,
              MarkNotified, EnqueueNotice, ReleaseSlot, At, Alive, AliveStates, workVars
<1>4. \/ worker' = worker \/ \E p \in Callers : StartThread(p)
      \/ \E r \in Runs : WorkerStep(r)
  BY DEF Next, Admit, AdmitRefused, LaunchStep, Register, ClaimName, Continue, StartFails,
         UndoTask, UndoCont, UndoFinished, UndoSlot, Route, SenderStep, Queue, Requeue,
         QueueMessage, FetchContinuation, Precheck, AcquireLock, Recheck, WaitFinished,
         Kill, KillerStep, AbortRun, KillMark, KillEnqueue, SweepSnapshot, SweepRemove,
         vars, workVars
<1> QED
  BY <1>1, <1>2, <1>3, <1>4

\* An entry comes with Register, or is put back by UndoTask; it is taken away by
\* the sweeper and by the undo of a launch.
LEMMA EntryMoves ==
  ASSUME TypeOK, [Next]_vars
  PROVE  \/ \E p \in Callers : Register(p) \/ UndoTask(p)
         \/ /\ UNCHANGED gens
            /\ \A a \in Agents : Present(a)' => Present(a) /\ registry'[a].gen = registry[a].gen
            /\ \/ \A a \in Agents : Present(a) => Present(a)'
               \/ \E p \in Agents : ClaimName(p)
               \/ \E a \in Agents : SweepRemove(a)
<1> DEFINE Stay == /\ \A a \in Agents : Present(a)' => Present(a) /\ registry'[a].gen = registry[a].gen
                   /\ \A a \in Agents : Present(a) => Present(a)'
<1>u. registry' = registry => Stay
  BY DEF Present
<1>e. ASSUME NEW a \in Agents, Present(a), NEW e \in Entry, e.gen = registry[a].gen,
             registry' = [registry EXCEPT ![a] = e]
      PROVE  Stay
  BY <1>e, EntryFacts DEF Present, TypeOK
<1>s. ASSUME NEW a \in Agents, Present(a), NEW st \in Terminal, SetStatus(a, st)
      PROVE  Stay
  <2>1. registry' = [registry EXCEPT ![a] = [registry[a] EXCEPT !.status = st]]
    BY <1>s DEF SetStatus
  <2> QED
    BY <1>e, <1>s, <2>1, RunFact, StatusUpdate
<1>n. ASSUME NEW a \in Agents, Present(a), registry' = [registry EXCEPT ![a].notified = TRUE]
      PROVE  Stay
  <2>1. registry' = [registry EXCEPT ![a] = [registry[a] EXCEPT !.notified = TRUE]]
    BY <1>n
  <2> QED
    BY <1>e, <1>n, <2>1, RunFact, NotifiedUpdate
<1>p. ASSUME NEW a \in Agents, Present(a), NEW q \in Seq(Senders),
             registry' = [registry EXCEPT ![a] = [registry[a] EXCEPT !.pending = q]]
      PROVE  Stay
  BY <1>e, <1>p, RunFact, PendingUpdate
<1>t. ASSUME NEW a \in Agents, Present(a), TakeInbox(a) PROVE Stay
  <2>1. registry' = [registry EXCEPT ![a] = [registry[a] EXCEPT !.pending = <<>>]]
    BY <1>t DEF TakeInbox
  <2>2. <<>> \in Seq(Senders)
    OBVIOUS
  <2> QED
    BY <1>p, <1>t, <2>1, <2>2
<1> HIDE DEF Stay
<1>1. ASSUME NEW p \in Callers, Admit(p) \/ AdmitRefused(p) \/ LaunchStep(p),
             ~Register(p), ~UndoTask(p), ~ClaimName(p)
      PROVE  Stay /\ UNCHANGED gens
  BY <1>1, <1>u DEF Admit, AdmitRefused, LaunchStep, Continue, StartThread, StartFails,
                    UndoCont, UndoFinished, UndoSlot, registryVars
<1>2. ASSUME NEW p \in Callers, ClaimName(p)
      PROVE  /\ UNCHANGED gens /\ p \in Agents
             /\ \A a \in Agents : Present(a)' => Present(a) /\ registry'[a].gen = registry[a].gen
  BY <1>2 DEF ClaimName, SetEntry, Present, TypeOK
<1>3. ASSUME NEW s \in Senders, Route(s) \/ SenderStep(s) PROVE Stay /\ UNCHANGED gens
  <2>1. UNCHANGED gens
    BY <1>3 DEF Route, SenderStep, Queue, Requeue, QueueMessage, FetchContinuation, Precheck,
                AcquireLock, Recheck, WaitFinished, registryVars
  <2>2. CASE registry' = registry
    BY <1>u, <2>1, <2>2
  <2>3. CASE (Queue(s) \/ Requeue(s)) /\ IsRunning(Of(s))
    <3>1. registry' = [registry EXCEPT ![Of(s)] =
             [registry[Of(s)] EXCEPT !.pending = Append(registry[Of(s)].pending, s)]]
      BY <2>3 DEF Queue, Requeue, QueueMessage
    <3>2. Of(s) \in Agents /\ Present(Of(s))
      BY <2>3, OfType DEF IsRunning
    <3>3. Append(registry[Of(s)].pending, s) \in Seq(Senders)
      BY <3>2, RunFact, EntryFacts
    <3> QED
      BY <1>p, <2>1, <3>1, <3>2, <3>3
  <2> QED
    BY <1>3, <2>2, <2>3 DEF Route, SenderStep, Queue, Requeue, QueueMessage,
       FetchContinuation, Precheck, AcquireLock, Recheck, WaitFinished, registryVars
<1>4. ASSUME NEW r \in Runs, WorkerStep(r) PROVE Stay /\ UNCHANGED gens
  <2>1. UNCHANGED gens /\ r[1] \in Agents
    BY <1>4 DEF WorkerStep, WorkerCleanup, DrainRound, CompleteOrDrain, RunRaises, FailTask,
                MarkNotified, EnqueueNotice, ReleaseSlot, SetFinished, registryVars, Runs
  <2>2. \/ registry' = registry
        \/ /\ Present(r[1])
           /\ \/ \E st \in Terminal : SetStatus(r[1], st)
              \/ registry' = [registry EXCEPT ![r[1]].notified = TRUE]
              \/ TakeInbox(r[1])
    BY <1>4
    DEF WorkerStep, WorkerCleanup, DrainRound, CompleteOrDrain, RunRaises, FailTask,
        MarkNotified, EnqueueNotice, ReleaseSlot, SetFinished, registryVars, IsRunning,
        Terminal
  <2> QED
    BY <1>u, <1>s, <1>n, <1>t, <2>1, <2>2
<1>5. ASSUME NEW k \in Killers, Kill(k) \/ KillerStep(k) PROVE Stay /\ UNCHANGED gens
  <2>1. UNCHANGED gens /\ Of(k) \in Agents
    BY <1>5, OfType DEF Kill, KillerStep, AbortRun, KillMark, KillEnqueue, registryVars
  <2>2. \/ registry' = registry
        \/ /\ Present(Of(k))
           /\ \/ \E st \in Terminal : SetStatus(Of(k), st)
              \/ registry' = [registry EXCEPT ![Of(k)].notified = TRUE]
    BY <1>5 DEF Kill, KillerStep, AbortRun, KillMark, KillEnqueue, registryVars, IsRunning,
                Terminal
  <2> QED
    BY <1>u, <1>s, <1>n, <2>1, <2>2
<1>6. ASSUME NEW a \in Agents, SweepRemove(a)
      PROVE  /\ UNCHANGED gens
             /\ \A b \in Agents : Present(b)' => Present(b) /\ registry'[b].gen = registry[b].gen
  BY <1>6 DEF SweepRemove, SetEntry, Present, TypeOK
<1>7. ASSUME SweepSnapshot \/ UNCHANGED vars PROVE Stay /\ UNCHANGED gens
  BY <1>7, <1>u DEF SweepSnapshot, vars, registryVars
<1>8. CASE Stay /\ UNCHANGED gens
  BY <1>8 DEF Stay
<1>9. CASE \E p \in Callers : Admit(p) \/ AdmitRefused(p) \/ LaunchStep(p)
  BY <1>1, <1>2, <1>8, <1>9
<1>10. CASE \E a \in Agents : SweepRemove(a)
  BY <1>6, <1>10
<1> QED
  BY <1>3, <1>4, <1>5, <1>7, <1>8, <1>9, <1>10 DEF Next

\* Only a registration begins a start.
LEMMA StartingMoves ==
  ASSUME TypeOK, [Next]_vars
  PROVE  \A q \in Callers : pc'[q] \in StartingPCs => pc[q] \in StartingPCs \/ Register(q)
<1>g. ASSUME NEW p \in Callers \cup Killers, NEW l, Goto(p, l)
      PROVE  \A q \in Callers : pc'[q] = pc[q] \/ (q = p /\ pc'[q] = l)
  BY <1>g DEF Goto, TypeOK
<1>1. ASSUME NEW p \in Callers, Admit(p) \/ AdmitRefused(p) \/ LaunchStep(p), ~Register(p)
      PROVE  \E l : Goto(p, l) /\ (l \in StartingPCs => pc[p] \in StartingPCs)
  BY <1>1 DEF Admit, AdmitRefused, LaunchStep, ClaimName, Continue, StartThread, StartFails,
              UndoTask, UndoCont, UndoFinished, UndoSlot, GiveUp, StartingPCs
<1>2. ASSUME NEW s \in Senders, Route(s) \/ SenderStep(s)
      PROVE  s \in Callers /\ \E l : Goto(s, l) /\ l \notin StartingPCs
  BY <1>2 DEF Route, SenderStep, Queue, Requeue, QueueMessage, FetchContinuation, Precheck,
              AcquireLock, Recheck, WaitFinished, StartingPCs, Callers
<1>3. ASSUME NEW k \in Killers, Kill(k) \/ KillerStep(k)
      PROVE  \A q \in Callers : pc'[q] = pc[q]
  <2>1. \E l \in PCs : Goto(k, l)
    BY <1>3, Labels DEF Kill, KillerStep, AbortRun, KillMark, KillEnqueue
  <2> QED
    BY <2>1, CallersOnly
<1>4. ASSUME \/ \E r \in Runs : WorkerStep(r)
             \/ SweepSnapshot \/ \E a \in Agents : SweepRemove(a)
             \/ UNCHANGED vars
      PROVE  pc' = pc
  BY <1>4 DEF WorkerStep, WorkerCleanup, DrainRound, CompleteOrDrain, RunRaises, FailTask,
              MarkNotified, EnqueueNotice, ReleaseSlot, SetFinished, SweepSnapshot,
              SweepRemove, vars, callVars
<1>5. ASSUME NEW p \in Callers, Register(p)
      PROVE  \A q \in Callers : pc'[q] \in StartingPCs => pc[q] \in StartingPCs \/ Register(q)
  <2>1. \E l : Goto(p, l)
    BY <1>5 DEF Register
  <2> QED
    BY <1>g, <1>5, <2>1
<1>6. ASSUME NEW p \in Callers, Admit(p) \/ AdmitRefused(p) \/ LaunchStep(p)
      PROVE  \A q \in Callers : pc'[q] \in StartingPCs => pc[q] \in StartingPCs \/ Register(q)
  BY <1>g, <1>1, <1>5, <1>6
<1>7. ASSUME NEW s \in Senders, Route(s) \/ SenderStep(s)
      PROVE  \A q \in Callers : pc'[q] \in StartingPCs => pc[q] \in StartingPCs \/ Register(q)
  BY <1>g, <1>2, <1>7
<1> QED
  BY <1>3, <1>4, <1>6, <1>7 DEF Next

\* The registration of a generation nobody has seen.
LEMMA RegisterCurrent ==
  ASSUME TypeOK, IInv, EndedInv, CurrentInv, [Next]_vars, NEW p \in Callers, Register(p)
  PROVE  CurrentInv' /\ (KeptInv => KeptInv')
<1> DEFINE a == Of(p)
           g == gens[a] + 1
           e == [gen |-> g, status |-> "running", notified |-> FALSE, pending |-> <<>>]
<1>0. a \in Agents /\ gens[a] \in Nat /\ g \in Gens /\ <<a, g>> \in Runs
  BY OfType, BoundsAssumption DEF Register, TypeOK, Gens, Runs
<1>1. /\ registry' = [registry EXCEPT ![a] = e]
      /\ gens' = [gens EXCEPT ![a] = g]
      /\ UNCHANGED <<worker, doomed>>
  BY <1>0 DEF Register, SetEntry, workVars
<1>2. \A b \in Agents : /\ registry'[b] = IF b = a THEN e ELSE registry[b]
                        /\ gens'[b] = IF b = a THEN g ELSE gens[b]
  BY <1>0, <1>1 DEF TypeOK
<1>3. Present(a)' /\ \A b \in Agents : b # a => (Present(b)' <=> Present(b))
                                               /\ (IsRunning(b)' <=> IsRunning(b))
  BY <1>0, <1>2, NewEntry, EntryFacts DEF Present, IsRunning
<1>4. NoWorker(a)
  BY <1>0, OfType DEF Register, IInv, ResumeInv, WorkerInv, FinishedMeansGone, NoWorker,
                      FirstLaunchInv, PreFinish, Callers
<1>5. \A r \in Runs : Alive(r) => r[1] # a
  <2>1. \A r \in Runs : r[2] \in Gens /\ r = <<r[1], r[2]>>
    BY DEF Runs
  <2> QED
    BY <1>4, <2>1 DEF NoWorker
<1>6. worker[<<a, g>>] = "none"
  BY <1>0 DEF CurrentInv
<1>7. \A r \in Runs : r[1] \in Agents /\ r[2] \in Nat
  BY BoundsAssumption DEF Runs, Gens
<1>8. \A r \in Runs : Alive(r)' <=> Alive(r)
  BY <1>1 DEF Alive
<1>9. \A q \in Callers : pc'[q] \in StartingPCs => q = p \/ (pc[q] \in StartingPCs /\ Of(q) # a)
  <2> SUFFICES ASSUME NEW q \in Callers, pc'[q] \in StartingPCs, q # p
               PROVE  pc[q] \in StartingPCs /\ Of(q) # a
    OBVIOUS
  <2>1. pc'[q] = pc[q]
    BY DEF Register, Goto, TypeOK
  <2>2. pc[q] \in LaunchPCs /\ pc[p] \in LaunchPCs
    BY <2>1 DEF StartingPCs, LaunchPCs, Register
  <2> QED
    BY <2>1, <2>2, OneLauncher
<1>10. \A r \in Runs : worker'[r] # "none" => r[2] <= gens'[r[1]]
  BY <1>0, <1>1, <1>2, <1>7 DEF CurrentInv
<1>11. \A q \in Callers : pc'[q] \in StartingPCs =>
         /\ worker'[<<Of(q), gens'[Of(q)]>>] = "none"
         /\ Present(Of(q))' => registry'[Of(q)].gen = gens'[Of(q)]
  BY <1>1, <1>2, <1>3, <1>6, <1>9, OfType DEF CurrentInv
<1>12. \A b \in Agents : IsRunning(b)' =>
         registry'[b].gen = gens'[b] /\ worker'[<<b, gens'[b]>>] # "exited"
  BY <1>1, <1>2, <1>3, <1>6 DEF CurrentInv
<1>13. CurrentInv'
  BY <1>2, <1>3, <1>5, <1>7, <1>8, <1>10, <1>11, <1>12 DEF CurrentInv, Of
<1>14. KeptInv => KeptInv'
  BY <1>1, <1>3, <1>5, <1>7, <1>8, <1>9, OfType DEF KeptInv, Of
<1> QED
  BY <1>13, <1>14

\* The undo of a launch: nobody is at work or starting in the id, and what is
\* put back is not running.
LEMMA UndoCurrent ==
  ASSUME TypeOK, IInv, Calm, CurrentInv, [Next]_vars, NEW p \in Callers, UndoTask(p)
  PROVE  CurrentInv' /\ (KeptInv => KeptInv')
<1> DEFINE a == Of(p)
<1>0. a \in Agents
  BY OfType
<1>1. /\ registry' = [registry EXCEPT ![a] = saved[p]]
      /\ UNCHANGED <<worker, doomed, gens>>
  BY DEF UndoTask, SetEntry, workVars
<1>2. \A b \in Agents : b # a => /\ registry'[b] = registry[b]
                                 /\ Present(b)' <=> Present(b)
  BY <1>0, <1>1 DEF TypeOK, Present
<1>3. NoWorker(a)
  BY OfType DEF UndoTask, IInv, ResumeInv, FirstLaunchInv, PreFinish, UndoPCs, Callers
<1>4. \A r \in Runs : Alive(r) => r[1] # a /\ r[1] \in Agents
  <2>1. \A r \in Runs : r[1] \in Agents /\ r[2] \in Gens /\ r = <<r[1], r[2]>>
    BY DEF Runs
  <2> QED
    BY <1>3, <2>1 DEF NoWorker
<1>5. \A r \in Runs : Alive(r)' <=> Alive(r)
  BY <1>1 DEF Alive
<1>6. \A q \in Callers : pc'[q] \in StartingPCs => pc[q] \in StartingPCs /\ Of(q) # a
  <2> SUFFICES ASSUME NEW q \in Callers, pc'[q] \in StartingPCs
               PROVE  pc[q] \in StartingPCs /\ Of(q) # a
    OBVIOUS
  <2>1. q # p /\ pc'[q] = pc[q]
    BY DEF UndoTask, Goto, TypeOK, StartingPCs
  <2>2. pc[q] \in LaunchPCs /\ pc[p] = "undoTask"
    BY <2>1 DEF StartingPCs, LaunchPCs, UndoTask
  <2> QED
    BY <2>1, <2>2, OneLauncher
<1>7. \A b \in Agents : IsRunning(b)' =>
        registry'[b].gen = gens'[b] /\ worker'[<<b, gens'[b]>>] # "exited"
  BY <1>1 DEF Calm, NoneRises, CurrentInv
<1>8. CurrentInv'
  BY <1>1, <1>2, <1>4, <1>5, <1>6, <1>7, OfType DEF CurrentInv, Of
<1>9. KeptInv => KeptInv'
  BY <1>1, <1>2, <1>4, <1>5, <1>6, OfType DEF KeptInv, Of
<1> QED
  BY <1>8, <1>9

LEMMA StartCurrent ==
  ASSUME TypeOK, IInv, SlotInv, CurrentInv, [Next]_vars, NEW p \in Callers, StartThread(p)
  PROVE  CurrentInv' /\ (KeptInv => KeptInv')
<1> DEFINE a == Of(p)
           r == <<a, gens[a]>>
<1>0. a \in Agents /\ r \in Runs /\ r[1] = a /\ r[2] = gens[a] /\ gens[a] \in Nat
  BY OfType, BoundsAssumption DEF StartThread, SlotInv, Runs, TypeOK, Gens
<1>1. /\ \A q \in Runs : worker'[q] = IF q = r THEN "running" ELSE worker[q]
      /\ UNCHANGED <<registry, gens, doomed>>
  BY DEF StartThread, TypeOK, registryVars
<1>2. /\ \A q \in Runs : Alive(q)' => q = r \/ Alive(q)
      /\ \A b \in Agents : (Present(b)' <=> Present(b)) /\ (IsRunning(b)' <=> IsRunning(b))
  BY <1>1 DEF Alive, Present, IsRunning
<1>3. Present(a) => registry[a].gen = gens[a]
  BY DEF StartThread, CurrentInv, StartingPCs
<1>4. \A q \in Callers : pc'[q] \in StartingPCs => pc[q] \in StartingPCs /\ Of(q) # a
  <2> SUFFICES ASSUME NEW q \in Callers, pc'[q] \in StartingPCs
               PROVE  pc[q] \in StartingPCs /\ Of(q) # a
    OBVIOUS
  <2>1. q # p /\ pc'[q] = pc[q]
    BY DEF StartThread, Goto, TypeOK, StartingPCs
  <2>2. pc[q] \in LaunchPCs /\ pc[p] \in LaunchPCs
    BY <2>1 DEF StartingPCs, LaunchPCs, StartThread
  <2> QED
    BY <2>1, <2>2, OneLauncher
<1>5. \A q \in Callers : pc'[q] \in StartingPCs =>
         /\ worker'[<<Of(q), gens'[Of(q)]>>] = "none"
         /\ Present(Of(q))' => registry'[Of(q)].gen = gens'[Of(q)]
  <2> SUFFICES ASSUME NEW q \in Callers, pc[q] \in StartingPCs, Of(q) # a
               PROVE  /\ worker'[<<Of(q), gens[Of(q)]>>] = "none"
                      /\ Present(Of(q)) => registry[Of(q)].gen = gens[Of(q)]
    BY <1>1, <1>2, <1>4, OfType
  <2>1. <<Of(q), gens[Of(q)]>> \in Runs
    BY OfType DEF SlotInv, StartingPCs, Runs
  <2> QED
    BY <1>1, <2>1 DEF CurrentInv
<1>6. \A b \in Agents : IsRunning(b)' =>
        registry'[b].gen = gens'[b] /\ worker'[<<b, gens'[b]>>] # "exited"
  <2> SUFFICES ASSUME NEW b \in Agents, IsRunning(b)
               PROVE  registry[b].gen = gens[b] /\ worker'[<<b, gens[b]>>] # "exited"
    BY <1>1, <1>2
  <2>1. registry[b].gen = gens[b] /\ worker[<<b, gens[b]>>] # "exited"
    BY DEF CurrentInv
  <2>2. <<b, gens[b]>> \in Runs
    BY <2>1, RunFact DEF IsRunning, Run
  <2> QED
    BY <1>1, <2>1, <2>2
<1>7. \A q \in Runs : worker'[q] # "none" => q[2] <= gens'[q[1]]
  BY <1>0, <1>1 DEF CurrentInv
<1>8. \A q \in Runs : q[1] \in Agents
  BY DEF Runs
<1>9. CurrentInv'
  BY <1>0, <1>1, <1>2, <1>3, <1>5, <1>6, <1>7, <1>8 DEF CurrentInv, Of
<1>10. KeptInv => KeptInv'
  BY <1>0, <1>1, <1>2, <1>4, <1>8, OfType DEF KeptInv, Of, StartThread, StartingPCs
<1> QED
  BY <1>9, <1>10

\* Any other step: nobody begins to start or to work, entries stay in their
\* generation, and a worker that exits leaves no running entry behind.
LEMMA OtherCurrent ==
  ASSUME TypeOK, SlotInv, EndedInv, Calm, CurrentInv, [Next]_vars,
         ~\E p \in Callers : Register(p) \/ UndoTask(p) \/ StartThread(p)
  PROVE  CurrentInv'
<1>1. /\ UNCHANGED gens
      /\ \A a \in Agents : Present(a)' => Present(a) /\ registry'[a].gen = registry[a].gen
  BY EntryMoves
<1>2. \A q \in Callers : pc'[q] \in StartingPCs => pc[q] \in StartingPCs
  BY StartingMoves
<1>3. \A r \in Runs : r[1] \in Agents
  BY DEF Runs
<1>4. \A r \in Runs : /\ Alive(r)' => Alive(r)
                      /\ worker[r] = "none" <=> worker'[r] = "none"
                      /\ worker'[r] = "exited" => worker[r] = "exited" \/ ~IsRunning(r[1])
  <2>1. ASSUME NEW r \in Runs, SetFinished(r)
        PROVE  \A q \in Runs :
                 /\ Alive(q)' => Alive(q)
                 /\ worker[q] = "none" <=> worker'[q] = "none"
                 /\ worker'[q] = "exited" => worker[q] = "exited" \/ ~IsRunning(q[1])
    <3>1. worker[r] = "finish" /\ \A q \in Runs : worker'[q] = IF q = r THEN "exited" ELSE worker[q]
      BY <2>1 DEF SetFinished, At, Move, TypeOK
    <3>2. ~IsRunning(r[1])
      BY <3>1 DEF EndedInv, EndedStates
    <3> QED
      BY <3>1, <3>2 DEF Alive, AliveStates
  <2> QED
    BY <2>1, WorkerMoves
<1>5. \A a \in Agents : IsRunning(a)' => IsRunning(a)
  BY DEF Calm, NoneRises
<1>6. \A a \in Agents : IsRunning(a)' =>
        registry'[a].gen = gens'[a] /\ worker'[<<a, gens'[a]>>] # "exited"
  <2> SUFFICES ASSUME NEW a \in Agents, IsRunning(a)', IsRunning(a)
               PROVE  registry'[a].gen = gens[a] /\ worker'[<<a, gens[a]>>] # "exited"
    BY <1>1, <1>5
  <2>1. registry[a].gen = gens[a] /\ worker[<<a, gens[a]>>] # "exited"
    BY DEF CurrentInv
  <2>2. <<a, gens[a]>> \in Runs /\ <<a, gens[a]>>[1] = a
    BY <2>1, RunFact DEF IsRunning, Run
  <2>3. worker'[<<a, gens[a]>>] # "exited"
    BY <1>4, <2>1, <2>2
  <2> QED
    BY <1>1, <2>1, <2>3 DEF IsRunning
<1>7. \A q \in Callers : pc'[q] \in StartingPCs =>
         /\ worker'[<<Of(q), gens'[Of(q)]>>] = "none"
         /\ Present(Of(q))' => registry'[Of(q)].gen = gens'[Of(q)]
  <2> SUFFICES ASSUME NEW q \in Callers, pc[q] \in StartingPCs, worker' # worker
               PROVE  worker'[<<Of(q), gens[Of(q)]>>] = "none"
    BY <1>1, <1>2, OfType DEF CurrentInv
  <2>1. worker[<<Of(q), gens[Of(q)]>>] = "none" /\ <<Of(q), gens[Of(q)]>> \in Runs
    BY OfType DEF CurrentInv, SlotInv, StartingPCs, Runs
  <2>2. ASSUME NEW r \in Runs, WorkerStep(r)
        PROVE  worker'[<<Of(q), gens[Of(q)]>>] = "none"
    <3>1. PICK l : worker' = [worker EXCEPT ![r] = l]
      BY <2>2, <2>1 DEF WorkerStep, WorkerCleanup, DrainRound, CompleteOrDrain, RunRaises,
         FailTask, MarkNotified, EnqueueNotice, ReleaseSlot, SetFinished, workVars, Move
    <3>2. worker[r] # "none"
      BY <2>2 DEF WorkerStep, WorkerCleanup, DrainRound, CompleteOrDrain, RunRaises,
         FailTask, MarkNotified, EnqueueNotice, ReleaseSlot, SetFinished, At
    <3> QED
      BY <2>1, <3>1, <3>2 DEF TypeOK
  <2> QED
    BY <2>2 DEF Next, Admit, AdmitRefused, LaunchStep, Register, ClaimName, Continue,
       StartFails, UndoTask, UndoCont, UndoFinished, UndoSlot, Route, SenderStep, Queue,
       Requeue, QueueMessage, FetchContinuation, Precheck, AcquireLock, Recheck,
       WaitFinished, Kill, KillerStep, AbortRun, KillMark, KillEnqueue, SweepSnapshot,
       SweepRemove, vars, workVars
<1>8. \A r \in Runs : Alive(r)' =>
        r[2] = gens'[r[1]] /\ (Present(r[1])' => registry'[r[1]].gen = r[2])
  BY <1>1, <1>3, <1>4 DEF CurrentInv
<1>9. \A r \in Runs : worker'[r] # "none" => r[2] <= gens'[r[1]]
  BY <1>1, <1>4 DEF CurrentInv
<1> QED
  BY <1>6, <1>7, <1>8, <1>9 DEF CurrentInv, Of

\* Without a sweeper only a launch takes an entry away, and not under a worker.
LEMMA OtherKept ==
  ASSUME ~Sweeping, TypeOK, IInv, KeptInv, [Next]_vars,
         ~\E p \in Callers : Register(p) \/ UndoTask(p) \/ StartThread(p)
  PROVE  KeptInv'
<1>1. \A q \in Callers : pc'[q] \in StartingPCs => pc[q] \in StartingPCs
  BY StartingMoves
<1>2. ~(SweepSnapshot \/ \E a \in Agents : SweepRemove(a))
  BY DEF SweepSnapshot, SweepRemove, KeptInv
<1>3. doomed' = doomed
  BY <1>2 DEF Next, Admit, AdmitRefused, LaunchStep, Register, ClaimName, Continue,
     StartThread, StartFails, UndoTask, UndoCont, UndoFinished, UndoSlot, Route, SenderStep,
     Queue, Requeue, QueueMessage, FetchContinuation, Precheck, AcquireLock, Recheck,
     WaitFinished, WorkerStep, WorkerCleanup, DrainRound, CompleteOrDrain, RunRaises,
     FailTask, MarkNotified, EnqueueNotice, ReleaseSlot, SetFinished, Kill, KillerStep,
     AbortRun, KillMark, KillEnqueue, vars
<1>4. \A r \in Runs : r[1] \in Agents /\ r[2] \in Gens /\ r = <<r[1], r[2]>>
  BY DEF Runs
<1>5. \A r \in Runs : Alive(r)' => Alive(r)
  <2>1. ASSUME NEW r \in Runs, SetFinished(r) PROVE \A q \in Runs : Alive(q)' => Alive(q)
    BY <2>1 DEF SetFinished, Move, TypeOK, Alive, AliveStates
  <2> QED
    BY <2>1, WorkerMoves
<1>6. CASE \A a \in Agents : Present(a) => Present(a)'
  BY <1>1, <1>3, <1>4, <1>5, <1>6, OfType DEF KeptInv, Of
<1>7. ASSUME NEW p \in Agents, ClaimName(p) PROVE KeptInv'
  <2>1. NoWorker(p) /\ p \in Callers /\ Of(p) = p
    BY <1>7, OfType DEF ClaimName, IInv, FirstLaunchInv, PreFinish
  <2>2. \A r \in Runs : Alive(r) => r[1] # p
    BY <1>4, <2>1 DEF NoWorker
  <2>3. \A b \in Agents : b # p => (Present(b)' <=> Present(b))
    BY <1>7 DEF ClaimName, SetEntry, Present, TypeOK
  <2>4. \A q \in Callers : pc'[q] \in StartingPCs => Of(q) # p \/ q = p
    BY <1>1, <1>7, <2>1, OneLauncher DEF StartingPCs, LaunchPCs, ClaimName
  <2>5. pc'[p] \in StartingPCs => Present(p)'
    BY <1>7, <2>1 DEF ClaimName, Goto, TypeOK, StartingPCs, KeptInv, Present
  <2>6. \A q \in Callers : pc'[q] \in StartingPCs => Present(Of(q))'
    BY <1>1, <2>1, <2>3, <2>4, <2>5, OfType DEF KeptInv
  <2> QED
    BY <1>3, <1>4, <1>5, <2>2, <2>3, <2>6 DEF KeptInv, Of
<1> QED
  BY <1>2, <1>6, <1>7, EntryMoves

LEMMA CurrentStep ==
  TypeOK /\ IInv /\ SlotInv /\ StatusInv /\ EndedInv /\ CurrentInv /\ [Next]_vars => CurrentInv'
<1> SUFFICES ASSUME TypeOK, IInv, SlotInv, StatusInv, EndedInv, CurrentInv, [Next]_vars
             PROVE  CurrentInv'
  OBVIOUS
<1>1. CASE \E p \in Callers : Register(p)
  BY <1>1, RegisterCurrent
<1>2. CASE ~\E p \in Callers : Register(p)
  <2>1. Calm
    BY <1>2, NextCalm
  <2> QED
    BY <1>2, <2>1, UndoCurrent, StartCurrent, OtherCurrent
<1> QED
  BY <1>1, <1>2

LEMMA KeptStep ==
  ASSUME ~Sweeping
  PROVE  TypeOK /\ IInv /\ SlotInv /\ StatusInv /\ EndedInv /\ CurrentInv /\ KeptInv
           /\ [Next]_vars => KeptInv'
<1> SUFFICES ASSUME TypeOK, IInv, SlotInv, StatusInv, EndedInv, CurrentInv, KeptInv,
                    [Next]_vars
             PROVE  KeptInv'
  OBVIOUS
<1>1. CASE \E p \in Callers : Register(p)
  BY <1>1, RegisterCurrent
<1>2. CASE ~\E p \in Callers : Register(p)
  <2>1. Calm
    BY <1>2, NextCalm
  <2> QED
    BY <1>2, <2>1, UndoCurrent, StartCurrent, OtherKept
<1> QED
  BY <1>1, <1>2

-----------------------------------------------------------------------------
(***************************************************************************)
(* What is announced, or about to be, is how the run ended. The notice of  *)
(* a worker carries the status it reads in the entry of its id, which is   *)
(* that of its own run by CurrentInv; the notice of a kill names the       *)
(* generation the kill captured, and a kill ended it.                      *)
(***************************************************************************)
HonestInv ==
  /\ \A a \in Agents : IsTerminal(a) => final[Run(a)] = registry[a].status
  /\ \A s \in Senders : HoldsPrevious(s) /\ saved[s] # Absent =>
       final[<<Of(s), saved[s].gen>>] = saved[s].status
  /\ \A k \in Killers : pc[k] \in {"abort", "mark", "enqueue"} =>
       killing[k] \in Gens /\ final[<<Of(k), killing[k]>>] = "killed"
  /\ \A r \in aborted : r \in Runs /\ final[r] = "killed"
  /\ \A r \in Runs : worker[r] = "enqueue" => says[r] = final[r] /\ says[r] # "none"
  /\ \A r \in Runs : \A i \in 1..Len(told[r]) : final[r] # "none" /\ told[r][i] = final[r]

\* What every step but a registration does to them.
Recorded ==
  \A a \in Agents : IsTerminal(a)' =>
    \/ /\ IsTerminal(a) /\ Run(a)' = Run(a)
       /\ registry'[a].status = registry[a].status
    \/ final'[Run(a)'] = registry'[a].status

Candid ==
  /\ Recorded
  /\ \A k \in Killers : pc'[k] \in {"abort", "mark", "enqueue"} =>
       \/ pc[k] \in {"abort", "mark", "enqueue"} /\ killing'[k] = killing[k]
       \/ killing'[k] \in Gens /\ final'[<<Of(k), killing'[k]>>] = "killed"
  /\ \A r \in aborted' : r \in aborted \/ (r \in Runs /\ final'[r] = "killed")
  /\ \A r \in Runs : worker'[r] = "enqueue" =>
       \/ worker[r] = "enqueue" /\ says'[r] = says[r]
       \/ says'[r] = final'[r] /\ says'[r] # "none"
  /\ \A r \in Runs : \/ told'[r] = told[r]
                     \/ told'[r] = Append(told[r], final'[r]) /\ final'[r] # "none"

LEMMA InitHonest == Init => HonestInv
<1> SUFFICES ASSUME Init PROVE HonestInv
  OBVIOUS
<1>1. \A r \in Runs : told[r] = <<>> /\ worker[r] = "none"
  BY DEF Init
<1>2. \A p \in Senders \cup Killers : pc[p] = "idle"
  BY OfType DEF Init, Callers
<1>3. \A a \in Agents : ~IsTerminal(a)
  BY DEF Init, IsTerminal, Present
<1> QED
  BY <1>1, <1>2, <1>3 DEF Init, HonestInv, HoldsPrevious

LEMMA CandidKeeps ==
  ASSUME TypeOK, StatusInv, HonestInv, FinalKept, Candid,
         \A s \in Senders : HoldsPrevious(s)' => HoldsPrevious(s) /\ saved'[s] = saved[s]
  PROVE  HonestInv'
<1>1. \A a \in Agents : IsTerminal(a)' => final'[Run(a)'] = registry'[a].status
  <2> SUFFICES ASSUME NEW a \in Agents, IsTerminal(a), Run(a)' = Run(a),
                      registry'[a].status = registry[a].status
               PROVE  final'[Run(a)] = registry[a].status
    BY DEF Candid, Recorded
  <2>1. Run(a) \in Runs /\ final[Run(a)] = registry[a].status
    BY RunFact DEF IsTerminal, HonestInv
  <2>2. registry[a].status # "none"
    BY DEF IsTerminal, Terminal
  <2> QED
    BY <2>1, <2>2 DEF FinalKept
<1>2. \A s \in Senders : HoldsPrevious(s)' /\ saved'[s] # Absent =>
        final'[<<Of(s), saved'[s].gen>>] = saved'[s].status
  <2> SUFFICES ASSUME NEW s \in Senders, HoldsPrevious(s), saved[s] # Absent
               PROVE  final'[<<Of(s), saved[s].gen>>] = saved[s].status
    OBVIOUS
  <2>1. saved[s] \in Entry /\ saved[s].gen \in Gens
    BY OfType, EntryFacts DEF TypeOK
  <2>2. saved[s].status # "none" /\ <<Of(s), saved[s].gen>> \in Runs
    BY <2>1, OfType DEF Entry, Terminal, Runs
  <2> QED
    BY <2>2 DEF HonestInv, FinalKept
<1>3. \A k \in Killers : pc'[k] \in {"abort", "mark", "enqueue"} =>
        killing'[k] \in Gens /\ final'[<<Of(k), killing'[k]>>] = "killed"
  <2> SUFFICES ASSUME NEW k \in Killers, pc[k] \in {"abort", "mark", "enqueue"},
                      killing'[k] = killing[k]
               PROVE  killing[k] \in Gens /\ final'[<<Of(k), killing[k]>>] = "killed"
    BY DEF Candid
  <2>1. killing[k] \in Gens /\ final[<<Of(k), killing[k]>>] = "killed"
    BY DEF HonestInv
  <2>2. <<Of(k), killing[k]>> \in Runs
    BY <2>1, OfType DEF Runs
  <2> QED
    BY <2>1, <2>2 DEF FinalKept
<1>4. \A r \in aborted' : r \in Runs /\ final'[r] = "killed"
  BY DEF Candid, HonestInv, FinalKept
<1>5. \A r \in Runs : worker'[r] = "enqueue" => says'[r] = final'[r] /\ says'[r] # "none"
  BY DEF Candid, HonestInv, FinalKept
<1>6. \A r \in Runs : \A i \in 1..Len(told'[r]) : final'[r] # "none" /\ told'[r][i] = final'[r]
  <2> SUFFICES ASSUME NEW r \in Runs, NEW i \in 1..Len(told'[r])
               PROVE  final'[r] # "none" /\ told'[r][i] = final'[r]
    OBVIOUS
  <2>1. told[r] \in Seq(Terminal \cup {"none", "running"})
    BY DEF TypeOK
  <2>2. \A j \in 1..Len(told[r]) : final'[r] # "none" /\ told[r][j] = final'[r]
    BY DEF HonestInv, FinalKept
  <2>3. CASE told'[r] = told[r]
    BY <2>2, <2>3
  <2>4. CASE told'[r] = Append(told[r], final'[r]) /\ final'[r] # "none"
    <3>1. i = Len(told[r]) + 1 \/ i \in 1..Len(told[r])
      BY <2>1, <2>4
    <3> QED
      BY <2>1, <2>2, <2>4, <3>1
  <2> QED
    BY <2>3, <2>4 DEF Candid
<1> QED
  BY <1>1, <1>2, <1>3, <1>4, <1>5, <1>6 DEF HonestInv, Of

\* The quiet actions.
LEMMA SpeechlessCandid ==
  ASSUME Speechless, UNCHANGED aborted
  PROVE  Candid
BY DEF Speechless, Hushed, Recorded, Candid

LEMMA WorkerCandid ==
  ASSUME TypeOK, EndedInv, CurrentInv, HonestInv, NEW r \in Runs, WorkerStep(r)
  PROVE  Candid
<1> DEFINE a == r[1]
<1>0. a \in Agents /\ r = <<a, r[2]>>
  BY DEF Runs
<1>1. UNCHANGED <<aborted, pc, killing>>
  BY DEF WorkerStep, WorkerCleanup, DrainRound, CompleteOrDrain, RunRaises, FailTask,
         MarkNotified, EnqueueNotice, ReleaseSlot, SetFinished, callVars, workVars
<1>2. CASE MarkNotified(r) /\ Present(a) /\ ~registry[a].notified
  <2>1. /\ registry' = [registry EXCEPT ![a].notified = TRUE]
        /\ UNCHANGED <<told, final>>
        /\ \A q \in Runs : /\ worker'[q] = IF q = r THEN "enqueue" ELSE worker[q]
                           /\ says'[q] = IF q = r THEN registry[a].status ELSE says[q]
    BY <1>2 DEF MarkNotified, Move, TypeOK
  <2>2. worker[r] = "mark"
    BY <1>2 DEF MarkNotified, At
  <2>3. registry[a] \in Entry /\ Run(a) = r
    BY <1>0, <1>2, <2>2, RunFact DEF CurrentInv, Alive, AliveStates, Run
  <2>4. registry[a].status # "running"
    BY <1>2, <2>2 DEF EndedInv, EndedStates, IsRunning
  <2>5. IsTerminal(a)
    BY <1>2, <2>3, <2>4 DEF Entry, IsTerminal
  <2>6. registry[a].status = final[r] /\ final[r] # "none"
    BY <1>0, <2>3, <2>5 DEF HonestInv, IsTerminal, Terminal
  <2>7. Hushed
    BY <1>0, <1>2, <2>1, HushedMark
  <2> QED
    BY <1>1, <2>1, <2>6, <2>7 DEF Candid, Hushed, Recorded
<1>3. CASE EnqueueNotice(r)
  <2>1. /\ UNCHANGED <<registry, says, final>>
        /\ \A q \in Runs : /\ worker'[q] = IF q = r THEN "release" ELSE worker[q]
                           /\ told'[q] = IF q = r THEN Append(told[q], says[q]) ELSE told[q]
        /\ worker[r] = "enqueue"
    BY <1>3 DEF EnqueueNotice, Move, At, registryVars, TypeOK
  <2>2. says[r] = final[r] /\ final[r] # "none"
    BY <2>1 DEF HonestInv
  <2> QED
    BY <1>1, <2>1, <2>2, HushedSame DEF Candid, Hushed, Recorded
<1>4. CASE ~EnqueueNotice(r) /\ (MarkNotified(r) => ~Present(a) \/ registry[a].notified)
  BY <1>1, <1>4, WorkerSpeechless, SpeechlessCandid
<1> QED
  BY <1>2, <1>3, <1>4

LEMMA KillerCandid ==
  ASSUME TypeOK, HonestInv, NEW k \in Killers, Kill(k) \/ KillerStep(k)
  PROVE  Candid
<1> DEFINE a == Of(k)
           r == <<a, killing[k]>>
<1>0. a \in Agents
  BY OfType
<1>g. ASSUME NEW l, Goto(k, l) PROVE \A j \in Killers : pc'[j] = IF j = k THEN l ELSE pc[j]
  BY <1>g DEF Goto, TypeOK
<1>1. CASE AbortRun(k)
  <2>1. /\ UNCHANGED <<registry, worker, final, says, told, killing>>
        /\ pc[k] = "abort" /\ aborted' = aborted \cup {r}
    BY <1>1 DEF AbortRun, registryVars, noteVars
  <2>2. \A j \in Killers : pc'[j] = IF j = k THEN "mark" ELSE pc[j]
    BY <1>1, <1>g DEF AbortRun
  <2>3. r \in Runs /\ final[r] = "killed"
    BY <1>0, <2>1 DEF HonestInv, Runs
  <2> QED
    BY <2>1, <2>2, <2>3, HushedSame DEF Candid, Hushed, Recorded
<1>2. CASE KillMark(k) /\ Present(a) /\ ~registry[a].notified
  <2>1. /\ registry' = [registry EXCEPT ![a].notified = TRUE]
        /\ UNCHANGED <<worker, aborted, final, says, told, killing>>
        /\ pc[k] = "mark"
    BY <1>2 DEF KillMark, workVars, noteVars
  <2>2. \A j \in Killers : pc'[j] = IF j = k THEN "enqueue" ELSE pc[j]
    BY <1>2, <1>g DEF KillMark
  <2>3. Hushed
    BY <1>0, <1>2, <2>1, HushedMark
  <2> QED
    BY <2>1, <2>2, <2>3 DEF Candid, Hushed, Recorded
<1>3. CASE KillEnqueue(k)
  <2>1. /\ UNCHANGED <<registry, worker, aborted, final, says, killing>>
        /\ pc[k] = "enqueue"
    BY <1>3 DEF KillEnqueue, registryVars, workVars
  <2>2. \A j \in Killers : pc'[j] = IF j = k THEN "done" ELSE pc[j]
    BY <1>3, <1>g DEF KillEnqueue
  <2>3. r \in Runs /\ final[r] = "killed"
    BY <1>0, <2>1 DEF HonestInv, Runs
  <2>4. \A q \in Runs : told'[q] = IF q = r THEN Append(told[q], "killed") ELSE told[q]
    BY <1>3, <2>3 DEF KillEnqueue, TypeOK
  <2> QED
    BY <2>1, <2>2, <2>3, <2>4, HushedSame DEF Candid, Hushed, Recorded
<1>4. CASE Kill(k) \/ (KillMark(k) /\ (~Present(a) \/ registry[a].notified))
  <2>1. UNCHANGED aborted /\ ~KillEnqueue(k)
    BY <1>4 DEF Kill, KillMark, KillEnqueue, workVars
  <2> QED
    BY <1>4, <2>1, KillerSpeechless, SpeechlessCandid DEF KillerStep, Kill, KillMark
<1> QED
  BY <1>1, <1>2, <1>3, <1>4 DEF KillerStep

\* A failed resume puts back the entry of the generation before, with the
\* status that generation ended with.
LEMMA LaunchCandid ==
  ASSUME TypeOK, IInv, StatusInv, HonestInv, NEW p \in Callers,
         Admit(p) \/ AdmitRefused(p) \/ LaunchStep(p), ~Register(p)
  PROVE  Candid
<1> DEFINE a == Of(p)
<1>0. a \in Agents
  BY OfType
<1>1. /\ UNCHANGED <<says, told, killing, aborted, final>>
      /\ \E l : Goto(p, l)
  BY DEF Admit, AdmitRefused, LaunchStep, ClaimName, Continue, StartThread, StartFails,
         UndoTask, UndoCont, UndoFinished, UndoSlot, GiveUp, noteVars, workVars
<1>2. \A r \in Runs : worker'[r] = "enqueue" => worker[r] = "enqueue"
  BY DEF Admit, AdmitRefused, LaunchStep, ClaimName, Continue, StartThread, StartFails,
         UndoTask, UndoCont, UndoFinished, UndoSlot, workVars, TypeOK
<1>3. Recorded
  <2>1. CASE UndoTask(p) /\ saved[p] = Absent
    BY <1>0, <2>1, HushedRemoved DEF UndoTask, SetEntry, Hushed, Recorded
  <2>2. CASE UndoTask(p) /\ saved[p] # Absent
    <3>1. p \in Senders /\ HoldsPrevious(p)
      BY <2>2 DEF UndoTask, HoldsPrevious, IInv, FirstLaunchInv, Callers
    <3>2. saved[p] \in Entry /\ final[<<a, saved[p].gen>>] = saved[p].status
      BY <2>2, <3>1 DEF HonestInv, TypeOK
    <3>3. registry' = [registry EXCEPT ![a] = saved[p]]
      BY <2>2 DEF UndoTask, SetEntry
    <3> QED
      BY <1>0, <1>1, <3>2, <3>3 DEF Recorded, Present, IsTerminal, Run, TypeOK
  <2>3. CASE ClaimName(p) /\ registry' # registry
    BY <2>3, HushedRemoved DEF ClaimName, SetEntry, Hushed, Recorded
  <2>4. CASE registry' = registry
    BY <2>4, HushedSame DEF Hushed, Recorded
  <2> QED
    BY <2>1, <2>2, <2>3, <2>4
    DEF Admit, AdmitRefused, LaunchStep, Continue, StartThread, StartFails,
        UndoCont, UndoFinished, UndoSlot, registryVars
<1>4. \A k \in Killers : pc'[k] = pc[k]
  BY <1>1, KillersStay
<1> QED
  BY <1>1, <1>2, <1>3, <1>4 DEF Candid

\* A resume keeps the entry it replaces, which is terminal.
LEMMA RegisterHonest ==
  ASSUME TypeOK, IInv, EndedInv, HonestInv, NEW p \in Callers, Register(p)
  PROVE  HonestInv'
<1> DEFINE a == Of(p)
<1>0. a \in Agents
  BY OfType
<1>1. /\ UNCHANGED <<final, says, told, worker, aborted, killing>>
      /\ \A b \in Agents : b # a => registry'[b] = registry[b]
      /\ registry'[a].status = "running"
      /\ saved' = [saved EXCEPT ![p] = registry[a]]
      /\ Goto(p, IF p \in Senders THEN "continue" ELSE "claim")
  BY <1>0 DEF Register, SetEntry, workVars, noteVars, TypeOK
<1>2. \A k \in Killers : pc'[k] = pc[k]
  BY <1>1, KillersStay
<1>3. \A b \in Agents : IsTerminal(b)' => final'[Run(b)'] = registry'[b].status
  BY <1>1 DEF HonestInv, IsTerminal, Terminal, Present, Run
<1>4. \A s \in Senders : HoldsPrevious(s)' /\ saved'[s] # Absent =>
        final'[<<Of(s), saved'[s].gen>>] = saved'[s].status
  <2> SUFFICES ASSUME NEW s \in Senders, HoldsPrevious(s)', saved'[s] # Absent
               PROVE  final[<<Of(s), saved'[s].gen>>] = saved'[s].status
    BY <1>1
  <2>1. CASE s = p
    <3>1. saved'[s] = registry[a] /\ Present(a)
      BY <1>1, <2>1 DEF TypeOK, Present
    <3>2. ~IsRunning(a)
      BY <2>1 DEF Register, EndedInv
    <3>3. IsTerminal(a)
      BY <1>0, <3>1, <3>2, RunFact DEF IsRunning, IsTerminal, Entry
    <3> QED
      BY <1>0, <2>1, <3>1, <3>3 DEF HonestInv, Run
  <2>2. CASE s # p
    <3>1. HoldsPrevious(s) /\ saved'[s] = saved[s]
      BY <1>1, <2>2, OfType DEF HoldsPrevious, Goto, TypeOK
    <3> QED
      BY <3>1 DEF HonestInv
  <2> QED
    BY <2>1, <2>2
<1> QED
  BY <1>1, <1>2, <1>3, <1>4 DEF HonestInv, Of

LEMMA HonestStep ==
  TypeOK /\ IInv /\ StatusInv /\ EndedInv /\ CurrentInv /\ HonestInv /\ [Next]_vars => HonestInv'
<1> SUFFICES ASSUME TypeOK, IInv, StatusInv, EndedInv, CurrentInv, HonestInv, [Next]_vars
             PROVE  HonestInv'
  OBVIOUS
<1>1. CASE \E p \in Callers : Register(p)
  BY <1>1, RegisterHonest
<1>2. CASE ~\E p \in Callers : Register(p)
  <2>1. FinalKept /\ Calm
    BY <1>2, FinalStep, NextCalm
  <2>2. \A s \in Senders : HoldsPrevious(s)' => HoldsPrevious(s) /\ saved'[s] = saved[s]
    BY <2>1 DEF Calm
  <2>3. Candid
    <3>1. CASE \/ \E s \in Senders : Route(s) \/ SenderStep(s)
               \/ SweepSnapshot \/ \E a \in Agents : SweepRemove(a)
      <4>1. UNCHANGED aborted
        BY <3>1 DEF Route, SenderStep, Queue, Requeue, QueueMessage, FetchContinuation,
           Precheck, AcquireLock, Recheck, WaitFinished, SweepSnapshot, SweepRemove, workVars
      <4> QED
        BY <3>1, <4>1, SenderSpeechless, SweeperSpeechless, SpeechlessCandid
    <3>2. CASE UNCHANGED vars
      <4>1. UNCHANGED <<registry, says, told, worker, pc, killing, aborted>>
        BY <3>2 DEF vars, registryVars, callVars, workVars, noteVars
      <4> QED
        BY <4>1, HushedSame DEF Candid, Hushed, Recorded
    <3> QED
      BY <1>2, <3>1, <3>2, LaunchCandid, WorkerCandid, KillerCandid DEF Next
  <2> QED
    BY <2>1, <2>2, <2>3, CandidKeeps
<1> QED
  BY <1>1, <1>2

-----------------------------------------------------------------------------
(***************************************************************************)
(* The refinement. RunPhase forgets what a worker does between its start   *)
(* and its exit; one concrete step is one step of the contract or none.    *)
(***************************************************************************)
ContractInv == /\ TypeOK /\ IInv /\ SlotInv /\ StatusInv /\ EndedInv
               /\ CurrentInv /\ HonestInv /\ (~Sweeping => KeptInv)

LEMMA PhaseOf ==
  ASSUME NEW r \in Runs
  PROVE  /\ RunPhase[r] = "alive" <=> Alive(r)
         /\ RunPhase[r] = "gone" <=> worker[r] = "exited"
         /\ worker[r] = "none" => RunPhase[r] = IF r[2] <= gens[r[1]] THEN "registered" ELSE "new"
BY DEF RunPhase, Alive, AliveStates

LEMMA ContractRuns == Contract!Runs = Runs
BY DEF Contract!Runs, Runs, Gens

\* The current generation of an id is the latest of the contract.
LEMMA LatestOf ==
  ASSUME TypeOK, CurrentInv, NEW r \in Runs, r[2] >= gens[r[1]]
  PROVE  Contract!Latest(r)
<1> SUFFICES ASSUME NEW q \in Runs, q[1] = r[1], q[2] > r[2]
             PROVE  RunPhase[q] = "new"
  BY ContractRuns DEF Contract!Latest
<1>1. q[2] \in Nat /\ r[2] \in Nat /\ gens[r[1]] \in Nat
  BY BoundsAssumption DEF Runs, Gens, TypeOK
<1>2. ~(q[2] <= gens[q[1]])
  BY <1>1
<1>3. worker[q] = "none"
  BY <1>2 DEF CurrentInv
<1> QED
  BY <1>2, <1>3, PhaseOf

LEMMA AloneOf ==
  ASSUME NEW r \in Runs, NoWorker(r[1])
  PROVE  Contract!Alone(r)
<1> SUFFICES ASSUME NEW q \in Runs, q[1] = r[1] PROVE RunPhase[q] # "alive"
  BY ContractRuns DEF Contract!Alone
<1>1. q = <<q[1], q[2]>> /\ q[2] \in Gens
  BY DEF Runs
<1> QED
  BY <1>1, PhaseOf DEF NoWorker

\* A phase changes only where a generation is registered, starts or ends.
LEMMA SamePhases ==
  ASSUME UNCHANGED gens,
         \A r \in Runs : /\ Alive(r)' <=> Alive(r)
                         /\ worker'[r] = "exited" <=> worker[r] = "exited"
  PROVE  RunPhase' = RunPhase
BY DEF RunPhase

LEMMA RegisterContract ==
  ASSUME ContractInv, NEW p \in Callers, Register(p)
  PROVE  Contract!Next
<1> USE DEF ContractInv
<1> DEFINE a == Of(p)
           r == <<a, gens[a] + 1>>
<1>0. a \in Agents /\ gens[a] \in Nat /\ r \in Runs /\ r[1] = a /\ r[2] = gens[a] + 1
  BY OfType, BoundsAssumption DEF Register, TypeOK, Gens, Runs
<1>1. gens' = [gens EXCEPT ![a] = gens[a] + 1] /\ UNCHANGED <<worker, final, aborted, told>>
  BY <1>0 DEF Register, workVars, noteVars
<1>2. NoWorker(a)
  BY <1>0, OfType DEF Register, IInv, ResumeInv, WorkerInv, FinishedMeansGone, NoWorker,
                      FirstLaunchInv, PreFinish, Callers
<1>3. ~(r[2] <= gens[r[1]])
  BY <1>0
<1>4. worker[r] = "none"
  BY <1>0, <1>3 DEF CurrentInv
<1>5. RunPhase[r] = "new" /\ Contract!Latest(r) /\ Contract!Alone(r)
  BY <1>0, <1>2, <1>3, <1>4, PhaseOf, LatestOf, AloneOf
<1>6. \A q \in Runs : RunPhase'[q] = IF q = r THEN "registered" ELSE RunPhase[q]
  <2> SUFFICES ASSUME NEW q \in Runs
               PROVE  RunPhase'[q] = IF q = r THEN "registered" ELSE RunPhase[q]
    OBVIOUS
  <2>1. q[1] \in Agents /\ q[2] \in Nat /\ q = <<q[1], q[2]>>
    BY BoundsAssumption DEF Runs, Gens
  <2>2. \A b \in Agents : gens'[b] = IF b = a THEN gens[a] + 1 ELSE gens[b]
    BY <1>0, <1>1 DEF TypeOK
  <2>3. q # r => (q[2] <= gens'[q[1]] <=> q[2] <= gens[q[1]])
    BY <1>0, <2>1, <2>2
  <2>4. q = r => q[2] <= gens'[q[1]]
    BY <1>0, <2>2
  <2> QED
    BY <1>1, <1>4, <2>3, <2>4 DEF RunPhase, Alive, AliveStates
<1>7. RunPhase' = [RunPhase EXCEPT ![r] = "registered"]
  BY <1>0, <1>6 DEF RunPhase
<1>8. Contract!Register(r)
  BY <1>1, <1>5, <1>7 DEF Contract!Register, Contract!Enter
<1> QED
  BY <1>0, <1>8, ContractRuns DEF Contract!Next

LEMMA StartContract ==
  ASSUME ContractInv, NEW p \in Callers, StartThread(p)
  PROVE  Contract!Next
<1> USE DEF ContractInv
<1> DEFINE a == Of(p)
           r == <<a, gens[a]>>
<1>0. a \in Agents /\ r \in Runs /\ r[1] = a /\ r[2] = gens[a] /\ gens[a] \in Nat
  BY OfType, BoundsAssumption DEF StartThread, SlotInv, Runs, TypeOK, Gens
<1>1. /\ \A q \in Runs : worker'[q] = IF q = r THEN "running" ELSE worker[q]
      /\ UNCHANGED <<gens, final, aborted, told>>
  BY DEF StartThread, TypeOK, registryVars, noteVars
<1>2. NoWorker(a)
  BY OfType DEF StartThread, IInv, ResumeInv, FirstLaunchInv, PreFinish, Callers
<1>3. worker[r] = "none"
  BY DEF StartThread, CurrentInv, StartingPCs
<1>4. RunPhase[r] = "registered" /\ Contract!Latest(r) /\ Contract!Alone(r)
  BY <1>0, <1>2, <1>3, PhaseOf, LatestOf, AloneOf
<1>5. RunPhase' = [RunPhase EXCEPT ![r] = "alive"]
  BY <1>0, <1>1 DEF RunPhase, Alive, AliveStates
<1>6. Contract!Start(r)
  BY <1>1, <1>4, <1>5 DEF Contract!Start, Contract!Enter
<1> QED
  BY <1>0, <1>6, ContractRuns DEF Contract!Next

\* A worker that exits has ended its run, or its entry was evicted.
LEMMA ExitContract ==
  ASSUME ContractInv, NEW r \in Runs, SetFinished(r)
  PROVE  Contract!Next
<1> USE DEF ContractInv
<1>0. r[1] \in Agents /\ r = <<r[1], r[2]>>
  BY DEF Runs
<1>1. /\ \A q \in Runs : worker'[q] = IF q = r THEN "exited" ELSE worker[q]
      /\ UNCHANGED <<gens, final, aborted, told>>
      /\ worker[r] = "finish"
  BY DEF SetFinished, At, Move, TypeOK, registryVars, workVars, noteVars
<1>2. Alive(r) /\ ~IsRunning(r[1])
  BY <1>1 DEF Alive, AliveStates, EndedInv, EndedStates
<1>3. final[r] # "none" \/ Sweeping
  <2> SUFFICES ASSUME ~Sweeping PROVE final[r] # "none"
    OBVIOUS
  <2>1. Present(r[1])
    BY <1>2 DEF KeptInv
  <2>2. registry[r[1]] \in Entry /\ Run(r[1]) = r
    BY <1>0, <1>2, <2>1, RunFact DEF CurrentInv, Run
  <2>3. IsTerminal(r[1])
    BY <1>2, <2>1, <2>2 DEF IsTerminal, IsRunning, Entry
  <2> QED
    BY <1>0, <2>2, <2>3 DEF HonestInv, IsTerminal, Terminal
<1>4. RunPhase[r] = "alive" /\ RunPhase' = [RunPhase EXCEPT ![r] = "gone"]
  BY <1>1, <1>2 DEF RunPhase, Alive, AliveStates
<1>5. Contract!Exit(r)
  BY <1>1, <1>3, <1>4 DEF Contract!Exit, Contract!Enter
<1> QED
  BY <1>5, ContractRuns DEF Contract!Next

\* A worker that completes or fails its task ends its own run: the running
\* entry of its id is of its generation.
LEMMA EndContract ==
  ASSUME ContractInv, NEW r \in Runs, CompleteOrDrain(r) \/ FailTask(r), IsRunning(r[1]),
         final' # final, RunPhase' = RunPhase
  PROVE  Contract!Next
<1> USE DEF ContractInv
<1>0. r[1] \in Agents /\ Alive(r)
  BY DEF Runs, CompleteOrDrain, FailTask, At, Alive, AliveStates
<1>1. Run(r[1]) = r
  BY <1>0 DEF CurrentInv, IsRunning, Run, Runs
<1>2. PICK st \in {"completed", "failed"} : SetStatus(r[1], st)
  BY DEF CompleteOrDrain, FailTask
<1>3. final[r] = "none" /\ final' = [final EXCEPT ![r] = st]
  BY <1>0, <1>1, <1>2 DEF StatusInv, SetStatus
<1>4. UNCHANGED <<aborted, told>>
  BY DEF CompleteOrDrain, FailTask
<1>5. Contract!End(r, st)
  BY <1>0, <1>3, <1>4, PhaseOf DEF Contract!End
<1> QED
  BY <1>2, <1>5, ContractRuns DEF Contract!Next

\* A kill ends the current generation, before or after its start.
LEMMA KillContract ==
  ASSUME ContractInv, NEW k \in Killers, Kill(k), RunPhase' = RunPhase
  PROVE  Contract!Next
<1> USE DEF ContractInv
<1> DEFINE a == Of(k)
           r == Run(a)
<1>0. a \in Agents /\ IsRunning(a) /\ Present(a)
  BY OfType DEF Kill, IsRunning
<1>1. r \in Runs /\ r[1] = a /\ r[2] = registry[a].gen
  BY <1>0, RunFact
<1>2. r = <<a, gens[a]>> /\ worker[r] # "exited"
  BY <1>0 DEF CurrentInv, Run
<1>3. gens[a] \in Nat
  BY <1>0 DEF TypeOK
<1>4. RunPhase[r] \in {"registered", "alive"} /\ Contract!Latest(r)
  BY <1>0, <1>1, <1>2, <1>3, LatestOf DEF RunPhase
<1>5. final[r] = "none" /\ final' = [final EXCEPT ![r] = "killed"]
  BY <1>0 DEF StatusInv, Kill, SetStatus
<1>6. UNCHANGED <<aborted, told>>
  BY DEF Kill, workVars
<1>7. Contract!Kill(r)
  BY <1>4, <1>5, <1>6 DEF Contract!Kill
<1> QED
  BY <1>1, <1>7, ContractRuns DEF Contract!Next

\* A kill aborts, and announces, the run it ended.
LEMMA KillerContract ==
  ASSUME ContractInv, NEW k \in Killers, AbortRun(k) \/ KillEnqueue(k), RunPhase' = RunPhase
  PROVE  Contract!Next
<1> USE DEF ContractInv
<1> DEFINE r == <<Of(k), killing[k]>>
<1>1. r \in Runs /\ final[r] = "killed"
  BY OfType DEF AbortRun, KillEnqueue, HonestInv, Runs
<1>2. CASE AbortRun(k)
  <2>1. Contract!Abort(r)
    BY <1>1, <1>2 DEF AbortRun, Contract!Abort, noteVars
  <2> QED
    BY <1>1, <2>1, ContractRuns DEF Contract!Next
<1>3. CASE KillEnqueue(k)
  <2>1. Contract!Announce(r)
    BY <1>1, <1>3 DEF KillEnqueue, Contract!Announce, workVars
  <2> QED
    BY <1>1, <2>1, ContractRuns DEF Contract!Next
<1> QED
  BY <1>2, <1>3

LEMMA NoticeContract ==
  ASSUME ContractInv, NEW r \in Runs, EnqueueNotice(r), RunPhase' = RunPhase
  PROVE  Contract!Next
<1>1. says[r] = final[r] /\ final[r] # "none"
  BY DEF EnqueueNotice, At, ContractInv, HonestInv
<1>2. Contract!Announce(r)
  BY <1>1 DEF EnqueueNotice, Contract!Announce
<1> QED
  BY <1>2, ContractRuns DEF Contract!Next

LEMMA QuietLaunch ==
  ASSUME NEW p \in Callers,
         Admit(p) \/ AdmitRefused(p) \/ (LaunchStep(p) /\ ~Register(p) /\ ~StartThread(p))
  PROVE  UNCHANGED <<final, aborted, told>>
BY DEF LaunchStep, Admit, AdmitRefused, ClaimName, Continue, StartFails, UndoTask, UndoCont,
       UndoFinished, UndoSlot, workVars, noteVars

LEMMA QuietSender ==
  ASSUME NEW s \in Senders, Route(s) \/ SenderStep(s)
  PROVE  UNCHANGED <<final, aborted, told>>
BY DEF SenderStep, Route, Queue, Requeue, QueueMessage, FetchContinuation, Precheck,
       AcquireLock, Recheck, WaitFinished, workVars, noteVars

\* A step that leaves the phases alone ends, aborts or announces a run, or it
\* stutters.
LEMMA QuietContract ==
  ASSUME ContractInv, Next, RunPhase' = RunPhase,
         ~\E p \in Callers : Register(p) \/ StartThread(p),
         ~\E r \in Runs : SetFinished(r)
  PROVE  Contract!Next \/ UNCHANGED <<final, aborted, told>>
<1>1. CASE \E p \in Callers : Admit(p) \/ AdmitRefused(p) \/ LaunchStep(p)
  BY <1>1, QuietLaunch
<1>2. CASE \E s \in Senders : Route(s) \/ SenderStep(s)
  BY <1>2, QuietSender
<1>3. CASE \E r \in Runs : WorkerStep(r)
  <2> PICK r \in Runs : WorkerStep(r)
    BY <1>3
  <2>1. CASE CompleteOrDrain(r) \/ FailTask(r)
    <3>1. CASE IsRunning(r[1]) /\ final' # final
      BY <2>1, <3>1, EndContract
    <3>2. CASE ~(IsRunning(r[1]) /\ final' # final)
      BY <2>1, <3>2 DEF CompleteOrDrain, FailTask
    <3> QED
      BY <3>1, <3>2
  <2>2. CASE EnqueueNotice(r)
    BY <2>2, NoticeContract
  <2>3. CASE DrainRound(r) \/ RunRaises(r) \/ MarkNotified(r) \/ ReleaseSlot(r)
    BY <2>3 DEF DrainRound, RunRaises, MarkNotified, ReleaseSlot, workVars, noteVars
  <2> QED
    BY <2>1, <2>2, <2>3 DEF WorkerStep, WorkerCleanup
<1>4. CASE \E k \in Killers : Kill(k) \/ KillerStep(k)
  <2> PICK k \in Killers : Kill(k) \/ KillerStep(k)
    BY <1>4
  <2>1. CASE KillMark(k)
    BY <2>1 DEF KillMark, workVars, noteVars
  <2> QED
    BY <2>1, KillContract, KillerContract DEF KillerStep
<1>5. CASE SweepSnapshot \/ \E a \in Agents : SweepRemove(a)
  BY <1>5 DEF SweepSnapshot, SweepRemove, workVars, noteVars
<1> QED
  BY <1>1, <1>2, <1>3, <1>4, <1>5 DEF Next

LEMMA ContractStep ==
  ContractInv /\ [Next]_vars => [Contract!Next]_(Contract!vars)
<1> SUFFICES ASSUME ContractInv, [Next]_vars
             PROVE  Contract!Next \/ UNCHANGED <<RunPhase, final, aborted, told>>
  BY DEF Contract!vars
<1>1. CASE \E p \in Callers : Register(p)
  BY <1>1, RegisterContract
<1>2. CASE \E p \in Callers : StartThread(p)
  BY <1>2, StartContract
<1>3. CASE \E r \in Runs : SetFinished(r)
  BY <1>3, ExitContract
<1>4. CASE UNCHANGED vars
  BY <1>4 DEF vars, registryVars, workVars, noteVars, RunPhase, Alive
<1>5. CASE /\ Next
           /\ ~\E p \in Callers : Register(p) \/ StartThread(p)
           /\ ~\E r \in Runs : SetFinished(r)
  <2>1. UNCHANGED gens
    BY <1>5, EntryMoves DEF ContractInv, UndoTask
  <2>2. RunPhase' = RunPhase
    BY <1>5, <2>1, WorkerMoves, SamePhases DEF ContractInv
  <2> QED
    BY <1>5, <2>2, QuietContract
<1> QED
  BY <1>1, <1>2, <1>3, <1>4, <1>5

LEMMA Contracted == Spec => []ContractInv
<1>1. Init => ContractInv
  BY InitType, InitIInv, InitSlotInv, InitStatus, InitCurrent, InitHonest DEF ContractInv
<1>2. ContractInv /\ [Next]_vars => ContractInv'
  BY NextType, IInvStep, SlotStep, StatusStep, CurrentStep, KeptStep, HonestStep DEF ContractInv
<1> QED
  BY <1>1, <1>2, PTL DEF Spec

\* The background agents keep the contract of AgentRuns, for any number of
\* agents, generations, senders and killers: a generation starts once and
\* alone, its end is decided once and by its own worker or a kill, only killed
\* runs are aborted, and every notice says how the run it is about ended.
THEOREM ImplementsRuns == Spec => RunsSpec
<1>1. Init => Contract!Init
  BY DEF Init, Contract!Init, ContractRuns, Contract!Runs, Runs, Gens, RunPhase, Alive, AliveStates
<1> QED
  BY <1>1, Contracted, ContractStep, PTL DEF Spec, RunsSpec, Contract!Spec

\* What is said of a run is true. However often a generation is announced (a
\* resume clears `notified`, so a second notice of the same generation is
\* possible), every notice names the outcome that decided it, and the abort
\* of a kill hits only a run that the kill ended.
NoticesTrue ==
  /\ \A r \in Runs : \A i \in 1..Len(told[r]) : final[r] # "none" /\ told[r][i] = final[r]
  /\ \A r \in aborted : r \in Runs /\ final[r] = "killed"

THEOREM NoticesAreTrue == Spec => []NoticesTrue
<1>1. ContractInv => NoticesTrue
  BY DEF ContractInv, HonestInv, NoticesTrue
<1> QED
  BY <1>1, Contracted, PTL

-----------------------------------------------------------------------------
(***************************************************************************)
(* Who waits, waits for something: the part of SendersReturn, KillStopsRun *)
(* and FirstEndTold that is a matter of safety.                            *)
(***************************************************************************)
\* A caller on its way to start a worker, or to set finished in its place.
FinishingPCs == {"thread", "undoTask", "undoCont", "undoFinished"}
FinishComing(a) ==
  \/ \E g \in Gens : Alive(<<a, g>>)
  \/ \E p \in Callers : Of(p) = a /\ pc[p] \in FinishingPCs
\* A sender that has the continuation, or had it.
ReachedPCs == {"precheck", "lock"} \cup LockedPCs

\* No continuation is left with its event clear and nobody to set it: a resume
\* that waits, and one that gives up after its ten seconds, does so for a worker
\* at work or a launch that is about to start one or to set the event itself.
NoStrandedWait ==
  /\ \A a \in Agents : cont[a] # "none" /\ ~finished[a] => FinishComing(a)
  /\ \A s \in Senders : pc[s] \in ReachedPCs => cont[Of(s)] # "none"

LEMMA InitWait == Init => NoStrandedWait
BY OfType DEF Init, NoStrandedWait, ReachedPCs, LockedPCs, LaunchPCs, UndoPCs, Callers

\* What a step does to those who will set the event, and to those who wait.
LEMMA WaitKept ==
  ASSUME NoStrandedWait,
         \A a \in Agents : cont[a] # "none" => cont'[a] # "none",
         \A a \in Agents : cont'[a] # "none" /\ ~finished'[a] =>
           \/ cont[a] # "none" /\ ~finished[a]
           \/ \E p \in Callers : Of(p) = a /\ pc'[p] \in FinishingPCs,
         \A r \in Runs : Alive(r) => Alive(r)' \/ finished'[r[1]],
         \A p \in Callers : pc[p] \in FinishingPCs =>
           pc'[p] \in FinishingPCs \/ finished'[Of(p)] \/ \E g \in Gens : Alive(<<Of(p), g>>)',
         \A s \in Senders : pc'[s] \in ReachedPCs =>
           pc[s] \in ReachedPCs \/ cont[Of(s)] # "none"
  PROVE  NoStrandedWait'
<1>1. ASSUME NEW a \in Agents, cont'[a] # "none", ~finished'[a] PROVE FinishComing(a)'
  <2>1. CASE \E p \in Callers : Of(p) = a /\ pc'[p] \in FinishingPCs
    BY <2>1 DEF FinishComing, Of
  <2>2. CASE cont[a] # "none" /\ ~finished[a]
    <3>1. FinishComing(a)
      BY <2>2 DEF NoStrandedWait
    <3>2. ASSUME NEW g \in Gens, Alive(<<a, g>>) PROVE Alive(<<a, g>>)'
      BY <1>1, <3>2 DEF Runs
    <3>3. ASSUME NEW p \in Callers, Of(p) = a, pc[p] \in FinishingPCs
          PROVE  pc'[p] \in FinishingPCs \/ \E g \in Gens : Alive(<<a, g>>)'
      BY <1>1, <3>3
    <3> QED
      BY <3>1, <3>2, <3>3 DEF FinishComing, Of
  <2> QED
    BY <1>1, <2>1, <2>2
<1>2. ASSUME NEW s \in Senders, pc'[s] \in ReachedPCs PROVE cont'[Of(s)] # "none"
  BY <1>2, OfType DEF NoStrandedWait
<1> QED
  BY <1>1, <1>2 DEF NoStrandedWait, Of

\* A step that sets no event, ends no worker and takes nobody off its way to it.
LEMMA WaitSame ==
  ASSUME TypeOK, NoStrandedWait, UNCHANGED <<cont, finished>>,
         \A r \in Runs : Alive(r) => Alive(r)',
         \A p \in Callers : pc[p] \in FinishingPCs =>
           pc'[p] \in FinishingPCs \/ \E g \in Gens : Alive(<<Of(p), g>>)',
         \A s \in Senders : pc'[s] \in ReachedPCs =>
           pc[s] \in ReachedPCs \/ cont[Of(s)] # "none"
  PROVE  NoStrandedWait'
BY WaitKept

LEMMA WaitStep == TypeOK /\ SlotInv /\ NoStrandedWait /\ [Next]_vars => NoStrandedWait'
<1> SUFFICES ASSUME TypeOK, SlotInv, NoStrandedWait, [Next]_vars PROVE NoStrandedWait'
  OBVIOUS
<1>g. ASSUME NEW p \in Callers, NEW l, Goto(p, l)
      PROVE  \A q \in Callers : pc'[q] = IF q = p THEN l ELSE pc[q]
  BY <1>g DEF Goto, TypeOK
<1>1. ASSUME NEW s \in Senders, Route(s) \/ SenderStep(s) PROVE NoStrandedWait'
  <2>1. /\ UNCHANGED <<cont, finished, worker>> /\ pc[s] \notin FinishingPCs
        /\ \E l : Goto(s, l) /\ (l \in ReachedPCs => pc[s] \in ReachedPCs \/ cont[Of(s)] # "none")
    BY <1>1
    DEF Route, SenderStep, Queue, Requeue, QueueMessage, FetchContinuation, Precheck,
        AcquireLock, Recheck, WaitFinished, contVars, workVars, FinishingPCs, ReachedPCs,
        LockedPCs, LaunchPCs, UndoPCs
  <2> QED
    BY <1>g, <2>1, OfType, WaitSame DEF Alive
<1>2. ASSUME NEW p \in Callers, Admit(p) \/ AdmitRefused(p) \/ Register(p) \/ ClaimName(p)
                                \/ UndoSlot(p)
      PROVE  NoStrandedWait'
  <2>1. /\ UNCHANGED <<cont, finished, worker>> /\ pc[p] \notin FinishingPCs
        /\ \E l : Goto(p, l) /\ (p \in Senders /\ l \in ReachedPCs => pc[p] \in ReachedPCs)
    BY <1>2
    DEF Admit, AdmitRefused, Register, ClaimName, UndoSlot, GiveUp, contVars, workVars,
        FinishingPCs, ReachedPCs, LockedPCs, LaunchPCs, UndoPCs
  <2> QED
    BY <1>g, <2>1, OfType, WaitSame DEF Alive
<1>3. ASSUME NEW p \in Callers, StartFails(p) \/ UndoTask(p) PROVE NoStrandedWait'
  <2>1. /\ UNCHANGED <<cont, finished, worker>>
        /\ \E l \in FinishingPCs : Goto(p, l) /\ (p \in Senders => pc[p] \in ReachedPCs)
    BY <1>3
    DEF StartFails, UndoTask, contVars, workVars, FinishingPCs, ReachedPCs, LockedPCs,
        LaunchPCs, UndoPCs
  <2> QED
    BY <1>g, <2>1, OfType, WaitSame DEF Alive
<1>4. ASSUME NEW p \in Callers, StartThread(p) PROVE NoStrandedWait'
  <2>1. PICK g \in Gens : worker' = [worker EXCEPT ![<<Of(p), g>>] = "running"]
    BY <1>4 DEF StartThread, SlotInv, LaunchPCs
  <2>2. UNCHANGED <<cont, finished>> /\ \E l : Goto(p, l) /\ l \notin ReachedPCs
    BY <1>4 DEF StartThread, ReachedPCs, LockedPCs, LaunchPCs, UndoPCs
  <2>3. \A r \in Runs : worker'[r] = IF r = <<Of(p), g>> THEN "running" ELSE worker[r]
    BY <2>1 DEF TypeOK
  <2>4. Alive(<<Of(p), g>>)'
    <3>1. <<Of(p), g>> \in Runs
      BY OfType DEF Runs
    <3> QED
      BY <2>3, <3>1 DEF Alive, AliveStates
  <2>5. \A r \in Runs : Alive(r) => Alive(r)'
    BY <2>3 DEF Alive, AliveStates
  <2>6. PICK l : Goto(p, l) /\ l \notin ReachedPCs
    BY <2>2
  <2>7. \A q \in Callers : pc'[q] = IF q = p THEN l ELSE pc[q]
    BY <1>g, <2>6
  <2>8. \A q \in Callers : pc[q] \in FinishingPCs =>
          pc'[q] \in FinishingPCs \/ \E h \in Gens : Alive(<<Of(q), h>>)'
    BY <2>4, <2>7
  <2>9. \A s \in Senders : pc'[s] \in ReachedPCs => pc[s] \in ReachedPCs
    BY <2>6, <2>7, OfType
  <2> QED
    BY <2>2, <2>5, <2>8, <2>9, WaitSame
<1>5. ASSUME NEW p \in Callers, Continue(p) PROVE NoStrandedWait'
  <2>1. CASE p \in Senders /\ cont[Of(p)] # "present"
    <3>1. /\ UNCHANGED <<cont, finished, worker>> /\ Goto(p, "undoSlot")
          /\ pc[p] \in ReachedPCs /\ pc[p] \notin FinishingPCs
      BY <1>5, <2>1 DEF Continue, workVars, FinishingPCs, ReachedPCs, LockedPCs, LaunchPCs
    <3> QED
      BY <1>g, <3>1, OfType, WaitSame DEF Alive
  <2>2. CASE ~(p \in Senders /\ cont[Of(p)] # "present")
    <3>1. /\ cont' = [cont EXCEPT ![Of(p)] = "present"]
          /\ finished' = [finished EXCEPT ![Of(p)] = FALSE]
          /\ worker' = worker /\ Goto(p, "thread") /\ pc[p] = "continue"
      BY <1>5, <2>2 DEF Continue, workVars
    <3>2. \A a \in Agents : /\ cont'[a] = IF a = Of(p) THEN "present" ELSE cont[a]
                            /\ finished'[a] = IF a = Of(p) THEN FALSE ELSE finished[a]
      BY <3>1 DEF TypeOK
    <3>3. \A q \in Callers : pc'[q] = IF q = p THEN "thread" ELSE pc[q]
      BY <1>g, <3>1
    <3>4. "thread" \in FinishingPCs /\ "continue" \notin FinishingPCs /\ "continue" \in ReachedPCs
      BY DEF FinishingPCs, ReachedPCs, LockedPCs, LaunchPCs
    <3>5. \A r \in Runs : Alive(r) => Alive(r)'
      BY <3>1 DEF Alive
    <3>6. \A s \in Senders : pc'[s] \in ReachedPCs => pc[s] \in ReachedPCs \/ cont[Of(s)] # "none"
      BY <3>1, <3>3, <3>4, OfType
    <3> QED
      BY <3>2, <3>3, <3>4, <3>5, <3>6, WaitKept
  <2> QED
    BY <2>1, <2>2
<1>6. ASSUME NEW p \in Callers, UndoCont(p) \/ UndoFinished(p) PROVE NoStrandedWait'
  <2>1. worker' = worker
    BY <1>6 DEF UndoCont, UndoFinished, workVars
  <2>2. \A r \in Runs : Alive(r) => Alive(r)'
    BY <2>1 DEF Alive
  <2>3. CASE UndoCont(p)
    <3>1. /\ p \in Agents /\ Of(p) = p /\ pc[p] = "undoCont" /\ finished' = finished
          /\ cont' = [cont EXCEPT ![p] = "popped"] /\ Goto(p, "undoFinished")
      BY <2>3 DEF UndoCont, Of
    <3>2. \A a \in Agents : cont'[a] = IF a = p THEN "popped" ELSE cont[a]
      BY <3>1 DEF TypeOK
    <3>3. \A q \in Callers : pc'[q] = IF q = p THEN "undoFinished" ELSE pc[q]
      BY <1>g, <3>1
    <3>4. "undoFinished" \in FinishingPCs /\ "undoFinished" \in ReachedPCs /\ "undoCont" \in ReachedPCs
      BY DEF FinishingPCs, ReachedPCs, LockedPCs, UndoPCs
    <3>5. \A s \in Senders : pc'[s] \in ReachedPCs => pc[s] \in ReachedPCs
      BY <3>1, <3>3, <3>4, OfType
    <3>6. \A q \in Callers : pc[q] \in FinishingPCs => pc'[q] \in FinishingPCs
      BY <3>3, <3>4
    <3>7. ASSUME NEW a \in Agents, cont'[a] # "none", ~finished'[a]
          PROVE  \/ cont[a] # "none" /\ ~finished[a]
                 \/ \E q \in Callers : Of(q) = a /\ pc'[q] \in FinishingPCs
      BY <3>1, <3>2, <3>3, <3>4, <3>7
    <3>8. \A a \in Agents : cont[a] # "none" => cont'[a] # "none"
      BY <3>2
    <3> QED
      BY <2>2, <3>5, <3>6, <3>7, <3>8, WaitKept
  <2>4. CASE UndoFinished(p)
    <3>1. /\ cont' = cont /\ finished' = [finished EXCEPT ![Of(p)] = TRUE]
          /\ pc[p] = "undoFinished" /\ Goto(p, "undoSlot")
      BY <2>4 DEF UndoFinished
    <3>2. \A a \in Agents : finished'[a] = IF a = Of(p) THEN TRUE ELSE finished[a]
      BY <3>1 DEF TypeOK
    <3>3. \A q \in Callers : pc'[q] = IF q = p THEN "undoSlot" ELSE pc[q]
      BY <1>g, <3>1
    <3>4. "undoFinished" \in ReachedPCs
      BY DEF ReachedPCs, LockedPCs, UndoPCs
    <3>5. \A s \in Senders : pc'[s] \in ReachedPCs => pc[s] \in ReachedPCs
      BY <3>1, <3>3, <3>4, OfType
    <3>6. \A q \in Callers : pc[q] \in FinishingPCs => pc'[q] \in FinishingPCs \/ finished'[Of(q)]
      BY <3>2, <3>3, OfType
    <3> QED
      BY <2>2, <3>1, <3>2, <3>5, <3>6, WaitKept
  <2> QED
    BY <1>6, <2>3, <2>4
<1>7. ASSUME NEW r \in Runs, WorkerStep(r) PROVE NoStrandedWait'
  <2>0. UNCHANGED <<cont, pc>>
    BY <1>7 DEF WorkerStep, WorkerCleanup, DrainRound, CompleteOrDrain, RunRaises, FailTask,
                MarkNotified, EnqueueNotice, ReleaseSlot, SetFinished, contVars, callVars
  <2>1. CASE SetFinished(r)
    <3>1. r[1] \in Agents /\ \A a \in Agents : finished'[a] = IF a = r[1] THEN TRUE ELSE finished[a]
      BY <2>1 DEF SetFinished, TypeOK, Runs
    <3>2. \A q \in Runs : q # r => worker'[q] = worker[q]
      BY <2>1 DEF SetFinished, Move, TypeOK
    <3> QED
      BY <2>0, <3>1, <3>2, WaitKept DEF Alive
  <2>2. CASE ~SetFinished(r)
    <3>1. finished' = finished
      BY <1>7, <2>2 DEF WorkerStep, WorkerCleanup, DrainRound, CompleteOrDrain, RunRaises,
                        FailTask, MarkNotified, EnqueueNotice, ReleaseSlot, contVars
    <3>2. \A q \in Runs : Alive(q) => Alive(q)'
      BY <1>7, <2>2
      DEF WorkerStep, WorkerCleanup, DrainRound, CompleteOrDrain, RunRaises, FailTask,
          MarkNotified, EnqueueNotice, ReleaseSlot, Move, TypeOK, Alive, AliveStates, workVars
    <3> QED
      BY <2>0, <3>1, <3>2, WaitSame
  <2> QED
    BY <2>1, <2>2
<1>8. ASSUME NEW k \in Killers, Kill(k) \/ KillerStep(k) PROVE NoStrandedWait'
  <2>1. UNCHANGED <<cont, finished, worker>> /\ \E l \in PCs : Goto(k, l)
    BY <1>8, Labels DEF Kill, KillerStep, AbortRun, KillMark, KillEnqueue, contVars, workVars
  <2>2. \A p \in Callers : pc'[p] = pc[p]
    BY <2>1, CallersOnly
  <2> QED
    BY <2>1, <2>2, OfType, WaitSame DEF Alive
<1>9. ASSUME SweepSnapshot \/ (\E a \in Agents : SweepRemove(a)) \/ UNCHANGED vars
      PROVE  NoStrandedWait'
  <2>1. UNCHANGED <<cont, finished, worker, pc>>
    BY <1>9 DEF SweepSnapshot, SweepRemove, vars, contVars, callVars, workVars
  <2> QED
    BY <2>1, WaitSame DEF Alive
<1> QED
  BY <1>1, <1>2, <1>3, <1>4, <1>5, <1>6, <1>7, <1>8, <1>9 DEF Next, LaunchStep

\* The event that says "the previous worker is gone" is never left clear for
\* good, whichever launch, resume or thread start fails and in whatever order: an
\* agent does not become impossible to resume.
THEOREM FinishedAlwaysComes == Spec => []NoStrandedWait
<1> QED
  BY Invariant, InitWait, WaitStep, PTL DEF Spec

\* A kill reaches the run it was decided for: until the controller captured under
\* the lock has fired, the thread that captured it is about to fire it, even when
\* the id has been resumed in the meantime.
KillsReach ==
  \A r \in Runs : final[r] = "killed" =>
    \/ r \in aborted
    \/ \E k \in Killers : pc[k] = "abort" /\ Of(k) = r[1] /\ killing[k] = r[2]

LEMMA KillsKept ==
  ASSUME KillsReach, UNCHANGED aborted,
         \A k \in Killers : pc'[k] = pc[k] /\ killing'[k] = killing[k],
         \A r \in Runs : final'[r] = "killed" => final[r] = "killed"
  PROVE  KillsReach'
BY DEF KillsReach, Of

LEMMA KillsReachStep == TypeOK /\ KillsReach /\ [Next]_vars => KillsReach'
<1> SUFFICES ASSUME TypeOK, KillsReach, [Next]_vars PROVE KillsReach'
  OBVIOUS
<1>1. ASSUME NEW p \in Callers,
             \/ Admit(p) \/ AdmitRefused(p) \/ LaunchStep(p)
             \/ p \in Senders /\ (Route(p) \/ SenderStep(p))
      PROVE  KillsReach'
  <2>1. UNCHANGED <<aborted, killing, final>> /\ \E l : Goto(p, l)
    BY <1>1
    DEF Admit, AdmitRefused, LaunchStep, Register, ClaimName, Continue, StartThread,
        StartFails, UndoTask, UndoCont, UndoFinished, UndoSlot, Route, SenderStep, Queue,
        Requeue, QueueMessage, FetchContinuation, Precheck, AcquireLock, Recheck,
        WaitFinished, GiveUp, workVars, noteVars
  <2> QED
    BY <2>1, KillersStay, KillsKept
<1>2. ASSUME NEW r \in Runs, WorkerStep(r) PROVE KillsReach'
  <2>1. UNCHANGED <<aborted, killing, pc>>
    BY <1>2 DEF WorkerStep, WorkerCleanup, DrainRound, CompleteOrDrain, RunRaises, FailTask,
                MarkNotified, EnqueueNotice, ReleaseSlot, SetFinished, workVars, callVars
  <2>2. final' = final \/ \E q, st : st # "killed" /\ final' = [final EXCEPT ![q] = st]
    BY <1>2 DEF WorkerStep, WorkerCleanup, DrainRound, CompleteOrDrain, RunRaises, FailTask,
                MarkNotified, EnqueueNotice, ReleaseSlot, SetFinished, noteVars, SetStatus
  <2>3. \A q \in Runs : final'[q] = "killed" => final[q] = "killed"
    BY <2>2 DEF TypeOK
  <2> QED
    BY <2>1, <2>3, KillsKept
<1>3. ASSUME NEW k \in Killers, Kill(k) PROVE KillsReach'
  <2>1. /\ aborted' = aborted /\ Goto(k, "abort")
        /\ killing' = [killing EXCEPT ![k] = registry[Of(k)].gen]
        /\ final' = [final EXCEPT ![Run(Of(k))] = "killed"]
        /\ pc[k] = "idle"
    BY <1>3 DEF Kill, SetStatus, workVars
  <2>2. /\ \A j \in Killers : j # k => pc'[j] = pc[j] /\ killing'[j] = killing[j]
        /\ pc'[k] = "abort" /\ killing'[k] = registry[Of(k)].gen
    BY <2>1 DEF Goto, TypeOK
  <2>3. \A r \in Runs : final'[r] = "killed" => final[r] = "killed" \/ r = Run(Of(k))
    BY <2>1 DEF TypeOK
  <2> QED
    BY <2>1, <2>2, <2>3 DEF KillsReach, Run, Of
<1>4. ASSUME NEW k \in Killers, AbortRun(k) PROVE KillsReach'
  <2>1. /\ aborted' = aborted \cup {<<Of(k), killing[k]>>}
        /\ UNCHANGED <<final, killing>>
        /\ \A j \in Killers : j # k => pc'[j] = pc[j]
    BY <1>4 DEF AbortRun, Goto, TypeOK, noteVars
  <2>2. \A r \in Runs : Of(k) = r[1] /\ killing[k] = r[2] => r \in aborted'
    BY <2>1 DEF Runs
  <2> QED
    BY <2>1, <2>2 DEF KillsReach, Of
<1>5. ASSUME NEW k \in Killers, KillMark(k) \/ KillEnqueue(k) PROVE KillsReach'
  <2>1. /\ UNCHANGED <<aborted, final, killing>> /\ pc[k] # "abort"
        /\ \A j \in Killers : j # k => pc'[j] = pc[j]
    BY <1>5 DEF KillMark, KillEnqueue, Goto, TypeOK, workVars, noteVars
  <2> QED
    BY <2>1 DEF KillsReach, Of
<1>6. ASSUME SweepSnapshot \/ (\E a \in Agents : SweepRemove(a)) \/ UNCHANGED vars
      PROVE  KillsReach'
  BY <1>6, KillsKept DEF SweepSnapshot, SweepRemove, vars, callVars, workVars, noteVars
<1> QED
  BY <1>1, <1>2, <1>3, <1>4, <1>5, <1>6, OfType DEF Next, KillerStep

THEOREM KillsReachTheirRun == Spec => []KillsReach
<1>1. Init => KillsReach
  BY DEF Init, KillsReach
<1> QED
  BY <1>1, TypeCorrect, KillsReachStep, PTL DEF Spec

-----------------------------------------------------------------------------
(***************************************************************************)
(* The end of a run that nobody resumed is not kept from the parent: the   *)
(* part of FirstEndTold that is a matter of safety. Once `notified' is     *)
(* set the parent has its notice, or the thread that set it is about to    *)
(* enqueue one; and an entry is removed only after that.                   *)
(***************************************************************************)
\* The one notice about the first run is out, or on its way.
Voiced(a) ==
  \/ told[<<a, 1>>] # <<>>
  \/ worker[<<a, 1>>] = "enqueue"
  \/ \E k \in Killers : Of(k) = a /\ pc[k] = "enqueue" /\ killing[k] = 1

\* When the worker of an agent that was not resumed is gone, so is the notice of
\* its end, or a killer is about to enqueue it.
EndIsVoiced ==
  \A a \in Agents : gens[a] = 1 /\ worker[<<a, 1>>] = "exited" => Voiced(a)

\* A resume finds an id that was registered, and registers it again.
LaterInv ==
  /\ \A a \in Agents : cont[a] # "none" \/ pc[a] \in {"undoTask", "undoCont"} => gens[a] >= 1
  /\ \A s \in Senders : HoldsPrevious(s) => gens[Of(s)] >= 2

\* The worker has been past the point where it announces its end.
PastNotice == {"release", "finish", "exited"}

VoiceOf(a) ==
  /\ Present(a) /\ registry[a].notified => Voiced(a)
  /\ a \in doomed => Voiced(a)
  /\ pc[a] \in StartingPCs \/ worker[<<a, 1>>] # "none" => Present(a) \/ Voiced(a)
  /\ pc[a] = "undoTask" => worker[<<a, 1>>] = "none"
  /\ worker[<<a, 1>>] \in PastNotice => Voiced(a)

VoiceInv == \A a \in Agents : gens[a] <= 1 => VoiceOf(a)

LEMMA InitVoice == Init => LaterInv /\ VoiceInv
<1> SUFFICES ASSUME Init PROVE LaterInv /\ VoiceInv
  OBVIOUS
<1>1. /\ \A p \in Callers : pc[p] = "idle"
      /\ \A a \in Agents : cont[a] = "none" /\ registry[a] = Absent
      /\ \A r \in Runs : worker[r] = "none"
      /\ doomed = {}
  BY DEF Init
<1>2. 1 \in Gens
  BY BoundsAssumption DEF Gens
<1> QED
  BY <1>1, <1>2, OfType DEF LaterInv, VoiceInv, VoiceOf, HoldsPrevious, StartingPCs, PastNotice,
                            Present, Runs, Callers

\* Who sets `notified': a worker or a killer on its way to the enqueue, and a
\* failed resume that puts the previous entry back.
LEMMA NotedMoves ==
  ASSUME TypeOK, [Next]_vars
  PROVE  \A a \in Agents : Present(a)' /\ registry'[a].notified =>
           \/ Present(a) /\ registry[a].notified
           \/ \E r \in Runs : r[1] = a /\ worker[r] = "mark" /\ worker'[r] = "enqueue"
           \/ \E k \in Killers : /\ Of(k) = a /\ pc[k] = "mark" /\ pc'[k] = "enqueue"
                                 /\ killing'[k] = killing[k]
           \/ \E p \in Callers : UndoTask(p) /\ Of(p) = a /\ saved[p] # Absent
<1> DEFINE Same(b) == Present(b)' /\ registry'[b].notified => Present(b) /\ registry[b].notified
<1> HIDE DEF Same
<1>u. registry' = registry => \A b \in Agents : Same(b)
  BY DEF Same, Present
<1>e. ASSUME NEW a \in Agents, Present(a), NEW e \in Entry, e.notified = registry[a].notified,
             registry' = [registry EXCEPT ![a] = e]
      PROVE  \A b \in Agents : Same(b)
  BY <1>e DEF Same, Present, TypeOK
<1>s. ASSUME NEW a \in Agents, Present(a), NEW st \in Terminal, SetStatus(a, st)
      PROVE  \A b \in Agents : Same(b)
  <2>1. registry' = [registry EXCEPT ![a] = [registry[a] EXCEPT !.status = st]]
    BY <1>s DEF SetStatus
  <2> QED
    BY <1>e, <1>s, <2>1, RunFact, StatusUpdate
<1>p. ASSUME NEW a \in Agents, Present(a), NEW q \in Seq(Senders),
             registry' = [registry EXCEPT ![a] = [registry[a] EXCEPT !.pending = q]]
      PROVE  \A b \in Agents : Same(b)
  BY <1>e, <1>p, RunFact, PendingUpdate
<1>n. ASSUME NEW a \in Agents, registry' = [registry EXCEPT ![a].notified = TRUE]
      PROVE  \A b \in Agents : b # a => Same(b)
  BY <1>n DEF Same, Present, TypeOK
<1>r. ASSUME NEW a \in Agents, registry' = [registry EXCEPT ![a] = Absent]
      PROVE  \A b \in Agents : Same(b)
  BY <1>r DEF Same, Present, TypeOK
<1>1. ASSUME NEW p \in Callers, Admit(p) \/ AdmitRefused(p) \/ LaunchStep(p),
             ~Register(p), ~UndoTask(p)
      PROVE  \A b \in Agents : Same(b)
  BY <1>1, <1>u, <1>r
  DEF Admit, AdmitRefused, LaunchStep, ClaimName, SetEntry, Continue, StartThread, StartFails,
      UndoCont, UndoFinished, UndoSlot, registryVars
<1>2. ASSUME NEW p \in Callers, Register(p) PROVE \A b \in Agents : Same(b)
  <2>1. PICK g : registry' = [registry EXCEPT ![Of(p)] =
                   [gen |-> g, status |-> "running", notified |-> FALSE, pending |-> <<>>]]
    BY <1>2 DEF Register, SetEntry
  <2>2. \A b \in Agents : IF b = Of(p) THEN ~registry'[b].notified ELSE registry'[b] = registry[b]
    BY <2>1 DEF TypeOK
  <2> QED
    BY <2>2 DEF Same, Present
<1>3. ASSUME NEW p \in Callers, UndoTask(p)
      PROVE  \A b \in Agents : Same(b) \/ (b = Of(p) /\ saved[p] # Absent)
  <2>1. \A b \in Agents : registry'[b] = IF b = Of(p) THEN saved[p] ELSE registry[b]
    BY <1>3 DEF UndoTask, SetEntry, TypeOK
  <2> QED
    BY <2>1 DEF Same, Present
<1>4. ASSUME NEW s \in Senders, Route(s) \/ SenderStep(s) PROVE \A b \in Agents : Same(b)
  <2>1. CASE (Queue(s) \/ Requeue(s)) /\ IsRunning(Of(s))
    <3>1. registry' = [registry EXCEPT ![Of(s)] =
             [registry[Of(s)] EXCEPT !.pending = Append(registry[Of(s)].pending, s)]]
      BY <2>1 DEF Queue, Requeue, QueueMessage
    <3>2. Of(s) \in Agents /\ Present(Of(s))
      BY <2>1, OfType DEF IsRunning
    <3>3. Append(registry[Of(s)].pending, s) \in Seq(Senders)
      BY <3>2, RunFact, EntryFacts
    <3> QED
      BY <1>p, <3>1, <3>2, <3>3
  <2> QED
    BY <1>u, <1>4, <2>1 DEF Route, SenderStep, Queue, Requeue, QueueMessage,
       FetchContinuation, Precheck, AcquireLock, Recheck, WaitFinished, registryVars
<1>5. ASSUME NEW r \in Runs, WorkerStep(r)
      PROVE  \A b \in Agents : \/ Same(b)
                               \/ r[1] = b /\ worker[r] = "mark" /\ worker'[r] = "enqueue"
  <2>0. r[1] \in Agents
    BY DEF Runs
  <2>1. CASE MarkNotified(r) /\ Present(r[1]) /\ ~registry[r[1]].notified
    <3>1. /\ registry' = [registry EXCEPT ![r[1]].notified = TRUE]
          /\ worker[r] = "mark" /\ worker'[r] = "enqueue"
      BY <2>1 DEF MarkNotified, At, Move, TypeOK
    <3> QED
      BY <1>n, <2>0, <3>1
  <2>2. CASE Present(r[1]) /\ TakeInbox(r[1])
    <3>1. registry' = [registry EXCEPT ![r[1]] = [registry[r[1]] EXCEPT !.pending = <<>>]]
      BY <2>2 DEF TakeInbox
    <3>2. <<>> \in Seq(Senders)
      OBVIOUS
    <3> QED
      BY <1>p, <2>0, <2>2, <3>1, <3>2
  <2>3. CASE Present(r[1]) /\ \E st \in Terminal : SetStatus(r[1], st)
    BY <1>s, <2>0, <2>3
  <2>4. CASE registry' = registry
    BY <1>u, <2>4
  <2> QED
    BY <1>5, <2>1, <2>2, <2>3, <2>4
    DEF WorkerStep, WorkerCleanup, DrainRound, CompleteOrDrain, RunRaises, FailTask,
        MarkNotified, EnqueueNotice, ReleaseSlot, SetFinished, registryVars, IsRunning,
        Terminal
<1>6. ASSUME NEW k \in Killers, Kill(k) \/ KillerStep(k)
      PROVE  \A b \in Agents : \/ Same(b)
                               \/ /\ Of(k) = b /\ pc[k] = "mark" /\ pc'[k] = "enqueue"
                                  /\ killing'[k] = killing[k]
  <2>0. Of(k) \in Agents
    BY OfType
  <2>1. CASE KillMark(k) /\ Present(Of(k)) /\ ~registry[Of(k)].notified
    <3>1. /\ registry' = [registry EXCEPT ![Of(k)].notified = TRUE]
          /\ pc[k] = "mark" /\ pc'[k] = "enqueue" /\ killing' = killing
      BY <2>1 DEF KillMark, Goto, TypeOK
    <3> QED
      BY <1>n, <2>0, <3>1
  <2>2. CASE Kill(k)
    BY <1>s, <2>0, <2>2 DEF Kill, IsRunning, Terminal
  <2>3. CASE registry' = registry
    BY <1>u, <2>3
  <2> QED
    BY <1>6, <2>1, <2>2, <2>3 DEF KillerStep, AbortRun, KillMark, KillEnqueue, registryVars
<1>7. ASSUME SweepSnapshot \/ (\E a \in Agents : SweepRemove(a)) \/ UNCHANGED vars
      PROVE  \A b \in Agents : Same(b)
  BY <1>7, <1>u, <1>r DEF SweepSnapshot, SweepRemove, SetEntry, vars, registryVars
<1> QED
  BY <1>1, <1>2, <1>3, <1>4, <1>5, <1>6, <1>7 DEF Next, LaunchStep, Same

LEMMA AppendSays ==
  ASSUME NEW S, NEW q \in Seq(S), NEW e \in S
  PROVE  Append(q, e) # <<>>
<1>1. Len(Append(q, e)) = Len(q) + 1 /\ Len(q) \in Nat
  OBVIOUS
<1> QED
  BY <1>1

\* What is said is not taken back: a notice stays out, and the thread that is to
\* enqueue one does so.
LEMMA VoicedStays ==
  ASSUME TypeOK, CurrentInv, [Next]_vars, NEW a \in Agents, Voiced(a)
  PROVE  Voiced(a)'
<1> DEFINE r == <<a, 1>>
<1>0. r \in Runs
  BY BoundsAssumption DEF Runs, Gens
<1>1. CASE UNCHANGED <<told, worker, killing>> /\ \A k \in Killers : pc'[k] = pc[k]
  BY <1>1 DEF Voiced
<1>2. ASSUME NEW q \in Runs, WorkerStep(q), ~EnqueueNotice(q) PROVE Voiced(a)'
  <2>1. UNCHANGED <<told, pc, killing>> /\ worker[q] # "enqueue"
    BY <1>2 DEF WorkerStep, WorkerCleanup, DrainRound, CompleteOrDrain, RunRaises, FailTask,
                MarkNotified, EnqueueNotice, ReleaseSlot, SetFinished, At, callVars, noteVars
  <2>2. \A x \in Runs : x # q => worker'[x] = worker[x]
    BY <1>2 DEF WorkerStep, WorkerCleanup, DrainRound, CompleteOrDrain, RunRaises, FailTask,
                MarkNotified, EnqueueNotice, ReleaseSlot, SetFinished, Move, TypeOK, workVars
  <2> QED
    BY <1>0, <2>1, <2>2 DEF Voiced
<1>3. ASSUME NEW q \in Runs, EnqueueNotice(q) PROVE Voiced(a)'
  <2>1. UNCHANGED <<pc, killing>>
    BY <1>3 DEF EnqueueNotice, callVars
  <2>2. \A x \in Runs : /\ x # q => worker'[x] = worker[x]
                        /\ told'[x] = IF x = q THEN Append(told[q], says[q]) ELSE told[x]
    BY <1>3 DEF EnqueueNotice, Move, TypeOK
  <2>3. told'[q] # <<>>
    <3>1. told[q] \in Seq(Terminal \cup {"none", "running"}) /\ says[q] \in Terminal \cup {"none", "running"}
      BY DEF TypeOK
    <3> QED
      BY <2>2, <3>1, AppendSays
  <2> QED
    BY <1>0, <2>1, <2>2, <2>3 DEF Voiced
<1>4. ASSUME NEW k \in Killers, Kill(k) \/ AbortRun(k) \/ KillMark(k) PROVE Voiced(a)'
  <2>1. UNCHANGED <<told, worker>> /\ pc[k] # "enqueue"
    BY <1>4 DEF Kill, AbortRun, KillMark, workVars, noteVars
  <2>2. \A j \in Killers : j # k => pc'[j] = pc[j] /\ killing'[j] = killing[j]
    BY <1>4 DEF Kill, AbortRun, KillMark, Goto, TypeOK
  <2> QED
    BY <2>1, <2>2 DEF Voiced
<1>5. ASSUME NEW k \in Killers, KillEnqueue(k) PROVE Voiced(a)'
  <2> DEFINE q == <<Of(k), killing[k]>>
  <2>1. UNCHANGED <<worker, killing>> /\ \A j \in Killers : j # k => pc'[j] = pc[j]
    BY <1>5 DEF KillEnqueue, workVars, Goto, TypeOK
  <2>2. \A x \in Runs : told'[x] = IF x = q THEN Append(told[x], "killed") ELSE told[x]
    BY <1>5 DEF KillEnqueue, TypeOK
  <2>3. told[r] # <<>> \/ r = q => told'[r] # <<>>
    <3>1. told[r] \in Seq(Terminal \cup {"none", "running"}) /\ "killed" \in Terminal
      BY <1>0 DEF TypeOK, Terminal
    <3> QED
      BY <1>0, <2>2, <3>1, AppendSays
  <2> QED
    BY <1>0, <2>1, <2>2, <2>3 DEF Voiced
<1>6. ASSUME NEW p \in Callers, StartThread(p) PROVE Voiced(a)'
  <2>1. /\ UNCHANGED <<told, killing>> /\ \E l : Goto(p, l)
        /\ worker' = [worker EXCEPT ![<<Of(p), gens[Of(p)]>>] = "running"]
        /\ worker[<<Of(p), gens[Of(p)]>>] = "none"
    BY <1>6 DEF StartThread, CurrentInv, StartingPCs, noteVars
  <2>2. \A k \in Killers : pc'[k] = pc[k]
    BY <2>1, KillersStay
  <2>3. worker[r] = "enqueue" => worker'[r] = "enqueue"
    BY <1>0, <2>1 DEF TypeOK
  <2> QED
    BY <2>1, <2>2, <2>3 DEF Voiced
<1>7. ASSUME NEW p \in Callers,
             \/ Admit(p) \/ AdmitRefused(p) \/ (LaunchStep(p) /\ ~StartThread(p))
             \/ p \in Senders /\ (Route(p) \/ SenderStep(p))
      PROVE  Voiced(a)'
  <2>1. UNCHANGED <<told, worker, killing>> /\ \E l : Goto(p, l)
    BY <1>7
    DEF Admit, AdmitRefused, LaunchStep, Register, ClaimName, Continue, StartFails, UndoTask,
        UndoCont, UndoFinished, UndoSlot, Route, SenderStep, Queue, Requeue, QueueMessage,
        FetchContinuation, Precheck, AcquireLock, Recheck, WaitFinished, GiveUp, workVars,
        noteVars
  <2>2. \A k \in Killers : pc'[k] = pc[k]
    BY <2>1, KillersStay
  <2> QED
    BY <1>1, <2>1, <2>2
<1>8. ASSUME SweepSnapshot \/ (\E b \in Agents : SweepRemove(b)) \/ UNCHANGED vars
      PROVE  Voiced(a)'
  BY <1>1, <1>8 DEF SweepSnapshot, SweepRemove, vars, callVars, workVars, noteVars
<1>9. Senders \subseteq Callers
  BY DEF Callers
<1> QED
  BY <1>2, <1>3, <1>4, <1>5, <1>6, <1>7, <1>8, <1>9 DEF Next, KillerStep

\* Who starts a worker, and what a worker has done when it is past its notice.
LEMMA WorkerGets ==
  ASSUME TypeOK, [Next]_vars, NEW r \in Runs
  PROVE  /\ worker'[r] # "none" =>
              \/ worker[r] # "none"
              \/ \E p \in Callers : StartThread(p) /\ r = <<Of(p), gens[Of(p)]>>
         /\ worker'[r] \in PastNotice =>
              \/ worker[r] \in PastNotice
              \/ worker[r] = "enqueue"
              \/ worker[r] = "mark" /\ (~Present(r[1]) \/ registry[r[1]].notified)
<1>1. CASE worker' = worker
  BY <1>1
<1>2. ASSUME NEW q \in Runs, WorkerStep(q), q # r PROVE worker'[r] = worker[r]
  BY <1>2 DEF WorkerStep, WorkerCleanup, DrainRound, CompleteOrDrain, RunRaises, FailTask,
              MarkNotified, EnqueueNotice, ReleaseSlot, SetFinished, Move, TypeOK, workVars
<1>3. ASSUME WorkerStep(r)
      PROVE  /\ worker[r] # "none"
             /\ worker'[r] \in PastNotice =>
                  \/ worker[r] \in PastNotice \cup {"enqueue"}
                  \/ worker[r] = "mark" /\ (~Present(r[1]) \/ registry[r[1]].notified)
  BY <1>3 DEF WorkerStep, WorkerCleanup, DrainRound, CompleteOrDrain, RunRaises, FailTask,
              MarkNotified, EnqueueNotice, ReleaseSlot, SetFinished, Move, At, TypeOK,
              workVars, PastNotice
<1>4. ASSUME NEW p \in Callers, StartThread(p)
      PROVE  worker'[r] = IF r = <<Of(p), gens[Of(p)]>> THEN "running" ELSE worker[r]
  BY <1>4 DEF StartThread, TypeOK
<1>5. \/ worker' = worker \/ \E p \in Callers : StartThread(p)
      \/ \E q \in Runs : WorkerStep(q)
  BY DEF Next, Admit, AdmitRefused, LaunchStep, Register, ClaimName, Continue, StartFails,
         UndoTask, UndoCont, UndoFinished, UndoSlot, Route, SenderStep, Queue, Requeue,
         QueueMessage, FetchContinuation, Precheck, AcquireLock, Recheck, WaitFinished,
         Kill, KillerStep, AbortRun, KillMark, KillEnqueue, SweepSnapshot, SweepRemove,
         vars, workVars
<1> QED
  BY <1>1, <1>2, <1>3, <1>4, <1>5 DEF PastNotice

\* Who takes an entry away.
LEMMA GoneMoves ==
  ASSUME TypeOK, [Next]_vars, NEW a \in Agents, Present(a), ~Present(a)'
  PROVE  \/ a \in doomed
         \/ a \in Agents /\ ClaimName(a) /\ registry' # registry
         \/ \E p \in Callers : UndoTask(p) /\ Of(p) = a
<1>1. ASSUME NEW p \in Callers, Register(p) PROVE FALSE
  <2>1. PICK g : /\ registry' = [registry EXCEPT ![Of(p)] =
                      [gen |-> g, status |-> "running", notified |-> FALSE, pending |-> <<>>]]
                 /\ g = gens[Of(p)] + 1 /\ gens[Of(p)] < MaxGen
    BY <1>1 DEF Register, SetEntry
  <2>2. g \in Gens
    BY <2>1, OfType, BoundsAssumption DEF TypeOK, Gens
  <2>3. [gen |-> g, status |-> "running", notified |-> FALSE, pending |-> <<>>] # Absent
    BY <2>2, NewEntry, EntryFacts
  <2> QED
    BY <2>1, <2>3 DEF Present, TypeOK
<1>2. ASSUME NEW p \in Callers, UndoTask(p) PROVE Of(p) = a
  BY <1>2 DEF UndoTask, SetEntry, Present, TypeOK
<1>3. ASSUME NEW p \in Agents, ClaimName(p) PROVE p = a /\ registry' # registry
  BY <1>3 DEF ClaimName, SetEntry, Present, TypeOK
<1>4. ASSUME NEW b \in Agents, SweepRemove(b) PROVE b = a /\ a \in doomed
  BY <1>4 DEF SweepRemove, SetEntry, Present, TypeOK
<1> QED
  BY <1>1, <1>2, <1>3, <1>4, EntryMoves

LEMMA DoomedMoves ==
  ASSUME [Next]_vars, NEW a \in Agents, a \in doomed', a \notin doomed
  PROVE  Present(a) /\ registry[a].notified
<1>1. SweepSnapshot \/ doomed' \subseteq doomed
  BY DEF Next, Admit, AdmitRefused, LaunchStep, Register, ClaimName, Continue, StartThread,
         StartFails, UndoTask, UndoCont, UndoFinished, UndoSlot, Route, SenderStep, Queue,
         Requeue, QueueMessage, FetchContinuation, Precheck, AcquireLock, Recheck,
         WaitFinished, WorkerStep, WorkerCleanup, DrainRound, CompleteOrDrain, RunRaises,
         FailTask, MarkNotified, EnqueueNotice, ReleaseSlot, SetFinished, Kill, KillerStep,
         AbortRun, KillMark, KillEnqueue, SweepRemove, vars
<1> QED
  BY <1>1 DEF SweepSnapshot, Eligible, IsTerminal, Present

\* Who undoes a registration: the caller whose thread did not start.
LEMMA UndoMoves ==
  ASSUME TypeOK, [Next]_vars, NEW a \in Agents, pc'[a] = "undoTask"
  PROVE  pc[a] = "undoTask" \/ (pc[a] = "thread" /\ worker' = worker)
<1>g. ASSUME NEW p \in Callers \cup Killers, NEW l, Goto(p, l)
      PROVE  pc'[a] = pc[a] \/ (a = p /\ pc'[a] = l)
  BY <1>g, OfType DEF Goto, TypeOK, Callers
<1>1. ASSUME NEW p \in Callers, StartFails(p)
      PROVE  pc'[a] = pc[a] \/ (pc[a] = "thread" /\ worker' = worker)
  <2>1. Goto(p, "undoTask") /\ pc[p] = "thread" /\ worker' = worker
    BY <1>1 DEF StartFails, workVars
  <2> QED
    BY <1>g, <2>1
<1>2. ASSUME NEW p \in Callers \cup Killers,
             \/ p \in Callers /\ (Admit(p) \/ AdmitRefused(p) \/ LaunchStep(p)) /\ ~StartFails(p)
             \/ p \in Senders /\ (Route(p) \/ SenderStep(p))
             \/ p \in Killers /\ (Kill(p) \/ KillerStep(p))
      PROVE  \E l : Goto(p, l) /\ l # "undoTask"
  BY <1>2
  DEF Admit, AdmitRefused, LaunchStep, Register, ClaimName, Continue, StartThread,
      UndoTask, UndoCont, UndoFinished, UndoSlot, Route, SenderStep, Queue, Requeue,
      QueueMessage, FetchContinuation, Precheck, AcquireLock, Recheck, WaitFinished, GiveUp,
      Kill, KillerStep, AbortRun, KillMark, KillEnqueue
<1>3. ASSUME \/ \E r \in Runs : WorkerStep(r)
             \/ SweepSnapshot \/ \E b \in Agents : SweepRemove(b)
             \/ UNCHANGED vars
      PROVE  pc' = pc
  BY <1>3 DEF WorkerStep, WorkerCleanup, DrainRound, CompleteOrDrain, RunRaises, FailTask,
              MarkNotified, EnqueueNotice, ReleaseSlot, SetFinished, SweepSnapshot,
              SweepRemove, vars, callVars
<1> QED
  BY <1>g, <1>1, <1>2, <1>3 DEF Next, Callers

\* How a registration that nobody has undone stands.
LEMMA LaterStep ==
  TypeOK /\ SlotInv /\ LaterInv /\ NoStrandedWait /\ [Next]_vars => LaterInv'
<1> SUFFICES ASSUME TypeOK, SlotInv, LaterInv, NoStrandedWait, [Next]_vars PROVE LaterInv'
  OBVIOUS
<1>g. ASSUME NEW p \in Callers, NEW l, Goto(p, l)
      PROVE  \A q \in Callers : pc'[q] = IF q = p THEN l ELSE pc[q]
  BY <1>g DEF Goto, TypeOK
<1>n. \A a \in Agents : gens[a] \in Nat
  BY BoundsAssumption DEF TypeOK
<1>k. ASSUME UNCHANGED gens,
             \A a \in Agents : cont'[a] # "none" \/ pc'[a] \in {"undoTask", "undoCont"} => gens[a] >= 1,
             \A s \in Senders : HoldsPrevious(s)' => HoldsPrevious(s)
      PROVE  LaterInv'
  BY <1>k, OfType DEF LaterInv, Of
<1>1. ASSUME NEW p \in Callers, Register(p) PROVE LaterInv'
  <2>1. /\ cont' = cont /\ Goto(p, IF p \in Senders THEN "continue" ELSE "claim")
        /\ \A a \in Agents : gens'[a] = IF a = Of(p) THEN gens[a] + 1 ELSE gens[a]
    BY <1>1 DEF Register, contVars, TypeOK
  <2>2. p \in Senders => gens[Of(p)] >= 1
    BY <1>1, OfType DEF Register, LaterInv, NoStrandedWait, ReachedPCs, LockedPCs, LaunchPCs
  <2>3. \A a \in Agents : cont'[a] # "none" \/ pc'[a] \in {"undoTask", "undoCont"} => gens'[a] >= 1
    BY <1>g, <1>n, <2>1, OfType DEF LaterInv
  <2>4. ASSUME NEW s \in Senders, HoldsPrevious(s)' PROVE gens'[Of(s)] >= 2
    <3>1. CASE s = p
      BY <1>n, <2>1, <2>2, <3>1, OfType
    <3>2. CASE s # p
      <4>1. HoldsPrevious(s)
        BY <1>g, <2>1, <2>4, <3>2, OfType DEF HoldsPrevious
      <4> QED
        BY <1>n, <2>1, <4>1, OfType DEF LaterInv
    <3> QED
      BY <3>1, <3>2
  <2> QED
    BY <2>3, <2>4 DEF LaterInv, Of
<1>2. ASSUME NEW p \in Callers, Continue(p) PROVE LaterInv'
  <2>1. /\ UNCHANGED gens /\ \A a \in Agents : cont'[a] # "none" => cont[a] # "none" \/ a = Of(p)
        /\ gens[Of(p)] \in Gens /\ pc[p] = "continue" /\ \E l : Goto(p, l)
    BY <1>2 DEF Continue, registryVars, TypeOK, SlotInv
  <2>0. Goto(p, "undoSlot") \/ Goto(p, "thread")
    BY <1>2 DEF Continue
  <2>2. \A a \in Agents : cont'[a] # "none" \/ pc'[a] \in {"undoTask", "undoCont"} => gens[a] >= 1
    BY <1>g, <1>n, <2>0, <2>1, OfType DEF LaterInv, Gens
  <2>3. \A s \in Senders : HoldsPrevious(s)' => HoldsPrevious(s)
    BY <1>g, <2>1, OfType DEF HoldsPrevious
  <2> QED
    BY <1>k, <2>1, <2>2, <2>3
<1>3. ASSUME NEW p \in Callers,
             \/ Admit(p) \/ AdmitRefused(p)
             \/ LaunchStep(p) /\ ~Register(p) /\ ~Continue(p)
             \/ p \in Senders /\ (Route(p) \/ SenderStep(p))
      PROVE  LaterInv'
  <2>1. /\ UNCHANGED gens /\ \E l : /\ Goto(p, l)
                                    /\ p \in Senders /\ l \in {"continue", "thread", "undoTask"} =>
                                         pc[p] \in {"continue", "thread", "undoTask"}
                                    /\ l \in {"undoTask", "undoCont"} =>
                                         pc[p] \in {"thread", "undoTask"}
    BY <1>3, OfType
    DEF Admit, AdmitRefused, LaunchStep, ClaimName, StartThread, StartFails, UndoTask,
        UndoCont, UndoFinished, UndoSlot, Route, SenderStep, Queue, Requeue, QueueMessage,
        FetchContinuation, Precheck, AcquireLock, Recheck, WaitFinished, GiveUp, registryVars
  <2>2. cont' = cont \/ UndoCont(p)
    BY <1>3
    DEF Admit, AdmitRefused, LaunchStep, ClaimName, StartThread, StartFails, UndoTask,
        UndoFinished, UndoSlot, Route, SenderStep, Queue, Requeue, QueueMessage,
        FetchContinuation, Precheck, AcquireLock, Recheck, WaitFinished, contVars
  <2>3. ASSUME UndoCont(p) PROVE \A a \in Agents : cont'[a] # "none" => gens[a] >= 1
    <3>1. p \in Agents /\ cont' = [cont EXCEPT ![p] = "popped"] /\ pc[p] = "undoCont"
      BY <2>3 DEF UndoCont
    <3>2. gens[p] >= 1
      BY <3>1 DEF LaterInv
    <3> QED
      BY <3>1, <3>2 DEF LaterInv, TypeOK
  <2>4. \A s \in Senders : HoldsPrevious(s)' => HoldsPrevious(s)
    BY <1>g, <2>1, OfType DEF HoldsPrevious
  <2>5. pc[p] = "thread" => gens[Of(p)] >= 1
    BY <1>n DEF SlotInv, Gens
  <2>6. \A a \in Agents : pc'[a] \in {"undoTask", "undoCont"} => gens[a] >= 1
    BY <1>g, <2>1, <2>5, OfType DEF LaterInv
  <2> QED
    BY <1>k, <2>1, <2>2, <2>3, <2>4, <2>6 DEF LaterInv
<1>4. ASSUME NEW k \in Killers, Kill(k) \/ KillerStep(k) PROVE LaterInv'
  <2>1. UNCHANGED <<gens, cont>> /\ \E l \in PCs : Goto(k, l)
    BY <1>4, Labels DEF Kill, KillerStep, AbortRun, KillMark, KillEnqueue, contVars, registryVars
  <2>2. \A p \in Callers : pc'[p] = pc[p]
    BY <2>1, CallersOnly
  <2> QED
    BY <1>k, <2>1, <2>2, OfType DEF LaterInv, HoldsPrevious
<1>5. ASSUME \/ \E r \in Runs : WorkerStep(r)
             \/ SweepSnapshot \/ \E a \in Agents : SweepRemove(a)
             \/ UNCHANGED vars
      PROVE  LaterInv'
  <2>1. UNCHANGED <<gens, cont, pc>>
    BY <1>5 DEF WorkerStep, WorkerCleanup, DrainRound, CompleteOrDrain, RunRaises, FailTask,
                MarkNotified, EnqueueNotice, ReleaseSlot, SetFinished, SweepSnapshot,
                SweepRemove, vars, callVars, contVars, registryVars
  <2> QED
    BY <1>k, <2>1 DEF LaterInv, HoldsPrevious
<1>6. Senders \subseteq Callers
  BY DEF Callers
<1> QED
  BY <1>1, <1>2, <1>3, <1>4, <1>5, <1>6 DEF Next

LEMMA GensMoves ==
  ASSUME TypeOK, [Next]_vars, NEW a \in Agents,
         \A p \in Callers : Register(p) => Of(p) # a
  PROVE  gens'[a] = gens[a]
<1>1. UNCHANGED gens \/ \E p \in Callers : Register(p)
  BY EntryMoves DEF UndoTask
<1>2. ASSUME NEW p \in Callers, Register(p) PROVE gens'[a] = gens[a]
  BY <1>2 DEF Register, TypeOK
<1> QED
  BY <1>1, <1>2

\* A step that does not register the id keeps what is said of its first run.
LEMMA VoiceKept ==
  ASSUME TypeOK, IInv, SlotInv, StatusInv, CurrentInv, HonestInv, LaterInv, [Next]_vars,
         NEW a \in Agents, gens[a] <= 1, VoiceOf(a),
         \A p \in Callers : Register(p) => Of(p) # a
  PROVE  VoiceOf(a)'
<1> DEFINE r == <<a, 1>>
<1>0. /\ r \in Runs /\ r[1] = a
      /\ gens[a] \in Nat /\ (gens[a] \in Gens => gens[a] = 1)
      /\ \A g \in Gens : g <= gens[a] => g = 1
  BY BoundsAssumption DEF TypeOK, Runs, Gens
<1>1. \A s \in Senders : Of(s) = a => ~HoldsPrevious(s)
  BY <1>0 DEF LaterInv
<1>2. Voiced(a) => Voiced(a)'
  BY VoicedStays
<1>3. /\ Present(a) /\ registry[a].notified => Voiced(a)
      /\ a \in doomed => Voiced(a)
      /\ pc[a] \in StartingPCs \/ worker[r] # "none" => Present(a) \/ Voiced(a)
      /\ pc[a] = "undoTask" => worker[r] = "none"
      /\ worker[r] \in PastNotice => Voiced(a)
  BY DEF VoiceOf
<1>4. pc[a] \in StartingPCs => worker[r] = "none"
  <2>1. pc[a] \in StartingPCs => worker[<<a, gens[a]>>] = "none" /\ gens[a] \in Gens
    BY OfType DEF CurrentInv, SlotInv, StartingPCs
  <2> QED
    BY <1>0, <2>1
<1>5. \A p \in Callers : StartThread(p) /\ Of(p) = a => p = a /\ pc[a] = "thread"
  BY <1>1, OfType DEF StartThread, HoldsPrevious, Callers
<1>6. \A p \in Callers : UndoTask(p) /\ Of(p) = a => p = a /\ pc[a] = "undoTask" /\ saved[a] = Absent
  BY <1>1, OfType DEF UndoTask, HoldsPrevious, Callers, IInv, FirstLaunchInv
<1>7. worker'[r] # "none" => worker[r] # "none" \/ pc[a] = "thread"
  BY <1>0, <1>5, WorkerGets
<1>c1. Present(a)' /\ registry'[a].notified => Voiced(a)'
  <2>1. ASSUME NEW q \in Runs, q[1] = a, worker[q] = "mark", worker'[q] = "enqueue"
        PROVE  Voiced(a)'
    <3>1. q[2] = gens[a] /\ q[2] \in Gens /\ q = <<q[1], q[2]>>
      BY <2>1 DEF CurrentInv, Alive, AliveStates, Runs
    <3>2. q = r
      BY <1>0, <2>1, <3>1
    <3> QED
      BY <2>1, <3>2 DEF Voiced
  <2>2. ASSUME NEW k \in Killers, Of(k) = a, pc[k] = "mark", pc'[k] = "enqueue",
               killing'[k] = killing[k]
        PROVE  Voiced(a)'
    <3>1. killing[k] \in Gens /\ final[<<a, killing[k]>>] = "killed"
      BY <2>2 DEF HonestInv
    <3>2. <<a, killing[k]>> \in Runs
      BY <3>1 DEF Runs
    <3>3. ~(killing[k] > gens[a])
      BY <3>1, <3>2 DEF StatusInv
    <3>4. killing[k] = 1
      BY <1>0, <3>1, <3>3 DEF Gens
    <3> QED
      BY <2>2, <3>4 DEF Voiced, Of
  <2> QED
    BY <1>2, <1>3, <1>6, <2>1, <2>2, NotedMoves
<1>c2. a \in doomed' => Voiced(a)'
  BY <1>2, <1>3, DoomedMoves
<1>c3. pc'[a] \in StartingPCs \/ worker'[r] # "none" => Present(a)' \/ Voiced(a)'
  <2> SUFFICES ASSUME pc'[a] \in StartingPCs \/ worker'[r] # "none", ~Present(a)', ~Voiced(a)'
               PROVE  FALSE
    OBVIOUS
  <2>1. pc[a] \in StartingPCs \/ worker[r] # "none"
    BY <1>7, OfType, StartingMoves DEF StartingPCs
  <2>2. Present(a) /\ a \notin doomed
    BY <1>2, <1>3, <2>1
  <2>3. CASE ClaimName(a) /\ registry' # registry
    <3>1. pc[a] = "claim" /\ worker' = worker /\ pc' = [pc EXCEPT ![a] = "undoSlot"]
      BY <2>3 DEF ClaimName, Goto, workVars
    <3>2. pc'[a] = "undoSlot"
      BY <3>1, OfType DEF TypeOK
    <3> QED
      BY <1>4, <3>1, <3>2 DEF StartingPCs
  <2>4. ASSUME NEW p \in Callers, UndoTask(p), Of(p) = a PROVE FALSE
    <3>1. p = a /\ pc[a] = "undoTask" /\ worker' = worker /\ \E l : l \notin StartingPCs /\ Goto(a, l)
      BY <1>6, <2>4 DEF UndoTask, workVars, StartingPCs
    <3>2. pc'[a] \notin StartingPCs
      BY <3>1, OfType DEF TypeOK, Goto
    <3> QED
      BY <1>3, <3>1, <3>2
  <2> QED
    BY <2>2, <2>3, <2>4, GoneMoves
<1>c4. pc'[a] = "undoTask" => worker'[r] = "none"
  BY <1>3, <1>4, <1>7, UndoMoves DEF StartingPCs
<1>c5. worker'[r] \in PastNotice => Voiced(a)'
  <2>1. worker[r] = "enqueue" => Voiced(a)
    BY DEF Voiced
  <2> QED
    BY <1>0, <1>2, <1>3, <2>1, WorkerGets
<1> QED
  BY <1>c1, <1>c2, <1>c3, <1>c4, <1>c5 DEF VoiceOf

LEMMA VoiceStep ==
  /\ TypeOK /\ IInv /\ SlotInv /\ StatusInv /\ CurrentInv /\ HonestInv
  /\ LaterInv /\ VoiceInv /\ [Next]_vars
  => VoiceInv'
<1> SUFFICES ASSUME TypeOK, IInv, SlotInv, StatusInv, CurrentInv, HonestInv,
                    LaterInv, VoiceInv, [Next]_vars,
                    NEW a \in Agents, gens'[a] <= 1
             PROVE  VoiceOf(a)'
  BY DEF VoiceInv
<1>n. gens[a] \in Nat
  BY BoundsAssumption DEF TypeOK
<1>1. CASE \E p \in Callers : Register(p) /\ Of(p) = a
  <2>1. PICK p \in Callers : Register(p) /\ Of(p) = a
    BY <1>1
  <2>2. /\ gens' = [gens EXCEPT ![a] = gens[a] + 1]
        /\ registry' = [registry EXCEPT ![a] = [gen |-> gens[a] + 1, status |-> "running",
                                                notified |-> FALSE, pending |-> <<>>]]
        /\ UNCHANGED <<worker, doomed>>
        /\ \E l : l # "undoTask" /\ Goto(p, l)
    BY <2>1 DEF Register, SetEntry, workVars
  <2>3. gens[a] = 0 /\ 1 \in Gens
    BY <1>n, <2>2, BoundsAssumption DEF TypeOK, Gens
  <2>4. worker[<<a, 1>>] = "none"
    BY <2>3 DEF CurrentInv, Runs
  <2>5. registry'[a] # Absent /\ ~registry'[a].notified
    BY <2>2, <2>3, NewEntry, EntryFacts DEF TypeOK
  <2>6. a \in doomed' => Voiced(a)'
    <3>1. Voiced(a) => Voiced(a)'
      BY VoicedStays
    <3>2. gens[a] <= 1
      BY <2>3
    <3>3. a \in doomed => Voiced(a)
      BY <3>2 DEF VoiceInv, VoiceOf
    <3> QED
      BY <2>2, <3>1, <3>3
  <2> QED
    BY <2>2, <2>4, <2>5, <2>6 DEF VoiceOf, Present, PastNotice
<1>2. CASE \A p \in Callers : Register(p) => Of(p) # a
  <2>1. gens'[a] = gens[a]
    BY <1>2, GensMoves
  <2> QED
    BY <1>2, <2>1, VoiceKept DEF VoiceInv
<1> QED
  BY <1>1, <1>2

\* The end of a first run is not kept from the parent: when the worker is gone
\* the notice is out, or the thread that took it over is about to enqueue it.
THEOREM FirstEndIsVoiced == Spec => []EndIsVoiced
<1>1. ContractInv => TypeOK /\ IInv /\ SlotInv /\ StatusInv /\ CurrentInv /\ HonestInv
  BY DEF ContractInv
<1>2. VoiceInv => EndIsVoiced
  BY DEF VoiceInv, VoiceOf, EndIsVoiced, PastNotice
<1> QED
  BY <1>1, <1>2, Contracted, FinishedAlwaysComes, InitVoice, LaterStep, VoiceStep, PTL DEF Spec

-----------------------------------------------------------------------------
(***************************************************************************)
(* And it is voiced once: FirstRunTold. `notified' makes one thread of the *)
(* worker and the killers the speaker; an entry that is not marked has no  *)
(* speaker yet, and only a registration or the undo of a resume brings one *)
(* back.                                                                   *)
(***************************************************************************)
\* Nobody but the speaker is about to enqueue, and who does is the first.
SoleVoice(a) ==
  /\ told[<<a, 1>>] = <<>> \/ Len(told[<<a, 1>>]) = 1
  /\ worker[<<a, 1>>] = "enqueue" =>
       told[<<a, 1>>] = <<>> /\ \A k \in Killers : Of(k) = a => pc[k] # "enqueue"
  /\ \A k \in Killers : Of(k) = a /\ pc[k] = "enqueue" =>
       /\ told[<<a, 1>>] = <<>>
       /\ \A j \in Killers : Of(j) = a /\ pc[j] = "enqueue" => j = k
  /\ Present(a) /\ ~registry[a].notified =>
       /\ told[<<a, 1>>] = <<>>
       /\ worker[<<a, 1>>] # "enqueue"
       /\ \A k \in Killers : Of(k) = a => pc[k] # "enqueue"

SoleInv == \A a \in Agents : gens[a] <= 1 => SoleVoice(a)

\* Where an entry that is not marked comes from.
LEMMA UnnotedMoves ==
  ASSUME TypeOK, [Next]_vars, NEW a \in Agents, Present(a)', ~registry'[a].notified
  PROVE  \/ Present(a) /\ ~registry[a].notified
         \/ \E p \in Callers : Of(p) = a /\ (Register(p) \/ UndoTask(p))
<1> SUFFICES ASSUME \A p \in Callers : Of(p) = a => ~Register(p) /\ ~UndoTask(p)
             PROVE  Present(a) /\ ~registry[a].notified
  OBVIOUS
<1> DEFINE Was == Present(a) /\ ~registry[a].notified
<1> HIDE DEF Was
<1>u. registry' = registry => Was
  BY DEF Was, Present
<1>e. ASSUME NEW b \in Agents, Present(b), NEW e \in Entry,
             registry[b].notified => e.notified, registry' = [registry EXCEPT ![b] = e]
      PROVE  Was
  BY <1>e DEF Was, Present, TypeOK
<1>s. ASSUME NEW b \in Agents, Present(b), NEW st \in Terminal, SetStatus(b, st) PROVE Was
  <2>1. registry' = [registry EXCEPT ![b] = [registry[b] EXCEPT !.status = st]]
    BY <1>s DEF SetStatus
  <2> QED
    BY <1>e, <1>s, <2>1, RunFact, StatusUpdate
<1>p. ASSUME NEW b \in Agents, Present(b), NEW q \in Seq(Senders),
             registry' = [registry EXCEPT ![b] = [registry[b] EXCEPT !.pending = q]]
      PROVE  Was
  BY <1>e, <1>p, RunFact, PendingUpdate
<1>n. ASSUME NEW b \in Agents, Present(b), registry' = [registry EXCEPT ![b].notified = TRUE]
      PROVE  Was
  <2>1. [registry[b] EXCEPT !.notified = TRUE].notified
    BY <1>n, RunFact DEF Entry
  <2> QED
    BY <1>n, <2>1 DEF Was, Present, TypeOK
<1>r. ASSUME NEW b \in Agents, registry' = [registry EXCEPT ![b] = Absent] PROVE Was
  BY <1>r DEF Was, Present, TypeOK
<1>o. ASSUME NEW b \in Agents, NEW e, b # a, registry' = [registry EXCEPT ![b] = e] PROVE Was
  BY <1>o DEF Was, Present, TypeOK
<1>1. ASSUME NEW p \in Callers, Admit(p) \/ AdmitRefused(p) \/ LaunchStep(p) PROVE Was
  <2>1. Of(p) \in Agents
    BY OfType
  <2>2. CASE Register(p) \/ UndoTask(p)
    BY <1>o, <2>1, <2>2 DEF Register, UndoTask, SetEntry
  <2>3. CASE ~Register(p) /\ ~UndoTask(p)
    BY <1>1, <1>u, <1>r, <2>3
    DEF Admit, AdmitRefused, LaunchStep, ClaimName, SetEntry, Continue, StartThread, StartFails,
        UndoCont, UndoFinished, UndoSlot, registryVars
  <2> QED
    BY <2>2, <2>3
<1>2. ASSUME NEW s \in Senders, Route(s) \/ SenderStep(s) PROVE Was
  <2>1. CASE (Queue(s) \/ Requeue(s)) /\ IsRunning(Of(s))
    <3>1. registry' = [registry EXCEPT ![Of(s)] =
             [registry[Of(s)] EXCEPT !.pending = Append(registry[Of(s)].pending, s)]]
      BY <2>1 DEF Queue, Requeue, QueueMessage
    <3>2. Of(s) \in Agents /\ Present(Of(s))
      BY <2>1, OfType DEF IsRunning
    <3>3. Append(registry[Of(s)].pending, s) \in Seq(Senders)
      BY <3>2, RunFact, EntryFacts
    <3> QED
      BY <1>p, <3>1, <3>2, <3>3
  <2> QED
    BY <1>u, <1>2, <2>1 DEF Route, SenderStep, Queue, Requeue, QueueMessage,
       FetchContinuation, Precheck, AcquireLock, Recheck, WaitFinished, registryVars
<1>3. ASSUME NEW r \in Runs, WorkerStep(r) PROVE Was
  <2>0. r[1] \in Agents
    BY DEF Runs
  <2>1. CASE Present(r[1]) /\ registry' = [registry EXCEPT ![r[1]].notified = TRUE]
    BY <1>n, <2>0, <2>1
  <2>2. CASE Present(r[1]) /\ TakeInbox(r[1])
    <3>1. registry' = [registry EXCEPT ![r[1]] = [registry[r[1]] EXCEPT !.pending = <<>>]]
      BY <2>2 DEF TakeInbox
    <3>2. <<>> \in Seq(Senders)
      OBVIOUS
    <3> QED
      BY <1>p, <2>0, <2>2, <3>1, <3>2
  <2>3. CASE Present(r[1]) /\ \E st \in Terminal : SetStatus(r[1], st)
    BY <1>s, <2>0, <2>3
  <2>4. CASE registry' = registry
    BY <1>u, <2>4
  <2> QED
    BY <1>3, <2>1, <2>2, <2>3, <2>4
    DEF WorkerStep, WorkerCleanup, DrainRound, CompleteOrDrain, RunRaises, FailTask,
        MarkNotified, EnqueueNotice, ReleaseSlot, SetFinished, registryVars, IsRunning,
        Terminal
<1>4. ASSUME NEW k \in Killers, Kill(k) \/ KillerStep(k) PROVE Was
  <2>0. Of(k) \in Agents
    BY OfType
  <2>1. CASE Present(Of(k)) /\ registry' = [registry EXCEPT ![Of(k)].notified = TRUE]
    BY <1>n, <2>0, <2>1
  <2>2. CASE Kill(k)
    BY <1>s, <2>0, <2>2 DEF Kill, IsRunning, Terminal
  <2>3. CASE registry' = registry
    BY <1>u, <2>3
  <2> QED
    BY <1>4, <2>1, <2>2, <2>3 DEF KillerStep, AbortRun, KillMark, KillEnqueue, registryVars
<1>5. ASSUME SweepSnapshot \/ (\E b \in Agents : SweepRemove(b)) \/ UNCHANGED vars PROVE Was
  BY <1>5, <1>u, <1>r DEF SweepSnapshot, SweepRemove, SetEntry, vars, registryVars
<1>6. Was
  BY <1>1, <1>2, <1>3, <1>4, <1>5 DEF Next
<1> QED
  BY <1>6 DEF Was

\* A step that raises no new voice, and marks back no entry.
LEMMA NoNewVoice ==
  ASSUME NEW a \in Agents, SoleVoice(a), told'[<<a, 1>>] = told[<<a, 1>>],
         worker'[<<a, 1>>] = "enqueue" => worker[<<a, 1>>] = "enqueue",
         \A k \in Killers : pc'[k] = "enqueue" => pc[k] = "enqueue",
         Present(a)' /\ ~registry'[a].notified => Present(a) /\ ~registry[a].notified
  PROVE  SoleVoice(a)'
BY DEF SoleVoice, Of

\* A step that does not register the id keeps its voice the only one.
LEMMA SoleKept ==
  ASSUME TypeOK, IInv, SlotInv, StatusInv, CurrentInv, HonestInv, LaterInv, [Next]_vars,
         NEW a \in Agents, gens[a] <= 1, SoleVoice(a),
         \A p \in Callers : Register(p) => Of(p) # a
  PROVE  SoleVoice(a)'
<1> DEFINE r == <<a, 1>>
<1>0. /\ r \in Runs /\ r[1] = a
      /\ gens[a] \in Nat /\ (gens[a] \in Gens => gens[a] = 1)
  BY BoundsAssumption DEF TypeOK, Runs, Gens
<1>1. \A s \in Senders : Of(s) = a => ~HoldsPrevious(s)
  BY <1>0 DEF LaterInv
<1>2. \A p \in Callers : UndoTask(p) /\ Of(p) = a => p = a /\ saved[a] = Absent
  BY <1>1, OfType DEF UndoTask, HoldsPrevious, Callers, IInv, FirstLaunchInv
<1>3. Present(a)' /\ ~registry'[a].notified => Present(a) /\ ~registry[a].notified
  <2>1. ASSUME NEW p \in Callers, UndoTask(p), Of(p) = a PROVE ~Present(a)'
    BY <1>2, <2>1 DEF UndoTask, SetEntry, Present, TypeOK
  <2> QED
    BY <2>1, UnnotedMoves
<1>4. \A k \in Killers : Of(k) = a /\ pc[k] \in {"abort", "mark", "enqueue"} => killing[k] = 1
  <2> SUFFICES ASSUME NEW k \in Killers, Of(k) = a, pc[k] \in {"abort", "mark", "enqueue"}
               PROVE  killing[k] = 1
    OBVIOUS
  <2>1. killing[k] \in Gens /\ final[<<a, killing[k]>>] = "killed"
    BY DEF HonestInv
  <2>2. <<a, killing[k]>> \in Runs
    BY <2>1 DEF Runs
  <2>3. ~(killing[k] > gens[a])
    BY <2>1, <2>2 DEF StatusInv
  <2> QED
    BY <1>0, <2>1, <2>3 DEF Gens
<1>5. \A q \in Runs : q[1] = a /\ Alive(q) => q = r
  BY <1>0 DEF CurrentInv, Runs
<1>6. ASSUME NEW q \in Runs, WorkerStep(q) PROVE SoleVoice(a)'
  <2>1. \A x \in Runs : x # q => worker'[x] = worker[x]
    BY <1>6 DEF WorkerStep, WorkerCleanup, DrainRound, CompleteOrDrain, RunRaises, FailTask,
                MarkNotified, EnqueueNotice, ReleaseSlot, SetFinished, Move, TypeOK, workVars
  <2>2. UNCHANGED pc
    BY <1>6 DEF WorkerStep, WorkerCleanup, DrainRound, CompleteOrDrain, RunRaises, FailTask,
                MarkNotified, EnqueueNotice, ReleaseSlot, SetFinished, callVars
  <2>3. \A x \in Runs : x # q => told'[x] = told[x]
    BY <1>6 DEF WorkerStep, WorkerCleanup, DrainRound, CompleteOrDrain, RunRaises, FailTask,
                MarkNotified, EnqueueNotice, ReleaseSlot, SetFinished, TypeOK, noteVars
  <2>4. CASE q # r
    BY <1>0, <1>3, <2>1, <2>2, <2>3, <2>4, NoNewVoice
  <2>5. CASE q = r /\ EnqueueNotice(q)
    <3>1. /\ worker[r] = "enqueue" /\ worker'[r] = "release" /\ registry' = registry
          /\ told'[r] = Append(told[r], says[r])
      BY <1>0, <2>5 DEF EnqueueNotice, At, Move, registryVars, TypeOK
    <3>2. told[r] = <<>> /\ \A k \in Killers : Of(k) = a => pc[k] # "enqueue"
      BY <3>1 DEF SoleVoice
    <3>3. Len(told'[r]) = 1
      BY <3>1, <3>2
    <3>4. ~(Present(a)' /\ ~registry'[a].notified)
      BY <1>3, <3>1 DEF SoleVoice
    <3> QED
      BY <2>2, <3>1, <3>2, <3>3, <3>4 DEF SoleVoice, Of
  <2>6. CASE q = r /\ MarkNotified(q) /\ Present(a) /\ ~registry[a].notified
    <3>1. /\ worker'[r] = "enqueue" /\ told' = told
          /\ registry' = [registry EXCEPT ![a].notified = TRUE]
      BY <1>0, <2>6 DEF MarkNotified, Move, TypeOK
    <3>2. registry'[a].notified
      <4>1. [registry[a] EXCEPT !.notified = TRUE].notified
        BY <2>6, RunFact DEF Entry
      <4> QED
        BY <3>1, <4>1 DEF TypeOK
    <3>3. told[r] = <<>> /\ \A k \in Killers : Of(k) = a => pc[k] # "enqueue"
      BY <2>6 DEF SoleVoice
    <3> QED
      BY <2>2, <3>1, <3>2, <3>3 DEF SoleVoice, Of
  <2>7. CASE /\ q = r /\ ~EnqueueNotice(q)
             /\ ~(MarkNotified(q) /\ Present(a) /\ ~registry[a].notified)
    <3>1. told' = told
      BY <1>6, <2>7
      DEF WorkerStep, WorkerCleanup, DrainRound, CompleteOrDrain, RunRaises, FailTask,
          MarkNotified, ReleaseSlot, SetFinished, noteVars
    <3>2. \/ worker' = worker
          \/ \E l : l # "enqueue" /\ Move(q, l)
      <4>1. q[1] = a
        BY <1>0, <2>7
      <4> QED
        BY <1>6, <2>7, <4>1
        DEF WorkerStep, WorkerCleanup, DrainRound, CompleteOrDrain, RunRaises, FailTask,
            MarkNotified, ReleaseSlot, SetFinished, workVars
    <3>3. worker'[r] = "enqueue" => worker[r] = "enqueue"
      BY <1>0, <2>7, <3>2 DEF Move, TypeOK
    <3> QED
      BY <1>3, <2>2, <3>1, <3>3, NoNewVoice
  <2> QED
    BY <2>4, <2>5, <2>6, <2>7
<1>7. ASSUME NEW k \in Killers, KillMark(k), Of(k) = a, Present(a), ~registry[a].notified
      PROVE  SoleVoice(a)'
  <2>1. /\ UNCHANGED <<worker, told>>
        /\ registry' = [registry EXCEPT ![a].notified = TRUE]
        /\ \A j \in Killers : pc'[j] = IF j = k THEN "enqueue" ELSE pc[j]
    BY <1>7 DEF KillMark, Goto, TypeOK, workVars, noteVars
  <2>2. registry'[a].notified
    <3>1. [registry[a] EXCEPT !.notified = TRUE].notified
      BY <1>7, RunFact DEF Entry
    <3> QED
      BY <2>1, <3>1 DEF TypeOK
  <2> QED
    BY <1>7, <2>1, <2>2 DEF SoleVoice, Of
<1>8. ASSUME NEW k \in Killers, KillEnqueue(k), Of(k) = a PROVE SoleVoice(a)'
  <2>1. /\ pc[k] = "enqueue" /\ killing[k] = 1
        /\ UNCHANGED <<worker, registry>>
        /\ told'[r] = Append(told[r], "killed")
        /\ \A j \in Killers : pc'[j] = IF j = k THEN "done" ELSE pc[j]
    BY <1>0, <1>4, <1>8 DEF KillEnqueue, Goto, TypeOK, workVars, registryVars
  <2>2. told[r] = <<>> /\ \A j \in Killers : Of(j) = a /\ pc[j] = "enqueue" => j = k
    BY <1>8, <2>1 DEF SoleVoice
  <2>3. Len(told'[r]) = 1
    BY <2>1, <2>2
  <2>4. worker[r] # "enqueue" /\ ~(Present(a) /\ ~registry[a].notified)
    BY <1>8, <2>1 DEF SoleVoice
  <2>5. ~(Present(a)' /\ ~registry'[a].notified)
    BY <1>3, <2>4
  <2> QED
    BY <2>1, <2>2, <2>3, <2>4, <2>5 DEF SoleVoice, Of
<1>9. ASSUME NEW k \in Killers, Kill(k) \/ KillerStep(k),
             ~(KillMark(k) /\ Of(k) = a /\ Present(a) /\ ~registry[a].notified),
             ~(KillEnqueue(k) /\ Of(k) = a)
      PROVE  SoleVoice(a)'
  <2>1. UNCHANGED worker
    BY <1>9 DEF Kill, KillerStep, AbortRun, KillMark, KillEnqueue, workVars
  <2>2. told'[r] = told[r]
    <3>1. CASE KillEnqueue(k)
      <4>1. Of(k) # a
        BY <1>9, <3>1
      <4>2. <<Of(k), killing[k]>> # r
        BY <1>0, <4>1
      <4>3. told' = [told EXCEPT ![<<Of(k), killing[k]>>] =
                                   Append(told[<<Of(k), killing[k]>>], "killed")]
        BY <3>1 DEF KillEnqueue
      <4> QED
        BY <1>0, <4>2, <4>3 DEF TypeOK
    <3>2. CASE ~KillEnqueue(k)
      <4>1. told' = told
        BY <1>9, <3>2 DEF Kill, KillerStep, AbortRun, KillMark, noteVars
      <4> QED
        BY <4>1
    <3> QED
      BY <3>1, <3>2
  <2>3. /\ \A j \in Killers : j # k => pc'[j] = pc[j]
        /\ Of(k) = a => pc'[k] # "enqueue"
    BY <1>9 DEF Kill, KillerStep, AbortRun, KillMark, KillEnqueue, Goto, TypeOK
  <2> QED
    BY <1>3, <2>1, <2>2, <2>3 DEF SoleVoice, Of
<1>10. ASSUME NEW p \in Callers,
              \/ Admit(p) \/ AdmitRefused(p) \/ LaunchStep(p)
              \/ p \in Senders /\ (Route(p) \/ SenderStep(p))
       PROVE  SoleVoice(a)'
  <2>1. /\ told' = told /\ \E l : Goto(p, l)
        /\ worker' = worker \/ worker' = [worker EXCEPT ![<<Of(p), gens[Of(p)]>>] = "running"]
    BY <1>10
    DEF Admit, AdmitRefused, LaunchStep, Register, ClaimName, Continue, StartThread, StartFails,
        UndoTask, UndoCont, UndoFinished, UndoSlot, Route, SenderStep, Queue, Requeue,
        QueueMessage, FetchContinuation, Precheck, AcquireLock, Recheck, WaitFinished, GiveUp,
        workVars, noteVars
  <2>2. \A k \in Killers : pc'[k] = pc[k]
    BY <2>1, KillersStay
  <2>3. worker'[r] = "enqueue" => worker[r] = "enqueue"
    BY <1>0, <2>1 DEF TypeOK
  <2> QED
    BY <1>3, <2>1, <2>2, <2>3, NoNewVoice
<1>11. ASSUME SweepSnapshot \/ (\E b \in Agents : SweepRemove(b)) \/ UNCHANGED vars
       PROVE  SoleVoice(a)'
  <2>1. UNCHANGED <<told, worker, pc>>
    BY <1>11 DEF SweepSnapshot, SweepRemove, vars, callVars, workVars, noteVars
  <2> QED
    BY <1>3, <2>1, NoNewVoice
<1>12. Senders \subseteq Callers
  BY DEF Callers
<1> QED
  BY <1>6, <1>7, <1>8, <1>9, <1>10, <1>11, <1>12 DEF Next, KillerStep

LEMMA SoleStep ==
  /\ TypeOK /\ IInv /\ SlotInv /\ StatusInv /\ CurrentInv /\ HonestInv
  /\ LaterInv /\ SoleInv /\ [Next]_vars
  => SoleInv'
<1> SUFFICES ASSUME TypeOK, IInv, SlotInv, StatusInv, CurrentInv, HonestInv,
                    LaterInv, SoleInv, [Next]_vars,
                    NEW a \in Agents, gens'[a] <= 1
             PROVE  SoleVoice(a)'
  BY DEF SoleInv
<1>n. gens[a] \in Nat
  BY BoundsAssumption DEF TypeOK
<1>1. CASE \E p \in Callers : Register(p) /\ Of(p) = a
  <2>1. PICK p \in Callers : Register(p) /\ Of(p) = a
    BY <1>1
  <2>2. /\ gens' = [gens EXCEPT ![a] = gens[a] + 1]
        /\ UNCHANGED <<worker, told>> /\ \E l : Goto(p, l)
    BY <2>1 DEF Register, workVars, noteVars
  <2>3. gens[a] = 0 /\ 1 \in Gens /\ <<a, 1>> \in Runs
    BY <1>n, <2>2, BoundsAssumption DEF TypeOK, Gens, Runs
  <2>4. worker[<<a, 1>>] = "none"
    BY <2>3 DEF CurrentInv
  <2>5. \A g \in Gens : final[<<a, g>>] = "none"
    <3> SUFFICES ASSUME NEW g \in Gens PROVE final[<<a, g>>] = "none"
      OBVIOUS
    <3>1. <<a, g>> \in Runs /\ g > gens[a]
      BY <2>3 DEF Runs, Gens
    <3> QED
      BY <3>1 DEF StatusInv
  <2>6. \A k \in Killers : Of(k) = a => pc[k] # "enqueue"
    BY <2>5 DEF HonestInv
  <2>7. told[<<a, 1>>] = <<>>
    <3>1. told[<<a, 1>>] \in Seq(Terminal \cup {"none", "running"})
      BY <2>3 DEF TypeOK
    <3>2. \A i \in 1..Len(told[<<a, 1>>]) : FALSE
      BY <2>3, <2>5 DEF HonestInv
    <3> QED
      BY <3>1, <3>2
  <2>8. \A k \in Killers : pc'[k] = pc[k]
    BY <2>2, KillersStay
  <2> QED
    BY <2>2, <2>4, <2>6, <2>7, <2>8 DEF SoleVoice, Of
<1>2. CASE \A p \in Callers : Register(p) => Of(p) # a
  <2>1. gens'[a] = gens[a]
    BY <1>2, GensMoves
  <2> QED
    BY <1>2, <2>1, SoleKept DEF SoleInv
<1> QED
  BY <1>1, <1>2

LEMMA InitSole == Init => SoleInv
<1>1. ASSUME Init, NEW a \in Agents PROVE SoleVoice(a)
  <2>1. <<a, 1>> \in Runs
    BY BoundsAssumption DEF Runs, Gens
  <2> QED
    BY <1>1, <2>1 DEF Init, SoleVoice, Present
<1> QED
  BY <1>1 DEF SoleInv

\* Of an agent that was not resumed the parent hears at most once, and hears how
\* it ended, whatever completion, kills, sweeps and failing thread starts race,
\* also when the agent can be resumed later.
THEOREM FirstRunHeardOnce == Spec => []FirstRunTold
<1>1. ContractInv => TypeOK /\ IInv /\ SlotInv /\ StatusInv /\ CurrentInv /\ HonestInv
  BY DEF ContractInv
<1>2. HonestInv /\ SoleInv => FirstRunTold
  <2> SUFFICES ASSUME HonestInv, SoleInv, NEW a \in Agents, gens[a] = 1
               PROVE  /\ Len(told[<<a, 1>>]) <= 1
                      /\ \A i \in 1..Len(told[<<a, 1>>]) : told[<<a, 1>>][i] = final[<<a, 1>>]
    BY DEF FirstRunTold
  <2>1. <<a, 1>> \in Runs
    BY BoundsAssumption DEF Runs, Gens
  <2>2. SoleVoice(a)
    BY DEF SoleInv
  <2>3. CASE told[<<a, 1>>] = <<>>
    <3>1. Len(told[<<a, 1>>]) = 0
      BY <2>3
    <3> QED
      BY <2>3, <3>1
  <2>4. CASE Len(told[<<a, 1>>]) = 1
    BY <2>1, <2>4 DEF HonestInv
  <2> QED
    BY <2>2, <2>3, <2>4 DEF SoleVoice
<1> QED
  BY <1>1, <1>2, Contracted, FinishedAlwaysComes, InitVoice, LaterStep, InitSole, SoleStep, PTL
     DEF Spec
=============================================================================
