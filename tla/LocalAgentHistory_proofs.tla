------------------------ MODULE LocalAgentHistory_proofs ------------------------
(***************************************************************************)
(* Proofs about what a background agent's generations leave behind, for    *)
(* every set of agents, senders and killers and every bound: a status is   *)
(* final, a message is consumed once, and a completion loses none.         *)
(***************************************************************************)
EXTENDS LocalAgent_proofs

(***************************************************************************)
(* Statuses. An entry turns to "running" only when it is registered; what  *)
(* else writes entries ends or removes them. The one exception is the      *)
(* previous state that a failed launch puts back, and that was not running *)
(* when it was read: the caller had seen its worker gone.                  *)
(***************************************************************************)
\* The worker's run has ended, and its entry is terminal or was removed.
EndedStates == {"mark", "enqueue", "release", "finish"}
\* A resume has registered its generation and kept the previous state.
HoldsPrevious(s) == pc[s] \in {"continue", "thread", "undoTask"}

\* What is running has no terminal status, and no generation is ahead of its
\* registration.
StatusInv ==
  /\ \A a \in Agents : IsRunning(a) => final[Run(a)] = "none"
  /\ \A r \in Runs : r[2] > gens[r[1]] => final[r] = "none"
  /\ \A a \in Agents : Present(a) => registry[a].gen <= gens[a]
  /\ \A s \in Senders : HoldsPrevious(s) /\ saved[s] # Absent =>
       saved[s].status # "running" /\ saved[s].gen <= gens[Of(s)]

\* Who has seen that the entry of an id is not running.
EndedInv ==
  /\ \A r \in Runs : worker[r] \in EndedStates => ~IsRunning(r[1])
  /\ \A s \in Senders :
       /\ pc[s] = "wait" /\ finished[Of(s)] => ~IsRunning(Of(s))
       /\ pc[s] \in {"admit", "register"} => ~IsRunning(Of(s))
  /\ \A a \in Agents : pc[a] \in {"undoCont", "undoFinished"} => ~IsRunning(a)

\* No entry turns to running, and every entry is of a registered generation.
NoneRises ==
  /\ \A a \in Agents : IsRunning(a)' => IsRunning(a) /\ registry'[a].gen = registry[a].gen
  /\ \A a \in Agents : Present(a)' => registry'[a].gen <= gens[a]

\* A generation gets its terminal status as its entry stops running.
EndsOnce ==
  \A r \in Runs : \/ final'[r] = final[r]
                  \/ IsRunning(r[1]) /\ r = Run(r[1]) /\ ~IsRunning(r[1])'

\* What every step but a registration does.
Calm ==
  /\ UNCHANGED <<gens, saved>>
  /\ NoneRises
  /\ EndsOnce
  /\ \A r \in Runs : worker'[r] \in EndedStates =>
       worker[r] \in EndedStates \/ ~IsRunning(r[1])'
  /\ \A s \in Senders :
       /\ pc'[s] = "wait" => pc[s] = "wait" \/ ~IsRunning(Of(s))'
       /\ pc'[s] \in {"admit", "register"} =>
            pc[s] \in {"admit", "register"} \/ ~IsRunning(Of(s))'
       /\ HoldsPrevious(s)' => HoldsPrevious(s)
       /\ pc'[s] = "wait" /\ finished'[Of(s)] => finished[Of(s)] \/ ~IsRunning(Of(s))'
  /\ \A a \in Agents : pc'[a] \in {"undoCont", "undoFinished"} =>
       pc[a] \in {"undoCont", "undoFinished"} \/ ~IsRunning(a)'

LEMMA StatusUpdate ==
  ASSUME NEW e \in Entry, NEW st \in Terminal
  PROVE  LET f == [e EXCEPT !.status = st]
         IN  f \in Entry /\ f.gen = e.gen /\ f.status = st /\ f.pending = e.pending
               /\ f.notified = e.notified
BY DEF Entry

LEMMA NotifiedUpdate ==
  ASSUME NEW e \in Entry
  PROVE  LET f == [e EXCEPT !.notified = TRUE]
         IN  f \in Entry /\ f.gen = e.gen /\ f.status = e.status /\ f.pending = e.pending
               /\ f.notified = TRUE
BY DEF Entry

LEMMA PendingUpdate ==
  ASSUME NEW e \in Entry, NEW q \in Seq(Senders)
  PROVE  LET f == [e EXCEPT !.pending = q]
         IN  f \in Entry /\ f.gen = e.gen /\ f.status = e.status /\ f.pending = q
               /\ f.notified = e.notified
BY DEF Entry

LEMMA EntryFacts ==
  ASSUME NEW e \in Entry
  PROVE  e # Absent /\ e.gen \in Gens /\ e.pending \in Seq(Senders)
<1>1. e.gen \in Gens /\ e.pending \in Seq(Senders)
  BY DEF Entry
<1>2. Absent.gen = 0 /\ 0 \notin Gens
  BY BoundsAssumption DEF Absent, Gens
<1> QED
  BY <1>1, <1>2

LEMMA RunFact ==
  ASSUME TypeOK, NEW a \in Agents, Present(a)
  PROVE  registry[a] \in Entry /\ Run(a) \in Runs /\ Run(a)[1] = a /\ Run(a)[2] = registry[a].gen
<1>1. registry[a] \in Entry
  BY DEF TypeOK, Present
<1>2. registry[a].gen \in Gens
  BY <1>1, EntryFacts
<1> QED
  BY <1>1, <1>2 DEF Run, Runs

\* Rewriting an entry of the same generation.
LEMMA Rewritten ==
  ASSUME TypeOK, StatusInv, NEW a \in Agents, Present(a), NEW e \in Entry,
         e.gen = registry[a].gen, e.status = registry[a].status \/ e.status # "running",
         registry' = [registry EXCEPT ![a] = e]
  PROVE  /\ NoneRises
         /\ IsRunning(a)' <=> e.status = "running"
<1>1. e # Absent
  BY EntryFacts
<1>2. \A b \in Agents : registry'[b] = IF b = a THEN e ELSE registry[b]
  BY DEF TypeOK
<1> QED
  BY <1>1, <1>2 DEF StatusInv, NoneRises, IsRunning, Present

LEMMA Removed ==
  ASSUME TypeOK, StatusInv, NEW a \in Agents, registry' = [registry EXCEPT ![a] = Absent]
  PROVE  NoneRises /\ ~IsRunning(a)'
BY DEF TypeOK, StatusInv, NoneRises, IsRunning, Present

LEMMA Untouched ==
  ASSUME StatusInv, registry' = registry
  PROVE  NoneRises /\ \A a \in Agents : IsRunning(a)' <=> IsRunning(a)
BY DEF StatusInv, NoneRises, IsRunning, Present

\* The four updates of an entry.
LEMMA StatusSet ==
  ASSUME TypeOK, StatusInv, NEW a \in Agents, IsRunning(a), NEW st \in Terminal,
         SetStatus(a, st)
  PROVE  NoneRises /\ EndsOnce /\ ~IsRunning(a)'
<1>1. registry[a] \in Entry /\ Present(a)
  BY RunFact DEF IsRunning
<1>2. registry' = [registry EXCEPT ![a] = [registry[a] EXCEPT !.status = st]]
  BY DEF SetStatus
<1>3. st # "running"
  BY DEF Terminal
<1>4. NoneRises /\ ~IsRunning(a)'
  BY <1>1, <1>2, <1>3, StatusUpdate, Rewritten
<1>5. EndsOnce
  BY <1>1, <1>4, RunFact DEF EndsOnce, SetStatus, TypeOK
<1> QED
  BY <1>4, <1>5

LEMMA InboxTaken ==
  ASSUME TypeOK, StatusInv, NEW a \in Agents, Present(a), TakeInbox(a)
  PROVE  NoneRises /\ (IsRunning(a)' <=> IsRunning(a))
<1>1. registry[a] \in Entry
  BY RunFact
<1>2. registry' = [registry EXCEPT ![a] = [registry[a] EXCEPT !.pending = <<>>]]
  BY DEF TakeInbox
<1>3. <<>> \in Seq(Senders)
  OBVIOUS
<1>4. registry[a].status = "running" <=> IsRunning(a)
  BY DEF IsRunning
<1>5. PICK e \in Entry : /\ registry' = [registry EXCEPT ![a] = e]
                          /\ e.gen = registry[a].gen /\ e.status = registry[a].status
  BY <1>1, <1>2, <1>3, PendingUpdate
<1>6. NoneRises /\ (IsRunning(a)' <=> e.status = "running")
  BY <1>5, Rewritten
<1> QED
  BY <1>4, <1>5, <1>6

LEMMA InboxGrown ==
  ASSUME TypeOK, StatusInv, NEW s \in Senders, IsRunning(Of(s)),
         registry' = [registry EXCEPT ![Of(s)].pending = Append(@, s)]
  PROVE  NoneRises
<1> DEFINE a == Of(s)
<1>1. a \in Agents /\ registry[a] \in Entry /\ Present(a)
  BY RunFact, OfType DEF IsRunning
<1>2. Append(registry[a].pending, s) \in Seq(Senders)
  BY <1>1, EntryFacts
<1>3. registry' = [registry EXCEPT ![a] =
                    [registry[a] EXCEPT !.pending = Append(registry[a].pending, s)]]
  OBVIOUS
<1> QED
  BY <1>1, <1>2, <1>3, PendingUpdate, Rewritten

LEMMA Notified ==
  ASSUME TypeOK, StatusInv, NEW a \in Agents, Present(a),
         registry' = [registry EXCEPT ![a].notified = TRUE]
  PROVE  NoneRises /\ (IsRunning(a)' <=> IsRunning(a))
<1>1. registry[a] \in Entry
  BY RunFact
<1>2. registry' = [registry EXCEPT ![a] = [registry[a] EXCEPT !.notified = TRUE]]
  OBVIOUS
<1>4. registry[a].status = "running" <=> IsRunning(a)
  BY DEF IsRunning
<1>5. PICK e \in Entry : /\ registry' = [registry EXCEPT ![a] = e]
                          /\ e.gen = registry[a].gen /\ e.status = registry[a].status
  BY <1>1, <1>2, NotifiedUpdate
<1>6. NoneRises /\ (IsRunning(a)' <=> e.status = "running")
  BY <1>5, Rewritten
<1> QED
  BY <1>4, <1>5, <1>6

\* The actions, one group after the other. In each, the registry first.
LEMMA WorkerCalm ==
  ASSUME TypeOK, IInv, StatusInv, EndedInv, NEW r \in Runs, WorkerStep(r)
  PROVE  Calm
<1>0. r[1] \in Agents
  BY DEF Runs
<1>1. UNCHANGED <<gens, saved, pc>>
  BY DEF WorkerStep, WorkerCleanup, DrainRound, CompleteOrDrain, RunRaises, FailTask,
         MarkNotified, EnqueueNotice, ReleaseSlot, SetFinished, registryVars, callVars
<1>2. /\ NoneRises /\ EndsOnce
      /\ \/ worker' = worker
         \/ \E l \in WorkerPCs : Move(r, l) /\ (l \in EndedStates =>
              worker[r] \in EndedStates \/ ~IsRunning(r[1])')
  <2>1. CASE DrainRound(r)
    BY <1>0, <2>1, InboxTaken DEF DrainRound, EndsOnce, noteVars, workVars
  <2>2. CASE CompleteOrDrain(r) /\ ~IsRunning(r[1])
    BY <1>0, <2>2, Untouched, WorkerLabels DEF CompleteOrDrain, EndsOnce, registryVars
  <2>3. CASE CompleteOrDrain(r) /\ IsRunning(r[1]) /\ registry[r[1]].pending # <<>>
    BY <1>0, <2>3, InboxTaken DEF CompleteOrDrain, EndsOnce, IsRunning
  <2>4. CASE CompleteOrDrain(r) /\ IsRunning(r[1]) /\ registry[r[1]].pending = <<>>
    BY <1>0, <2>4, StatusSet, WorkerLabels DEF CompleteOrDrain, Terminal
  <2>5. CASE RunRaises(r)
    BY <2>5, Untouched, WorkerLabels DEF RunRaises, EndsOnce, registryVars, noteVars, EndedStates
  <2>6. CASE FailTask(r) /\ IsRunning(r[1])
    BY <1>0, <2>6, StatusSet, WorkerLabels DEF FailTask, Terminal
  <2>7. CASE FailTask(r) /\ ~IsRunning(r[1])
    BY <1>0, <2>7, Untouched, WorkerLabels DEF FailTask, EndsOnce
  <2>8. CASE MarkNotified(r)
    <3>1. NoneRises
      BY <1>0, <2>8, Notified, Untouched DEF MarkNotified
    <3>2. worker[r] \in EndedStates
      BY <2>8 DEF MarkNotified, At, EndedStates
    <3> QED
      BY <2>8, <3>1, <3>2, WorkerLabels DEF MarkNotified, EndsOnce
  <2>9. CASE EnqueueNotice(r) \/ ReleaseSlot(r) \/ SetFinished(r)
    <3>2. worker[r] \in EndedStates
      BY <2>9 DEF EnqueueNotice, ReleaseSlot, SetFinished, At, EndedStates
    <3> QED
      BY <2>9, <3>2, Untouched, WorkerLabels
      DEF EnqueueNotice, ReleaseSlot, SetFinished, EndsOnce, registryVars, noteVars
  <2> QED
    BY <2>1, <2>2, <2>3, <2>4, <2>5, <2>6, <2>7, <2>8, <2>9 DEF WorkerStep, WorkerCleanup
<1>3. \A q \in Runs : worker'[q] \in EndedStates =>
        worker[q] \in EndedStates \/ ~IsRunning(q[1])'
  BY <1>2 DEF Move, TypeOK
<1>4. \A a \in Agents : finished'[a] => finished[a] \/ ~IsRunning(a)'
  <2>1. CASE SetFinished(r)
    <3>1. ~IsRunning(r[1])
      BY <2>1 DEF SetFinished, At, EndedInv, EndedStates
    <3>2. ~IsRunning(r[1])'
      BY <1>0, <1>2, <3>1 DEF NoneRises
    <3> QED
      BY <2>1, <3>2 DEF SetFinished, TypeOK
  <2>2. CASE finished' = finished
    BY <2>2
  <2> QED
    BY <2>1, <2>2 DEF WorkerStep, WorkerCleanup, DrainRound, CompleteOrDrain, RunRaises,
       FailTask, MarkNotified, EnqueueNotice, ReleaseSlot, contVars
<1> QED
  BY <1>1, <1>2, <1>3, <1>4, OfType DEF Calm, HoldsPrevious

LEMMA KillerCalm ==
  ASSUME TypeOK, IInv, StatusInv, EndedInv, NEW k \in Killers, Kill(k) \/ KillerStep(k)
  PROVE  Calm
<1>0. Of(k) \in Agents
  BY OfType
<1>1. UNCHANGED <<gens, saved, worker, finished>>
  BY DEF Kill, KillerStep, AbortRun, KillMark, KillEnqueue, registryVars, contVars, workVars
<1>2. NoneRises /\ EndsOnce
  <2>1. CASE Kill(k)
    BY <1>0, <2>1, StatusSet DEF Kill, Terminal
  <2>2. CASE AbortRun(k) \/ KillEnqueue(k)
    BY <2>2, Untouched DEF AbortRun, KillEnqueue, EndsOnce, registryVars, noteVars
  <2>3. CASE KillMark(k)
    BY <1>0, <2>3, Untouched, Notified DEF KillMark, EndsOnce, noteVars
  <2> QED
    BY <2>1, <2>2, <2>3 DEF KillerStep
<1>3. \E l \in PCs : Goto(k, l)
  BY Labels DEF Kill, KillerStep, AbortRun, KillMark, KillEnqueue
<1>4. \A p \in Callers : pc'[p] = pc[p]
  BY <1>3, CallersOnly
<1> QED
  BY <1>1, <1>2, <1>4, OfType DEF Calm, HoldsPrevious

LEMMA SweeperCalm ==
  ASSUME TypeOK, IInv, StatusInv, EndedInv, SweepSnapshot \/ \E a \in Agents : SweepRemove(a)
  PROVE  Calm
<1>1. UNCHANGED <<gens, saved, worker, finished, pc, final>>
  BY DEF SweepSnapshot, SweepRemove, registryVars, contVars, workVars, callVars, noteVars
<1>2. NoneRises
  BY Untouched, Removed DEF SweepSnapshot, SweepRemove, SetEntry, registryVars
<1> QED
  BY <1>1, <1>2, OfType DEF Calm, HoldsPrevious, EndsOnce

\* A resume goes on only when it finds the id not running and its worker gone.
LEMMA SenderCalm ==
  ASSUME TypeOK, IInv, StatusInv, EndedInv, NEW s \in Senders, Route(s) \/ SenderStep(s)
  PROVE  Calm
<1>0. Of(s) \in Agents /\ s \in Callers /\ s \notin Agents
  BY OfType
<1>1. UNCHANGED <<gens, saved, worker, finished, final>>
  BY DEF Route, SenderStep, Queue, Requeue, QueueMessage, FetchContinuation, Precheck,
         AcquireLock, Recheck, WaitFinished, registryVars, contVars, workVars, noteVars
<1>2. NoneRises
  <2>1. CASE Queue(s) \/ Requeue(s)
    <3>1. CASE IsRunning(Of(s))
      BY <2>1, <3>1, InboxGrown DEF Queue, Requeue, QueueMessage
    <3>2. CASE ~IsRunning(Of(s))
      BY <2>1, <3>2, Untouched DEF Queue, Requeue, QueueMessage
    <3> QED
      BY <3>1, <3>2
  <2>2. CASE registry' = registry
    BY <2>2, Untouched
  <2> QED
    BY <2>1, <2>2 DEF Route, SenderStep, FetchContinuation, Precheck,
         AcquireLock, Recheck, WaitFinished, registryVars
<1>3. \E l \in PCs : /\ Goto(s, l)
                     /\ l \notin {"register", "continue", "thread", "undoTask"}
                     /\ l \in {"wait", "admit"} => ~IsRunning(Of(s))
  <2>1. CASE Route(s) \/ Queue(s) \/ Requeue(s) \/ FetchContinuation(s) \/ Precheck(s)
             \/ AcquireLock(s)
    BY <2>1, Labels DEF Route, Queue, Requeue, QueueMessage, FetchContinuation, Precheck,
                        AcquireLock
  <2>2. CASE Recheck(s)
    BY <2>2, Labels DEF Recheck
  <2>3. CASE WaitFinished(s)
    BY <2>3, Labels DEF WaitFinished, EndedInv
  <2> QED
    BY <2>1, <2>2, <2>3 DEF SenderStep
<1>4. ~IsRunning(Of(s)) => ~IsRunning(Of(s))'
  BY <1>0, <1>2 DEF NoneRises
<1>5. PICK l \in PCs : /\ pc' = [pc EXCEPT ![s] = l]
                       /\ l \notin {"register", "continue", "thread", "undoTask"}
                       /\ l \in {"wait", "admit"} => ~IsRunning(Of(s))'
  BY <1>3, <1>4 DEF Goto
<1>6. \A t \in Senders : /\ t # s => pc'[t] = pc[t]
                         /\ t = s => pc'[t] = l
  BY <1>0, <1>5 DEF TypeOK, Callers
<1>7. \A a \in Agents : pc'[a] = pc[a]
  BY <1>0, <1>5 DEF TypeOK, Callers
<1> QED
  BY <1>1, <1>2, <1>5, <1>6, <1>7 DEF Calm, HoldsPrevious, EndsOnce

\* While a first launch is under way nobody resumes the id, and what a launch
\* puts back was not running.
LEMMA LaunchCalm ==
  ASSUME TypeOK, IInv, StatusInv, EndedInv, NEW p \in Callers,
         Admit(p) \/ AdmitRefused(p) \/ LaunchStep(p), ~Register(p)
  PROVE  Calm
<1> DEFINE a == Of(p)
<1>0. a \in Agents
  BY OfType
<1>1. UNCHANGED <<gens, saved, final>>
  BY DEF Admit, AdmitRefused, LaunchStep, ClaimName, Continue, StartThread, StartFails,
         UndoTask, UndoCont, UndoFinished, UndoSlot, registryVars, noteVars
<1>2. /\ NoneRises
      /\ UndoTask(p) => ~IsRunning(a)'
  <2>1. CASE registry' = registry /\ ~UndoTask(p)
    BY <2>1, Untouched
  <2>2. CASE ClaimName(p) /\ registry' # registry
    BY <2>2, Removed, OfType DEF ClaimName, SetEntry, UndoTask
  <2>3. CASE UndoTask(p) /\ saved[p] = Absent
    BY <1>0, <2>3, Removed DEF UndoTask, SetEntry
  <2>4. CASE UndoTask(p) /\ saved[p] # Absent
    <3>1. p \in Senders /\ saved[p].status # "running" /\ saved[p].gen <= gens[a]
      BY <2>4 DEF UndoTask, IInv, FirstLaunchInv, StatusInv, HoldsPrevious, Callers
    <3>2. registry' = [registry EXCEPT ![a] = saved[p]]
      BY <2>4 DEF UndoTask, SetEntry
    <3> QED
      BY <1>0, <3>1, <3>2 DEF NoneRises, IsRunning, Present, StatusInv, TypeOK
  <2> QED
    BY <2>1, <2>2, <2>3, <2>4
    DEF Admit, AdmitRefused, LaunchStep, ClaimName, Continue, StartThread, StartFails,
        UndoTask, UndoCont, UndoFinished, UndoSlot, registryVars
<1>3. \A r \in Runs : worker'[r] \in EndedStates => worker[r] \in EndedStates
  BY DEF Admit, AdmitRefused, LaunchStep, ClaimName, Continue, StartThread, StartFails,
         UndoTask, UndoCont, UndoFinished, UndoSlot, workVars, EndedStates, TypeOK
<1>4. \E l \in PCs :
        /\ Goto(p, l)
        /\ l # "wait"
        /\ p \in Senders => /\ l \in {"admit", "register"} => pc[p] \in {"admit", "register"}
                            /\ l \in {"continue", "thread", "undoTask"} => HoldsPrevious(p)
        /\ p \in Agents /\ l \in {"undoCont", "undoFinished"} =>
               pc[p] \in {"undoCont", "undoFinished"} \/ UndoTask(p)
  BY Labels, OfType
  DEF Admit, AdmitRefused, LaunchStep, ClaimName, Continue, StartThread, StartFails,
      UndoTask, UndoCont, UndoFinished, UndoSlot, GiveUp, HoldsPrevious
<1>5. PICK l \in PCs :
        /\ pc' = [pc EXCEPT ![p] = l]
        /\ l # "wait"
        /\ p \in Senders => /\ l \in {"admit", "register"} => pc[p] \in {"admit", "register"}
                            /\ l \in {"continue", "thread", "undoTask"} => HoldsPrevious(p)
        /\ p \in Agents /\ l \in {"undoCont", "undoFinished"} =>
               pc[p] \in {"undoCont", "undoFinished"} \/ ~IsRunning(p)'
  BY <1>2, <1>4, OfType DEF Goto
<1>6. \A q \in Callers : pc'[q] = IF q = p THEN l ELSE pc[q]
  BY <1>5 DEF TypeOK
<1>7. \A s \in Senders : pc'[s] = "wait" /\ finished'[Of(s)] =>
        finished[Of(s)] \/ ~IsRunning(Of(s))'
  <2>1. CASE UndoFinished(p) /\ p \in Agents
    <3>1. ~IsRunning(a)'
      BY <1>0, <1>2, <2>1, OfType DEF UndoFinished, EndedInv, NoneRises
    <3> QED
      BY <2>1, <3>1, OfType DEF UndoFinished, TypeOK
  <2>2. CASE UndoFinished(p) /\ p \in Senders
    <3>1. \A s \in Senders : pc[s] = "wait" => Of(s) # a
      BY <2>2 DEF UndoFinished, IInv, LockInv, LockedPCs, UndoPCs
    <3>2. \A s \in Senders : pc'[s] = "wait" => pc[s] = "wait"
      BY <1>5, <1>6, OfType
    <3> QED
      BY <2>2, <3>1, <3>2, OfType DEF UndoFinished, TypeOK
  <2>3. CASE \A b \in Agents : finished'[b] => finished[b]
    BY <2>3, OfType
  <2>4. UndoFinished(p) \/ \A b \in Agents : finished'[b] => finished[b]
    BY DEF Admit, AdmitRefused, LaunchStep, ClaimName, Continue, StartThread, StartFails,
           UndoTask, UndoCont, UndoSlot, contVars, TypeOK
  <2> QED
    BY <2>1, <2>2, <2>3, <2>4 DEF Callers
<1>8. \A s \in Senders : /\ pc'[s] = "wait" => pc[s] = "wait"
                         /\ pc'[s] \in {"admit", "register"} => pc[s] \in {"admit", "register"}
                         /\ HoldsPrevious(s)' => HoldsPrevious(s)
  BY <1>5, <1>6, OfType DEF HoldsPrevious
<1>9. \A b \in Agents : pc'[b] \in {"undoCont", "undoFinished"} =>
        pc[b] \in {"undoCont", "undoFinished"} \/ ~IsRunning(b)'
  BY <1>5, <1>6, OfType
<1> QED
  BY <1>1, <1>2, <1>3, <1>7, <1>8, <1>9 DEF Calm, EndsOnce

LEMMA NextCalm ==
  ASSUME TypeOK, IInv, StatusInv, EndedInv, [Next]_vars
  PROVE  Calm \/ \E p \in Callers : Register(p)
<1>1. CASE UNCHANGED vars
  <2>1. UNCHANGED <<registry, gens, saved, final, worker, pc, finished>>
    BY <1>1 DEF vars, registryVars, contVars, callVars, workVars, noteVars
  <2> QED
    BY <2>1, Untouched, OfType DEF Calm, HoldsPrevious, EndsOnce
<1> QED
  BY <1>1, WorkerCalm, KillerCalm, SweeperCalm, SenderCalm, LaunchCalm DEF Next, LaunchStep

LEMMA InitStatus == Init => StatusInv /\ EndedInv
BY OfType DEF Init, StatusInv, EndedInv, EndedStates, HoldsPrevious, IsRunning, Present,
              Runs, Callers

LEMMA CalmKeeps ==
  ASSUME TypeOK, StatusInv, EndedInv, Calm
  PROVE  StatusInv' /\ EndedInv'
<1>1. \A a \in Agents : IsRunning(a)' => final'[Run(a)'] = "none"
  <2> SUFFICES ASSUME NEW a \in Agents, IsRunning(a)' PROVE final'[Run(a)'] = "none"
    OBVIOUS
  <2>1. IsRunning(a) /\ Run(a)' = Run(a)
    BY DEF Calm, NoneRises, Run
  <2>2. Run(a) \in Runs /\ Run(a)[1] = a
    BY <2>1, RunFact DEF IsRunning
  <2>3. final'[Run(a)] = final[Run(a)]
    BY <2>2 DEF Calm, EndsOnce
  <2> QED
    BY <2>1, <2>3 DEF StatusInv
<1>2. \A r \in Runs : r[2] > gens'[r[1]] => final'[r] = "none"
  <2> SUFFICES ASSUME NEW r \in Runs, r[2] > gens[r[1]] PROVE final'[r] = "none"
    BY DEF Calm
  <2> DEFINE a == r[1]
  <2>1. a \in Agents /\ gens[a] \in Nat
    BY DEF Runs, TypeOK
  <2>2. ~(IsRunning(a) /\ r = Run(a))
    <3> SUFFICES ASSUME IsRunning(a), r = Run(a) PROVE FALSE
      OBVIOUS
    <3>1. r[2] = registry[a].gen /\ registry[a].gen \in Gens
      BY <2>1, RunFact, EntryFacts DEF IsRunning
    <3>2. registry[a].gen <= gens[a]
      BY <2>1 DEF StatusInv, IsRunning
    <3> QED
      BY <2>1, <3>1, <3>2, BoundsAssumption DEF Gens
  <2> QED
    BY <2>2 DEF Calm, EndsOnce, StatusInv
<1>3. StatusInv'
  BY <1>1, <1>2, OfType DEF Calm, StatusInv, NoneRises, Of, HoldsPrevious
<1>4. EndedInv'
  <2>1. \A a \in Agents : IsRunning(a)' => IsRunning(a)
    BY DEF Calm, NoneRises
  <2>2. \A r \in Runs : r[1] \in Agents
    BY DEF Runs
  <2> QED
    BY <2>1, <2>2, OfType DEF Calm, EndedInv, Of
<1> QED
  BY <1>3, <1>4

\* A registration makes an entry running, of a generation that is new. Nobody
\* relies on the id not running: its worker is gone and no other caller is
\* under its lock.
LEMMA RegisterKeeps ==
  ASSUME TypeOK, IInv, StatusInv, EndedInv, NEW p \in Callers, Register(p)
  PROVE  StatusInv' /\ EndedInv'
<1> DEFINE a == Of(p)
           g == gens[a] + 1
           e == [gen |-> g, status |-> "running", notified |-> FALSE, pending |-> <<>>]
<1>0. a \in Agents /\ gens[a] \in Nat /\ g \in Gens
  BY OfType, BoundsAssumption DEF Register, TypeOK, Gens
<1>1. /\ registry' = [registry EXCEPT ![a] = e]
      /\ gens' = [gens EXCEPT ![a] = g]
      /\ saved' = [saved EXCEPT ![p] = registry[a]]
      /\ UNCHANGED <<final, worker, finished>>
      /\ pc' = [pc EXCEPT ![p] = IF p \in Senders THEN "continue" ELSE "claim"]
  BY <1>0 DEF Register, SetEntry, contVars, workVars, noteVars, Goto
<1>2. \A b \in Agents : b # a =>
        (IsRunning(b)' <=> IsRunning(b)) /\ (Present(b)' <=> Present(b))
          /\ registry'[b] = registry[b] /\ gens'[b] = gens[b]
  BY <1>0, <1>1 DEF TypeOK, IsRunning, Present
<1>3. registry'[a] = e /\ gens'[a] = g /\ \A b \in Agents : gens[b] <= gens'[b]
  BY <1>0, <1>1 DEF TypeOK
<1>4. NoWorker(a) /\ ~IsRunning(a)
  <2>1. CASE p \in Senders
    BY <1>0, <2>1 DEF Register, IInv, ResumeInv, WorkerInv, FinishedMeansGone, NoWorker,
                      EndedInv
  <2>2. CASE p \in Agents
    BY <2>2, OfType DEF Register, IInv, FirstLaunchInv, PreFinish, IsRunning, Present
  <2> QED
    BY <2>1, <2>2 DEF Callers
<1>5. \A b \in Agents : IsRunning(b)' => final'[Run(b)'] = "none"
  <2>1. final[<<a, g>>] = "none"
    <3>1. <<a, g>> \in Runs
      BY <1>0 DEF Runs
    <3> QED
      BY <1>0, <3>1 DEF StatusInv
  <2>2. Run(a)' = <<a, g>>
    BY <1>3 DEF Run
  <2> QED
    BY <1>1, <1>2, <2>1, <2>2 DEF StatusInv, Run
<1>6. \A r \in Runs : r[2] > gens'[r[1]] => final'[r] = "none"
  <2>1. \A r \in Runs : r[1] \in Agents /\ r[2] \in Nat
    BY BoundsAssumption DEF Runs, Gens
  <2>2. \A b \in Agents : gens[b] \in Nat /\ gens'[b] \in Nat
    BY <1>0, <1>2, <1>3 DEF TypeOK
  <2> QED
    BY <1>1, <1>3, <2>1, <2>2 DEF StatusInv
<1>7. \A b \in Agents : Present(b)' => registry'[b].gen <= gens'[b]
  BY <1>0, <1>2, <1>3 DEF StatusInv
<1>8. \A s \in Senders : HoldsPrevious(s)' /\ saved'[s] # Absent =>
        saved'[s].status # "running" /\ saved'[s].gen <= gens'[Of(s)]
  <2> SUFFICES ASSUME NEW s \in Senders, HoldsPrevious(s)', saved'[s] # Absent
               PROVE  saved'[s].status # "running" /\ saved'[s].gen <= gens'[Of(s)]
    OBVIOUS
  <2>1. CASE s = p
    <3>1. saved'[s] = registry[a]
      BY <1>1, <2>1 DEF TypeOK
    <3>2. registry[a].status # "running" /\ registry[a].gen <= gens[a]
      BY <1>0, <1>4, <2>1, <3>1 DEF StatusInv, IsRunning, Present
    <3>3. registry[a].gen \in Nat
      BY <1>0, <2>1, <3>1, RunFact, EntryFacts, BoundsAssumption DEF Present, Gens
    <3> QED
      BY <1>0, <1>3, <2>1, <3>1, <3>2, <3>3
  <2>2. CASE s # p
    <3>1. HoldsPrevious(s) /\ saved'[s] = saved[s]
      BY <1>1, <2>2, OfType DEF TypeOK, HoldsPrevious, Callers
    <3>2. saved[s].status # "running" /\ saved[s].gen <= gens[Of(s)]
      BY <3>1 DEF StatusInv
    <3>3. saved[s].gen \in Nat
      <4>1. saved[s] \in Entry
        BY <3>1, OfType DEF TypeOK
      <4> QED
        BY <4>1, EntryFacts, BoundsAssumption DEF Gens
    <3>4. gens[Of(s)] \in Nat /\ gens'[Of(s)] \in Nat /\ gens[Of(s)] <= gens'[Of(s)]
      BY <1>0, <1>2, <1>3, OfType DEF TypeOK
    <3> QED
      BY <3>1, <3>2, <3>3, <3>4
  <2> QED
    BY <2>1, <2>2
<1>9. StatusInv'
  BY <1>5, <1>6, <1>7, <1>8 DEF StatusInv, Of
<1>10. \A r \in Runs : worker'[r] \in EndedStates => ~IsRunning(r[1])'
  <2> SUFFICES ASSUME NEW r \in Runs, worker[r] \in EndedStates PROVE ~IsRunning(r[1])'
    BY <1>1
  <2>1. r[1] \in Agents /\ r[2] \in Gens /\ r = <<r[1], r[2]>>
    BY DEF Runs
  <2>2. Alive(r)
    BY DEF Alive, AliveStates, EndedStates
  <2>3. r[1] # a
    BY <1>4, <2>1, <2>2 DEF NoWorker
  <2> QED
    BY <1>2, <2>1, <2>3 DEF EndedInv
<1>11. \A s \in Senders :
         pc'[s] \in {"admit", "register"} \/ (pc'[s] = "wait" /\ finished'[Of(s)])
           => ~IsRunning(Of(s))'
  <2> SUFFICES ASSUME NEW s \in Senders,
                 pc'[s] \in {"admit", "register"} \/ (pc'[s] = "wait" /\ finished'[Of(s)])
               PROVE  ~IsRunning(Of(s))'
    OBVIOUS
  <2>1. s # p /\ pc[s] = pc'[s] /\ pc[s] \in LockedPCs
    BY <1>1, OfType DEF TypeOK, LockedPCs, LaunchPCs, Callers
  <2>2. ~IsRunning(Of(s))
    BY <1>1, <2>1 DEF EndedInv
  <2>3. Of(s) # a
    <3>1. CASE p \in Senders
      BY <2>1, <3>1 DEF Register, IInv, LockInv, LockedPCs, LaunchPCs
    <3>2. CASE p \in Agents
      <4>1. Of(s) = p => ~finished[p] /\ ~Resuming(s)
        BY <3>2 DEF Register, IInv, FirstLaunchInv, PreFinish
      <4> QED
        BY <1>1, <2>1, <3>2, <4>1, OfType DEF Resuming, LaunchPCs
    <3> QED
      BY <3>1, <3>2 DEF Callers
  <2> QED
    BY <1>2, <2>2, <2>3, OfType
<1>12. \A b \in Agents : pc'[b] \in {"undoCont", "undoFinished"} => ~IsRunning(b)'
  <2> SUFFICES ASSUME NEW b \in Agents, pc'[b] \in {"undoCont", "undoFinished"}
               PROVE  ~IsRunning(b)'
    OBVIOUS
  <2>1. b # p /\ pc[b] = pc'[b]
    BY <1>1, OfType DEF TypeOK, Callers
  <2>2. b # a
    <3>1. CASE p \in Senders
      BY <2>1, <3>1 DEF Register, IInv, FirstLaunchInv, PreFinish, Resuming, LaunchPCs
    <3> QED
      BY <2>1, <3>1, OfType DEF Callers
  <2> QED
    BY <1>2, <2>1, <2>2 DEF EndedInv
<1>13. EndedInv'
  <2>1. \A s \in Senders :
          /\ pc'[s] = "wait" /\ finished'[Of(s)] => ~IsRunning(Of(s))'
          /\ pc'[s] \in {"admit", "register"} => ~IsRunning(Of(s))'
    BY <1>11
  <2> QED
    BY <1>10, <1>12, <2>1 DEF EndedInv, Of
<1> QED
  BY <1>9, <1>13

LEMMA StatusStep ==
  TypeOK /\ IInv /\ StatusInv /\ EndedInv /\ [Next]_vars => StatusInv' /\ EndedInv'
BY NextCalm, CalmKeeps, RegisterKeeps

\* A status is final, in one step.
FinalKept == \A r \in Runs : final[r] # "none" => final'[r] = final[r]

LEMMA FinalStep == TypeOK /\ IInv /\ StatusInv /\ EndedInv /\ [Next]_vars => FinalKept
<1> SUFFICES ASSUME TypeOK, IInv, StatusInv, EndedInv, [Next]_vars PROVE FinalKept
  OBVIOUS
<1>1. CASE Calm
  BY <1>1 DEF Calm, EndsOnce, StatusInv, Runs, FinalKept
<1>2. CASE \E p \in Callers : Register(p)
  BY <1>2 DEF Register, noteVars, FinalKept
<1> QED
  BY <1>1, <1>2, NextCalm

\* A status is final within its generation: whoever of a completion, a failure
\* and a kill comes first decides, across resumes, evictions and failed launches.
THEOREM FinalStatus == Spec => TerminalIsFinal
<1>1. TypeOK /\ IInv /\ StatusInv /\ EndedInv /\ [Next]_vars
        => [\A r \in Runs : final[r] # "none" => final'[r] = final[r]]_vars
  BY FinalStep DEF FinalKept
<1> QED
  BY InitType, NextType, InitIInv, IInvStep, InitSlotInv, SlotStep, InitStatus, StatusStep,
     <1>1, PTL DEF Spec, TerminalIsFinal

-----------------------------------------------------------------------------
(***************************************************************************)
(* Messages. A message is at one place: with its sender, in one inbox, or  *)
(* in the history of its agent. A launch that fails puts an old inbox      *)
(* back, which is safe only because no worker of the id was there to drain *)
(* it meanwhile.                                                           *)
(***************************************************************************)
Has(q, s) == \E i \in 1..Len(q) : q[i] = s
NoRepeats(q) == \A i, j \in 1..Len(q) : q[i] = q[j] => i = j
\* What inbox q holds was queued, and is not in history h.
Fresh(q, h, at) ==
  NoRepeats(q) /\ \A s \in Senders : Has(q, s) => at[s] = "queued" /\ ~Has(h, s)

InboxInv ==
  /\ \A a \in Agents : /\ NoRepeats(history[a])
                       /\ \A s \in Senders : Has(history[a], s) => pc[s] \in {"queued", "resumed"}
                       /\ Present(a) => Fresh(registry[a].pending, history[a], pc)
  /\ \A s \in Senders : HoldsPrevious(s) /\ saved[s] # Absent =>
       Fresh(saved[s].pending, history[Of(s)], pc)

\* Sequences.
LEMMA EmptyHas ==
  NoRepeats(<<>>) /\ \A s \in Senders : ~Has(<<>>, s)
BY DEF NoRepeats, Has

LEMMA AppendHas ==
  ASSUME NEW q \in Seq(Senders), NEW s \in Senders
  PROVE  /\ \A t \in Senders : Has(Append(q, s), t) <=> Has(q, t) \/ t = s
         /\ NoRepeats(q) /\ ~Has(q, s) => NoRepeats(Append(q, s))
<1>1. ASSUME NEW t \in Senders PROVE Has(q, t) \/ t = s => Has(Append(q, s), t)
  <2>1. CASE t = s
    BY <2>1 DEF Has
  <2>2. CASE Has(q, t)
    <3>1. PICK i \in 1..Len(q) : q[i] = t
      BY <2>2 DEF Has
    <3>2. i \in 1..Len(Append(q, s)) /\ Append(q, s)[i] = t
      BY <3>1
    <3> QED
      BY <3>2 DEF Has
  <2> QED
    BY <1>1, <2>1, <2>2
<1>2. ASSUME NEW t \in Senders, Has(Append(q, s), t) PROVE Has(q, t) \/ t = s
  <2>1. PICK i \in 1..Len(Append(q, s)) : Append(q, s)[i] = t
    BY <1>2 DEF Has
  <2>2. CASE i = Len(q) + 1
    BY <2>1, <2>2
  <2>3. CASE i # Len(q) + 1
    <3>1. i \in 1..Len(q) /\ q[i] = t
      BY <2>1, <2>3
    <3> QED
      BY <3>1 DEF Has
  <2> QED
    BY <2>2, <2>3
<1>3. NoRepeats(q) /\ ~Has(q, s) => NoRepeats(Append(q, s))
  BY DEF NoRepeats, Has
<1> QED
  BY <1>1, <1>2, <1>3

LEMMA ConcatHas ==
  ASSUME NEW h \in Seq(Senders), NEW q \in Seq(Senders)
  PROVE  /\ \A t \in Senders : Has(h \o q, t) <=> Has(h, t) \/ Has(q, t)
         /\ NoRepeats(h) /\ NoRepeats(q) /\ (\A t \in Senders : Has(q, t) => ~Has(h, t))
              => NoRepeats(h \o q)
<1>0. /\ h \o q \in Seq(Senders) /\ Len(h \o q) = Len(h) + Len(q)
      /\ Len(h) \in Nat /\ Len(q) \in Nat
      /\ \A i \in 1..Len(h) : (h \o q)[i] = h[i]
      /\ \A i \in 1..Len(q) : (h \o q)[Len(h) + i] = q[i]
  OBVIOUS
<1>1. ASSUME NEW t \in Senders, Has(h, t) \/ Has(q, t) PROVE Has(h \o q, t)
  <2>1. CASE Has(h, t)
    <3>1. PICK i \in 1..Len(h) : h[i] = t
      BY <2>1 DEF Has
    <3>2. i \in 1..Len(h \o q) /\ (h \o q)[i] = t
      BY <1>0, <3>1
    <3> QED
      BY <3>2 DEF Has
  <2>2. CASE Has(q, t)
    <3>1. PICK i \in 1..Len(q) : q[i] = t
      BY <2>2 DEF Has
    <3>2. Len(h) + i \in 1..Len(h \o q) /\ (h \o q)[Len(h) + i] = t
      BY <1>0, <3>1
    <3> QED
      BY <3>2 DEF Has
  <2> QED
    BY <1>1, <2>1, <2>2
<1>2. ASSUME NEW t \in Senders, Has(h \o q, t) PROVE Has(h, t) \/ Has(q, t)
  <2>1. PICK i \in 1..Len(h \o q) : (h \o q)[i] = t
    BY <1>2 DEF Has
  <2>2. CASE i \in 1..Len(h)
    BY <1>0, <2>1, <2>2 DEF Has
  <2>3. CASE i \notin 1..Len(h)
    <3>1. i - Len(h) \in 1..Len(q) /\ q[i - Len(h)] = t
      BY <1>0, <2>1, <2>3
    <3> QED
      BY <3>1 DEF Has
  <2> QED
    BY <2>2, <2>3
<1>3. ASSUME NoRepeats(h), NoRepeats(q), \A t \in Senders : Has(q, t) => ~Has(h, t)
      PROVE  NoRepeats(h \o q)
  <2> SUFFICES ASSUME NEW i \in 1..Len(h \o q), NEW j \in 1..Len(h \o q),
                      (h \o q)[i] = (h \o q)[j]
               PROVE  i = j
    BY DEF NoRepeats
  <2>1. ASSUME NEW m \in 1..Len(h), NEW n \in 1..Len(q) PROVE h[m] # q[n]
    <3>1. h[m] \in Senders /\ Has(h, h[m])
      BY DEF Has
    <3>2. Has(q, q[n])
      BY DEF Has
    <3> QED
      BY <1>3, <3>1, <3>2
  <2>2. CASE i \in 1..Len(h) /\ j \in 1..Len(h)
    BY <1>0, <1>3, <2>2 DEF NoRepeats
  <2>3. CASE i \in 1..Len(h) /\ j \notin 1..Len(h)
    <3>1. j - Len(h) \in 1..Len(q) /\ (h \o q)[j] = q[j - Len(h)]
      BY <1>0, <2>3
    <3> QED
      BY <1>0, <2>1, <2>3, <3>1
  <2>4. CASE i \notin 1..Len(h) /\ j \in 1..Len(h)
    <3>1. i - Len(h) \in 1..Len(q) /\ (h \o q)[i] = q[i - Len(h)]
      BY <1>0, <2>4
    <3> QED
      BY <1>0, <2>1, <2>4, <3>1
  <2>5. CASE i \notin 1..Len(h) /\ j \notin 1..Len(h)
    <3>1. /\ j - Len(h) \in 1..Len(q) /\ (h \o q)[j] = q[j - Len(h)]
          /\ i - Len(h) \in 1..Len(q) /\ (h \o q)[i] = q[i - Len(h)]
      BY <1>0, <2>5
    <3>2. i - Len(h) = j - Len(h)
      BY <1>3, <3>1 DEF NoRepeats
    <3> QED
      BY <1>0, <3>2
  <2> QED
    BY <2>2, <2>3, <2>4, <2>5
<1> QED
  BY <1>1, <1>2, <1>3

\* What a step does to inboxes and histories.
SameInboxes ==
  /\ UNCHANGED history
  /\ \A a \in Agents : Present(a)' => Present(a) /\ registry'[a].pending = registry[a].pending
Drains(a) ==
  /\ \E r \in Runs : r[1] = a /\ Alive(r)
  /\ Present(a)
  /\ TakeInbox(a)
  /\ UNCHANGED <<pc, final>>
Posts(s) ==
  /\ pc[s] \in {"queue", "requeue"}
  /\ IsRunning(Of(s))
  /\ registry' = [registry EXCEPT ![Of(s)].pending = Append(@, s)]
  /\ queuedTo' = [queuedTo EXCEPT ![s] = registry[Of(s)].gen]
  /\ Goto(s, "queued")
  /\ UNCHANGED <<history, gens, final>>

\* A message that was queued, or started a run, stays so.
LEMMA SentStays ==
  ASSUME TypeOK, [Next]_vars
  PROVE  \A s \in Senders : pc[s] \in {"queued", "resumed"} => pc'[s] = pc[s]
<1> SUFFICES ASSUME NEW s \in Senders, pc[s] \in {"queued", "resumed"} PROVE pc'[s] = pc[s]
  OBVIOUS
<1>1. ASSUME NEW p, NEW l, Goto(p, l), p # s PROVE pc'[s] = pc[s]
  BY <1>1 DEF Goto, TypeOK, Callers
<1>2. ASSUME NEW p \in Callers, Admit(p) \/ AdmitRefused(p) \/ LaunchStep(p)
      PROVE  pc'[s] = pc[s]
  <2>1. p # s
    BY <1>2, OfType
    DEF Admit, AdmitRefused, LaunchStep, Register, ClaimName, Continue, StartThread,
        StartFails, UndoTask, UndoCont, UndoFinished, UndoSlot
  <2>2. \E l : Goto(p, l)
    BY <1>2
    DEF Admit, AdmitRefused, LaunchStep, Register, ClaimName, Continue, StartThread,
        StartFails, UndoTask, UndoCont, UndoFinished, UndoSlot, GiveUp
  <2> QED
    BY <1>1, <2>1, <2>2
<1>3. ASSUME NEW t \in Senders, Route(t) \/ SenderStep(t) PROVE pc'[s] = pc[s]
  <2>1. t # s
    BY <1>3 DEF Route, SenderStep, Queue, Requeue, FetchContinuation, Precheck,
                AcquireLock, Recheck, WaitFinished
  <2>2. \E l : Goto(t, l)
    BY <1>3 DEF Route, SenderStep, Queue, Requeue, QueueMessage, FetchContinuation,
                Precheck, AcquireLock, Recheck, WaitFinished
  <2> QED
    BY <1>1, <2>1, <2>2
<1>4. ASSUME NEW k \in Killers, Kill(k) \/ KillerStep(k) PROVE pc'[s] = pc[s]
  <2>1. \E l : Goto(k, l)
    BY <1>4 DEF Kill, KillerStep, AbortRun, KillMark, KillEnqueue
  <2> QED
    BY <1>1, <2>1, ActorsAssumption
<1>5. ASSUME \/ \E r \in Runs : WorkerStep(r)
             \/ SweepSnapshot \/ \E a \in Agents : SweepRemove(a)
             \/ UNCHANGED vars
      PROVE  pc'[s] = pc[s]
  BY <1>5 DEF WorkerStep, WorkerCleanup, DrainRound, CompleteOrDrain, RunRaises, FailTask,
              MarkNotified, EnqueueNotice, ReleaseSlot, SetFinished, SweepSnapshot,
              SweepRemove, vars, callVars
<1> QED
  BY <1>2, <1>3, <1>4, <1>5 DEF Next

\* An update that leaves the inbox alone.
LEMMA SameInbox ==
  ASSUME TypeOK, NEW a \in Agents, NEW e \in Entry \cup {Absent},
         e # Absent => Present(a) /\ e.pending = registry[a].pending,
         registry' = [registry EXCEPT ![a] = e], UNCHANGED history
  PROVE  SameInboxes
BY DEF TypeOK, SameInboxes, Present

LEMMA StatusSame ==
  ASSUME TypeOK, NEW a \in Agents, Present(a), NEW st \in Terminal, SetStatus(a, st),
         UNCHANGED history
  PROVE  SameInboxes
<1>1. registry[a] \in Entry
  BY RunFact
<1>2. PICK e \in Entry : /\ registry' = [registry EXCEPT ![a] = e]
                         /\ e.pending = registry[a].pending
  BY <1>1, StatusUpdate DEF SetStatus
<1> QED
  BY <1>2, SameInbox

LEMMA NotifiedSame ==
  ASSUME TypeOK, NEW a \in Agents, Present(a),
         registry' = [registry EXCEPT ![a].notified = TRUE], UNCHANGED history
  PROVE  SameInboxes
<1>1. registry[a] \in Entry
  BY RunFact
<1>2. PICK e \in Entry : /\ registry' = [registry EXCEPT ![a] = e]
                         /\ e.pending = registry[a].pending
  BY <1>1, NotifiedUpdate
<1> QED
  BY <1>2, SameInbox

\* Every step is one of six kinds.
LEMMA InboxCases ==
  ASSUME TypeOK, [Next]_vars
  PROVE  \/ SameInboxes
         \/ \E a \in Agents : Drains(a)
         \/ \E s \in Senders : Posts(s)
         \/ \E s \in Senders : StartThread(s)
         \/ \E s \in Senders : UndoTask(s) /\ saved[s] # Absent
         \/ \E a \in Agents : UndoTask(a) /\ saved[a] # Absent
         \/ \E p \in Callers : Register(p)
<1>0. registry' = registry /\ history' = history => SameInboxes
  BY DEF SameInboxes, Present
<1>1. ASSUME NEW p \in Callers, Admit(p) \/ AdmitRefused(p) \/ Continue(p) \/ StartFails(p)
               \/ UndoCont(p) \/ UndoFinished(p) \/ UndoSlot(p)
      PROVE  SameInboxes
  BY <1>0, <1>1
  DEF Admit, AdmitRefused, Continue, StartFails, UndoCont, UndoFinished, UndoSlot,
      registryVars, msgVars
<1>2. ASSUME NEW p \in Callers, ClaimName(p) PROVE SameInboxes
  BY <1>0, <1>2, SameInbox DEF ClaimName, SetEntry, msgVars
<1>3. ASSUME NEW p \in Callers, UndoTask(p), saved[p] = Absent PROVE SameInboxes
  BY <1>3, SameInbox, OfType DEF UndoTask, SetEntry, msgVars
<1>4. ASSUME NEW a \in Agents, StartThread(a) PROVE SameInboxes
  BY <1>0, <1>4, OfType DEF StartThread, registryVars
<1>5. ASSUME NEW s \in Senders, Route(s) \/ SenderStep(s) PROVE SameInboxes \/ Posts(s)
  <2>1. CASE (Queue(s) \/ Requeue(s)) /\ IsRunning(Of(s))
    BY <2>1 DEF Queue, Requeue, QueueMessage, Posts, noteVars
  <2>2. CASE (Queue(s) \/ Requeue(s)) /\ ~IsRunning(Of(s))
    BY <1>0, <2>2 DEF Queue, Requeue, QueueMessage
  <2> QED
    BY <1>0, <1>5, <2>1, <2>2
    DEF Route, SenderStep, FetchContinuation, Precheck, AcquireLock, Recheck, WaitFinished,
        registryVars, msgVars
<1>6. ASSUME NEW r \in Runs, WorkerStep(r) PROVE SameInboxes \/ Drains(r[1])
  <2>0. r[1] \in Agents
    BY DEF Runs
  <2>1. CASE DrainRound(r)
    BY <2>1 DEF DrainRound, Drains, At, Alive, AliveStates, callVars, noteVars
  <2>2. CASE CompleteOrDrain(r) /\ ~IsRunning(r[1])
    BY <1>0, <2>2 DEF CompleteOrDrain
  <2>3. CASE CompleteOrDrain(r) /\ IsRunning(r[1]) /\ registry[r[1]].pending # <<>>
    BY <2>3 DEF CompleteOrDrain, Drains, At, Alive, AliveStates, callVars, IsRunning
  <2>4. CASE CompleteOrDrain(r) /\ IsRunning(r[1]) /\ registry[r[1]].pending = <<>>
    BY <2>0, <2>4, StatusSame DEF CompleteOrDrain, Terminal, IsRunning
  <2>5. CASE FailTask(r)
    BY <1>0, <2>0, <2>5, StatusSame DEF FailTask, Terminal, IsRunning, msgVars
  <2>6. CASE MarkNotified(r)
    BY <1>0, <2>0, <2>6, NotifiedSame DEF MarkNotified, msgVars
  <2> QED
    BY <1>0, <1>6, <2>1, <2>2, <2>3, <2>4, <2>5, <2>6
    DEF WorkerStep, WorkerCleanup, RunRaises, EnqueueNotice, ReleaseSlot, SetFinished,
        registryVars, msgVars
<1>7. ASSUME NEW k \in Killers, Kill(k) \/ KillerStep(k) PROVE SameInboxes
  <2>1. CASE Kill(k)
    BY <2>1, StatusSame, OfType DEF Kill, Terminal, IsRunning, msgVars
  <2>2. CASE KillMark(k)
    BY <1>0, <2>2, NotifiedSame, OfType DEF KillMark, msgVars
  <2> QED
    BY <1>0, <1>7, <2>1, <2>2 DEF KillerStep, AbortRun, KillEnqueue, registryVars, msgVars
<1>8. ASSUME SweepSnapshot \/ \E a \in Agents : SweepRemove(a) PROVE SameInboxes
  BY <1>0, <1>8, SameInbox DEF SweepSnapshot, SweepRemove, SetEntry, registryVars, msgVars
<1>9. CASE UNCHANGED vars
  BY <1>0, <1>9 DEF vars, registryVars, msgVars
<1>10. \A r \in Runs : r[1] \in Agents
  BY DEF Runs
<1> QED
  BY <1>1, <1>2, <1>3, <1>4, <1>5, <1>6, <1>7, <1>8, <1>9, <1>10
  DEF Next, LaunchStep, Callers

\* Senders that were served stay so: what is fresh stays fresh.
LEMMA FreshKept ==
  ASSUME NEW q, NEW h, NEW at, NEW next, Fresh(q, h, at),
         \A s \in Senders : at[s] = "queued" => next[s] = "queued"
  PROVE  Fresh(q, h, next)
BY DEF Fresh

\* ... also when another sender's message gets into the history.
LEMMA FreshPast ==
  ASSUME NEW q, NEW h, NEW k, NEW at, NEW next, Fresh(q, h, at),
         \A s \in Senders : at[s] = "queued" => next[s] = "queued",
         \A s \in Senders : Has(k, s) => Has(h, s) \/ at[s] # "queued"
  PROVE  Fresh(q, k, next)
BY DEF Fresh

LEMMA EmptyFresh ==
  ASSUME NEW h, NEW at
  PROVE  Fresh(<<>>, h, at)
BY EmptyHas DEF Fresh

LEMMA InitInbox == Init => InboxInv
BY EmptyHas, OfType DEF Init, InboxInv, Present, HoldsPrevious, Callers

LEMMA InboxesTyped ==
  ASSUME TypeOK, NEW a \in Agents
  PROVE  /\ history[a] \in Seq(Senders)
         /\ Present(a) => registry[a].pending \in Seq(Senders)
BY RunFact, EntryFacts DEF TypeOK

LEMMA SameKeeps ==
  ASSUME InboxInv, SameInboxes,
         \A s \in Senders : pc[s] \in {"queued", "resumed"} => pc'[s] = pc[s],
         \A s \in Senders : HoldsPrevious(s)' => HoldsPrevious(s) /\ saved'[s] = saved[s]
  PROVE  InboxInv'
<1>1. ASSUME NEW a \in Agents
      PROVE  /\ NoRepeats(history'[a])
             /\ \A s \in Senders : Has(history'[a], s) => pc'[s] \in {"queued", "resumed"}
  BY DEF InboxInv, SameInboxes
<1>2. ASSUME NEW a \in Agents, Present(a)' PROVE Fresh(registry'[a].pending, history'[a], pc')
  <2>1. Fresh(registry[a].pending, history[a], pc)
    BY <1>2 DEF InboxInv, SameInboxes
  <2> QED
    BY <1>2, <2>1, FreshKept DEF SameInboxes
<1>3. ASSUME NEW s \in Senders, HoldsPrevious(s)', saved'[s] # Absent
      PROVE  Fresh(saved'[s].pending, history'[Of(s)], pc')
  <2>1. Fresh(saved[s].pending, history[Of(s)], pc)
    BY <1>3 DEF InboxInv
  <2> QED
    BY <1>3, <2>1, FreshKept DEF SameInboxes
<1> QED
  BY <1>1, <1>2, <1>3 DEF InboxInv, Of

\* The run takes the inbox: no resume holds an old one, since a worker is there.
LEMMA DrainKeeps ==
  ASSUME TypeOK, IInv, InboxInv, NEW a \in Agents, Drains(a),
         \A s \in Senders : HoldsPrevious(s)' => HoldsPrevious(s) /\ saved'[s] = saved[s]
  PROVE  InboxInv'
<1> DEFINE h == history[a]
           q == registry[a].pending
<1>1. /\ h \in Seq(Senders) /\ q \in Seq(Senders) /\ Present(a)
      /\ Fresh(q, h, pc) /\ NoRepeats(h)
  BY InboxesTyped DEF Drains, InboxInv
<1>2. /\ \A t \in Senders : Has(h \o q, t) <=> Has(h, t) \/ Has(q, t)
      /\ NoRepeats(h \o q)
  <2> HIDE DEF h, q
  <2> QED
    BY <1>1, ConcatHas DEF Fresh
<1>3. /\ history' = [history EXCEPT ![a] = h \o q]
      /\ registry' = [registry EXCEPT ![a] = [registry[a] EXCEPT !.pending = <<>>]]
      /\ pc' = pc
  BY DEF Drains, TakeInbox
<1>4. /\ history'[a] = h \o q
      /\ \A b \in Agents : b # a => history'[b] = history[b] /\ registry'[b] = registry[b]
  BY <1>3 DEF TypeOK
<1>5. registry'[a].pending = <<>>
  <2>1. registry[a] \in Entry
    BY <1>1, RunFact
  <2>2. <<>> \in Seq(Senders)
    OBVIOUS
  <2>3. registry'[a] = [registry[a] EXCEPT !.pending = <<>>]
    BY <1>3 DEF TypeOK
  <2> QED
    BY <2>1, <2>2, <2>3, PendingUpdate
<1>6. \A s \in Senders : HoldsPrevious(s) => Of(s) # a
  BY DEF Drains, IInv, ResumeInv, WorkerInv, FinishedMeansGone, NoWorker, UndoPCs, Runs,
         HoldsPrevious
<1>7. ASSUME NEW b \in Agents
      PROVE  /\ NoRepeats(history'[b])
             /\ \A s \in Senders : Has(history'[b], s) => pc'[s] \in {"queued", "resumed"}
  BY <1>1, <1>2, <1>3, <1>4 DEF InboxInv, Fresh
<1>8. ASSUME NEW b \in Agents, Present(b)' PROVE Fresh(registry'[b].pending, history'[b], pc')
  <2>1. CASE b = a
    BY <1>5, <2>1, EmptyFresh
  <2>2. CASE b # a
    BY <1>3, <1>4, <1>8, <2>2 DEF InboxInv, Present
  <2> QED
    BY <2>1, <2>2
<1>9. ASSUME NEW s \in Senders, HoldsPrevious(s)', saved'[s] # Absent
      PROVE  Fresh(saved'[s].pending, history'[Of(s)], pc')
  BY <1>3, <1>4, <1>6, <1>9, OfType DEF InboxInv
<1> QED
  BY <1>7, <1>8, <1>9 DEF InboxInv, Of

LEMMA PostKeeps ==
  ASSUME TypeOK, InboxInv, NEW s \in Senders, Posts(s),
         \A t \in Senders : pc[t] \in {"queued", "resumed"} => pc'[t] = pc[t],
         \A t \in Senders : HoldsPrevious(t)' => HoldsPrevious(t) /\ saved'[t] = saved[t]
  PROVE  InboxInv'
<1> DEFINE a == Of(s)
           q == registry[a].pending
<1>0. a \in Agents /\ Present(a)
  BY OfType DEF Posts, IsRunning
<1>1. /\ q \in Seq(Senders) /\ Fresh(q, history[a], pc)
      /\ ~Has(history[a], s) /\ ~Has(q, s)
  BY <1>0, InboxesTyped DEF Posts, InboxInv, Fresh
<1>2. /\ \A t \in Senders : Has(Append(q, s), t) <=> Has(q, t) \/ t = s
      /\ NoRepeats(Append(q, s))
  <2> HIDE DEF q
  <2> QED
    BY <1>1, AppendHas DEF Fresh
<1>3. /\ history' = history /\ pc'[s] = "queued"
      /\ registry' = [registry EXCEPT ![a] = [registry[a] EXCEPT !.pending = Append(q, s)]]
  BY OfType DEF Posts, Goto, TypeOK
<1>4. registry'[a].pending = Append(q, s)
  <2>1. registry[a] \in Entry
    BY <1>0, RunFact
  <2>2. Append(q, s) \in Seq(Senders)
    BY <1>1
  <2>3. registry'[a] = [registry[a] EXCEPT !.pending = Append(q, s)]
    BY <1>0, <1>3 DEF TypeOK
  <2> QED
    BY <2>1, <2>2, <2>3, PendingUpdate
<1>5. \A b \in Agents : b # a => registry'[b] = registry[b]
  BY <1>0, <1>3 DEF TypeOK
<1>6. ASSUME NEW b \in Agents
      PROVE  /\ NoRepeats(history'[b])
             /\ \A t \in Senders : Has(history'[b], t) => pc'[t] \in {"queued", "resumed"}
  BY <1>3 DEF InboxInv
<1>7. ASSUME NEW b \in Agents, Present(b)' PROVE Fresh(registry'[b].pending, history'[b], pc')
  <2>1. CASE b = a
    BY <1>1, <1>2, <1>3, <1>4, <2>1 DEF Fresh
  <2>2. CASE b # a
    <3>1. Fresh(registry[b].pending, history[b], pc)
      BY <1>5, <1>7, <2>2 DEF InboxInv, Present
    <3> QED
      BY <1>3, <1>5, <2>2, <3>1, FreshKept
  <2> QED
    BY <2>1, <2>2
<1>8. ASSUME NEW t \in Senders, HoldsPrevious(t)', saved'[t] # Absent
      PROVE  Fresh(saved'[t].pending, history'[Of(t)], pc')
  <2>1. Fresh(saved[t].pending, history[Of(t)], pc)
    BY <1>8 DEF InboxInv
  <2> QED
    BY <1>3, <1>8, <2>1, FreshKept
<1> QED
  BY <1>6, <1>7, <1>8 DEF InboxInv, Of

LEMMA StartKeeps ==
  ASSUME TypeOK, InboxInv, NEW s \in Senders, StartThread(s),
         \A t \in Senders : pc[t] \in {"queued", "resumed"} => pc'[t] = pc[t],
         \A t \in Senders : HoldsPrevious(t)' => HoldsPrevious(t) /\ saved'[t] = saved[t]
  PROVE  InboxInv'
<1> DEFINE a == Of(s)
           h == history[a]
<1>0. a \in Agents /\ s \notin Agents
  BY OfType
<1>1. /\ h \in Seq(Senders) /\ NoRepeats(h) /\ ~Has(h, s)
      /\ \A t \in Senders : Has(h, t) => pc[t] \in {"queued", "resumed"}
  BY <1>0, InboxesTyped DEF StartThread, InboxInv
<1>2. /\ \A t \in Senders : Has(Append(h, s), t) <=> Has(h, t) \/ t = s
      /\ NoRepeats(Append(h, s))
  <2> HIDE DEF h
  <2> QED
    BY <1>1, AppendHas
<1>3. /\ pc[s] = "thread" /\ pc'[s] = "resumed"
      /\ registry' = registry
      /\ history' = [history EXCEPT ![a] = Append(h, s)]
  BY OfType DEF StartThread, Goto, TypeOK, registryVars
<1>4. /\ history'[a] = Append(h, s)
      /\ \A b \in Agents : b # a => history'[b] = history[b]
  BY <1>0, <1>3 DEF TypeOK
<1>5. \A b \in Agents : \A t \in Senders :
        Has(history'[b], t) => Has(history[b], t) \/ pc[t] # "queued"
  BY <1>2, <1>3, <1>4
<1>6. ASSUME NEW b \in Agents
      PROVE  /\ NoRepeats(history'[b])
             /\ \A t \in Senders : Has(history'[b], t) => pc'[t] \in {"queued", "resumed"}
  BY <1>1, <1>2, <1>3, <1>4 DEF InboxInv
<1>7. ASSUME NEW b \in Agents, Present(b)' PROVE Fresh(registry'[b].pending, history'[b], pc')
  <2>1. Fresh(registry[b].pending, history[b], pc)
    BY <1>3, <1>7 DEF InboxInv, Present
  <2> QED
    BY <1>3, <1>5, <2>1, FreshPast
<1>8. ASSUME NEW t \in Senders, HoldsPrevious(t)', saved'[t] # Absent
      PROVE  Fresh(saved'[t].pending, history'[Of(t)], pc')
  <2>1. Fresh(saved[t].pending, history[Of(t)], pc) /\ Of(t) \in Agents
    BY <1>8, OfType DEF InboxInv
  <2> QED
    BY <1>5, <1>8, <2>1, FreshPast
<1> QED
  BY <1>6, <1>7, <1>8 DEF InboxInv, Of

LEMMA UndoKeeps ==
  ASSUME TypeOK, InboxInv, NEW s \in Senders, UndoTask(s), saved[s] # Absent,
         \A t \in Senders : pc[t] \in {"queued", "resumed"} => pc'[t] = pc[t],
         \A t \in Senders : HoldsPrevious(t)' => HoldsPrevious(t) /\ saved'[t] = saved[t]
  PROVE  InboxInv'
<1>1. registry' = [registry EXCEPT ![Of(s)] = saved[s]] /\ history' = history
  BY DEF UndoTask, SetEntry, msgVars
<1>2. HoldsPrevious(s)
  BY DEF UndoTask, HoldsPrevious
<1>3. ASSUME NEW b \in Agents
      PROVE  /\ NoRepeats(history'[b])
             /\ \A t \in Senders : Has(history'[b], t) => pc'[t] \in {"queued", "resumed"}
  BY <1>1 DEF InboxInv
<1>4. ASSUME NEW b \in Agents, Present(b)' PROVE Fresh(registry'[b].pending, history'[b], pc')
  <2>1. Fresh(registry'[b].pending, history[b], pc)
    <3>1. CASE b = Of(s)
      <4>1. registry'[b] = saved[s]
        BY <1>1, <3>1 DEF TypeOK
      <4> QED
        BY <1>2, <3>1, <4>1 DEF InboxInv
    <3>2. CASE b # Of(s)
      <4>1. registry'[b] = registry[b]
        BY <1>1, <3>2 DEF TypeOK
      <4> QED
        BY <1>4, <4>1 DEF InboxInv, Present
    <3> QED
      BY <3>1, <3>2
  <2> QED
    BY <1>1, <2>1, FreshKept
<1>5. ASSUME NEW t \in Senders, HoldsPrevious(t)', saved'[t] # Absent
      PROVE  Fresh(saved'[t].pending, history'[Of(t)], pc')
  <2>1. Fresh(saved[t].pending, history[Of(t)], pc)
    BY <1>5 DEF InboxInv
  <2> QED
    BY <1>1, <1>5, <2>1, FreshKept
<1> QED
  BY <1>3, <1>4, <1>5 DEF InboxInv, Of

LEMMA RegisterInbox ==
  ASSUME TypeOK, InboxInv, NEW p \in Callers, Register(p),
         \A t \in Senders : pc[t] \in {"queued", "resumed"} => pc'[t] = pc[t]
  PROVE  InboxInv'
<1> DEFINE a == Of(p)
           e == [gen |-> gens[a] + 1, status |-> "running", notified |-> FALSE,
                 pending |-> <<>>]
<1>0. a \in Agents
  BY OfType
<1>1. /\ registry' = [registry EXCEPT ![a] = e] /\ history' = history
      /\ saved' = [saved EXCEPT ![p] = registry[a]]
      /\ pc' = [pc EXCEPT ![p] = IF p \in Senders THEN "continue" ELSE "claim"]
  BY DEF Register, SetEntry, msgVars, Goto
<1>q. history' = history /\ \A t \in Senders : pc[t] = "queued" => pc'[t] = "queued"
  BY <1>1
<1>2. ASSUME NEW b \in Agents
      PROVE  /\ NoRepeats(history'[b])
             /\ \A t \in Senders : Has(history'[b], t) => pc'[t] \in {"queued", "resumed"}
  BY <1>1 DEF InboxInv
<1>3. ASSUME NEW b \in Agents, Present(b)' PROVE Fresh(registry'[b].pending, history'[b], pc')
  <2>1. CASE b = a
    <3>1. registry'[b].pending = <<>>
      BY <1>0, <1>1, <2>1 DEF TypeOK
    <3> QED
      BY <3>1, EmptyFresh
  <2>2. CASE b # a
    <3>1. registry'[b] = registry[b]
      BY <1>0, <1>1, <2>2 DEF TypeOK
    <3>2. Fresh(registry[b].pending, history[b], pc)
      BY <1>3, <3>1 DEF InboxInv, Present
    <3> QED
      BY <1>q, <3>1, <3>2, FreshKept
  <2> QED
    BY <2>1, <2>2
<1>4. ASSUME NEW t \in Senders, HoldsPrevious(t)', saved'[t] # Absent
      PROVE  Fresh(saved'[t].pending, history'[Of(t)], pc')
  <2>1. Fresh(saved'[t].pending, history[Of(t)], pc)
    <3>1. CASE t = p
      <4>1. saved'[t] = registry[a]
        BY <1>1, <3>1 DEF TypeOK
      <4> QED
        BY <1>0, <1>4, <3>1, <4>1 DEF InboxInv, Present
    <3>2. CASE t # p
      <4>1. saved'[t] = saved[t] /\ HoldsPrevious(t)
        BY <1>1, <1>4, <3>2, OfType DEF TypeOK, HoldsPrevious, Callers
      <4> QED
        BY <1>4, <4>1 DEF InboxInv
    <3> QED
      BY <3>1, <3>2
  <2> QED
    BY <1>q, <2>1, FreshKept
<1> QED
  BY <1>2, <1>3, <1>4 DEF InboxInv, Of

LEMMA InboxStep ==
  TypeOK /\ IInv /\ StatusInv /\ EndedInv /\ InboxInv /\ [Next]_vars => InboxInv'
<1> SUFFICES ASSUME TypeOK, IInv, StatusInv, EndedInv, InboxInv, [Next]_vars PROVE InboxInv'
  OBVIOUS
<1>1. \A s \in Senders : pc[s] \in {"queued", "resumed"} => pc'[s] = pc[s]
  BY SentStays
<1>2. CASE \E p \in Callers : Register(p)
  BY <1>1, <1>2, RegisterInbox
<1>3. CASE Calm /\ ~\E p \in Callers : Register(p)
  <2>1. \A s \in Senders : HoldsPrevious(s)' => HoldsPrevious(s) /\ saved'[s] = saved[s]
    BY <1>3 DEF Calm
  <2>2. ~\E a \in Agents : UndoTask(a) /\ saved[a] # Absent
    BY DEF IInv, FirstLaunchInv
  <2> QED
    BY <1>1, <1>3, <2>1, <2>2, InboxCases, SameKeeps, DrainKeeps, PostKeeps, StartKeeps,
       UndoKeeps
<1> QED
  BY <1>2, <1>3, NextCalm

\* All of it.
HistoryInv == StatusInv /\ EndedInv /\ InboxInv

THEOREM History == Spec => [](TypeOK /\ IInv /\ HistoryInv)
<1>1. Init => HistoryInv
  BY InitStatus, InitInbox DEF HistoryInv
<1>2. TypeOK /\ IInv /\ HistoryInv /\ [Next]_vars => HistoryInv'
  BY StatusStep, InboxStep DEF HistoryInv
<1> QED
  BY <1>1, <1>2, Invariant, PTL DEF Spec

\* No message is consumed twice, though a resume, a failed launch and the
\* winner of a race may all have had it in hand.
THEOREM ConsumedAtMostOnce == Spec => []ConsumedOnce
<1>1. HistoryInv => ConsumedOnce
  BY DEF HistoryInv, InboxInv, NoRepeats, ConsumedOnce
<1> QED
  BY <1>1, History, PTL

-----------------------------------------------------------------------------
(***************************************************************************)
(* A message that was queued is with the agent, or waits in the inbox of   *)
(* the running generation it was queued to, or that generation is over and *)
(* did not complete. So a completion, which finds the inbox empty, leaves  *)
(* nothing behind.                                                         *)
(***************************************************************************)
Waits(s) == /\ IsRunning(Of(s))
            /\ registry[Of(s)].gen = queuedTo[s]
            /\ Has(registry[Of(s)].pending, s)
Dropped(s) == /\ final[<<Of(s), queuedTo[s]>>] # "completed"
              /\ ~(IsRunning(Of(s)) /\ registry[Of(s)].gen = queuedTo[s])
QueuedInv ==
  \A s \in Senders : queuedTo[s] # 0 =>
    /\ queuedTo[s] <= gens[Of(s)]
    /\ Has(history[Of(s)], s) \/ Waits(s) \/ Dropped(s)

LEMMA InitQueued == Init => QueuedInv
BY OfType DEF Init, QueuedInv

\* A completion finds the inbox empty.
LEMMA CompletesEmpty ==
  ASSUME TypeOK, [Next]_vars
  PROVE  \A r \in Runs : final'[r] = "completed" =>
           final[r] = "completed" \/ registry[r[1]].pending = <<>>
<1>1. ASSUME NEW r \in Runs, WorkerStep(r)
      PROVE  \A q \in Runs : final'[q] = "completed" =>
               final[q] = "completed" \/ registry[q[1]].pending = <<>>
  <2>0. r[1] \in Agents
    BY DEF Runs
  <2>1. CASE CompleteOrDrain(r) /\ IsRunning(r[1]) /\ registry[r[1]].pending = <<>>
    <3>1. Run(r[1])[1] = r[1]
      BY DEF Run
    <3> QED
      BY <2>1, <3>1 DEF CompleteOrDrain, SetStatus, TypeOK
  <2>2. CASE FailTask(r)
    BY <2>2 DEF FailTask, SetStatus, TypeOK
  <2> QED
    BY <1>1, <2>1, <2>2
    DEF WorkerStep, WorkerCleanup, DrainRound, CompleteOrDrain, RunRaises, MarkNotified,
        EnqueueNotice, ReleaseSlot, SetFinished, noteVars
<1>2. ASSUME NEW k \in Killers, Kill(k) \/ KillerStep(k)
      PROVE  \A q \in Runs : final'[q] = "completed" => final[q] = "completed"
  BY <1>2 DEF Kill, KillerStep, AbortRun, KillMark, KillEnqueue, SetStatus, TypeOK, noteVars
<1>3. ASSUME \/ \E p \in Callers : Admit(p) \/ AdmitRefused(p) \/ LaunchStep(p)
             \/ \E s \in Senders : Route(s) \/ SenderStep(s)
             \/ SweepSnapshot \/ \E a \in Agents : SweepRemove(a)
             \/ UNCHANGED vars
      PROVE  final' = final
  BY <1>3
  DEF Admit, AdmitRefused, LaunchStep, Register, ClaimName, Continue, StartThread,
      StartFails, UndoTask, UndoCont, UndoFinished, UndoSlot, Route, SenderStep, Queue,
      Requeue, QueueMessage, FetchContinuation, Precheck, AcquireLock, Recheck,
      WaitFinished, SweepSnapshot, SweepRemove, vars, noteVars
<1> QED
  BY <1>1, <1>2, <1>3 DEF Next

\* A history only grows, and what leaves the inbox of a running entry is in it.
LEMMA InboxFlow ==
  ASSUME TypeOK, StatusInv, Calm, [Next]_vars, ~\E p \in Callers : Register(p),
         ~\E a \in Agents : UndoTask(a) /\ saved[a] # Absent
  PROVE  \A a \in Agents : \A s \in Senders :
           /\ Has(history[a], s) => Has(history'[a], s)
           /\ IsRunning(a)' /\ Has(registry[a].pending, s) =>
                Has(history'[a], s) \/ Has(registry'[a].pending, s)
<1> SUFFICES ASSUME NEW a \in Agents, NEW s \in Senders
             PROVE  /\ Has(history[a], s) => Has(history'[a], s)
                    /\ IsRunning(a)' /\ Has(registry[a].pending, s) =>
                         Has(history'[a], s) \/ Has(registry'[a].pending, s)
  OBVIOUS
<1>1. CASE SameInboxes
  BY <1>1 DEF SameInboxes, IsRunning, Present
<1>2. ASSUME NEW b \in Agents, Drains(b)
      PROVE  /\ Has(history[a], s) => Has(history'[a], s)
             /\ Has(registry[a].pending, s) =>
                  Has(history'[a], s) \/ Has(registry'[a].pending, s)
  <2> DEFINE h == history[b]
             q == registry[b].pending
  <2>1. h \in Seq(Senders) /\ q \in Seq(Senders)
    BY <1>2, InboxesTyped DEF Drains
  <2>2. Has(h \o q, s) <=> Has(h, s) \/ Has(q, s)
    <3> HIDE DEF h, q
    <3> QED
      BY <2>1, ConcatHas
  <2>3. history'[b] = h \o q
    BY <1>2 DEF Drains, TakeInbox, TypeOK
  <2>4. b # a => history'[a] = history[a] /\ registry'[a] = registry[a]
    BY <1>2 DEF Drains, TakeInbox, TypeOK
  <2> QED
    BY <2>2, <2>3, <2>4
<1>3. ASSUME NEW t \in Senders, Posts(t)
      PROVE  /\ history' = history
             /\ Has(registry[a].pending, s) => Has(registry'[a].pending, s)
  <2> DEFINE b == Of(t)
             q == registry[b].pending
  <2>0. b \in Agents /\ Present(b)
    BY <1>3, OfType DEF Posts, IsRunning
  <2>1. q \in Seq(Senders)
    BY <2>0, InboxesTyped
  <2>2. Has(q, s) => Has(Append(q, t), s)
    <3> HIDE DEF q
    <3> QED
      BY <2>1, AppendHas
  <2>3. registry'[b].pending = Append(q, t)
    <3>1. registry[b] \in Entry
      BY <2>0, RunFact
    <3>2. Append(q, t) \in Seq(Senders)
      BY <2>1
    <3>3. registry'[b] = [registry[b] EXCEPT !.pending = Append(q, t)]
      BY <1>3, <2>0 DEF Posts, TypeOK
    <3> QED
      BY <3>1, <3>2, <3>3, PendingUpdate
  <2>4. b # a => registry'[a] = registry[a]
    BY <1>3 DEF Posts, TypeOK
  <2> QED
    BY <1>3, <2>2, <2>3, <2>4 DEF Posts
<1>4. ASSUME NEW t \in Senders, StartThread(t)
      PROVE  registry' = registry /\ (Has(history[a], s) => Has(history'[a], s))
  <2> DEFINE h == history[Of(t)]
  <2>1. h \in Seq(Senders)
    BY OfType, InboxesTyped
  <2>2. Has(h, s) => Has(Append(h, t), s)
    <3> HIDE DEF h
    <3> QED
      BY <2>1, AppendHas
  <2>3. history' = [history EXCEPT ![Of(t)] = Append(h, t)] /\ registry' = registry
    BY <1>4 DEF StartThread, registryVars
  <2> QED
    BY <2>2, <2>3 DEF TypeOK
<1>5. ASSUME NEW t \in Senders, UndoTask(t), saved[t] # Absent
      PROVE  history' = history /\ (IsRunning(a)' => registry'[a] = registry[a])
  <2>1. registry' = [registry EXCEPT ![Of(t)] = saved[t]] /\ history' = history
    BY <1>5 DEF UndoTask, SetEntry, msgVars
  <2>2. saved[t].status # "running"
    BY <1>5 DEF StatusInv, HoldsPrevious, UndoTask
  <2> QED
    BY <2>1, <2>2 DEF IsRunning, TypeOK
<1> QED
  BY <1>1, <1>2, <1>3, <1>4, <1>5, InboxCases

\* Who queues a message sees it in the inbox.
LEMMA QueuedWhere ==
  ASSUME TypeOK, StatusInv, [Next]_vars
  PROVE  \A s \in Senders :
           queuedTo'[s] = queuedTo[s] \/ (Waits(s)' /\ queuedTo'[s] <= gens[Of(s)])
<1> SUFFICES ASSUME NEW s \in Senders, queuedTo'[s] # queuedTo[s]
             PROVE  Waits(s)' /\ queuedTo'[s] <= gens[Of(s)]
  OBVIOUS
<1>1. PICK t \in Senders : (Queue(t) \/ Requeue(t)) /\ IsRunning(Of(t))
  BY DEF Next, Admit, AdmitRefused, LaunchStep, Register, ClaimName, Continue, StartThread,
     StartFails, UndoTask, UndoCont, UndoFinished, UndoSlot, Route, SenderStep, Queue,
     Requeue, QueueMessage, FetchContinuation, Precheck, AcquireLock, Recheck,
     WaitFinished, WorkerStep, WorkerCleanup, DrainRound, CompleteOrDrain, RunRaises,
     FailTask, MarkNotified, EnqueueNotice, ReleaseSlot, SetFinished, Kill, KillerStep,
     AbortRun, KillMark, KillEnqueue, SweepSnapshot, SweepRemove, vars, msgVars
<1> DEFINE a == Of(t)
           q == registry[a].pending
<1>2. a \in Agents /\ Present(a) /\ registry[a] \in Entry
  BY <1>1, OfType, RunFact DEF IsRunning
<1>3. /\ registry' = [registry EXCEPT ![a] = [registry[a] EXCEPT !.pending = Append(q, t)]]
      /\ queuedTo' = [queuedTo EXCEPT ![t] = registry[a].gen]
  BY <1>1 DEF Queue, Requeue, QueueMessage
<1>4. s = t /\ queuedTo'[s] = registry[a].gen
  BY <1>3 DEF TypeOK
<1>5. q \in Seq(Senders) /\ Append(q, t) \in Seq(Senders)
  BY <1>2, InboxesTyped
<1>6. PICK e \in Entry : /\ registry' = [registry EXCEPT ![a] = e]
                         /\ e.gen = registry[a].gen /\ e.status = registry[a].status
                         /\ e.pending = Append(q, t)
  BY <1>2, <1>3, <1>5, PendingUpdate
<1>7. registry'[a] = e
  BY <1>2, <1>6 DEF TypeOK
<1>8. Has(Append(q, t), t)
  <2> HIDE DEF q
  <2> QED
    BY <1>5, AppendHas
<1>9. IsRunning(a)'
  BY <1>1, <1>6, <1>7, EntryFacts DEF IsRunning, Present
<1> QED
  BY <1>2, <1>4, <1>6, <1>7, <1>8, <1>9 DEF Waits, StatusInv, Of

LEMMA QueuedStep ==
  TypeOK /\ IInv /\ StatusInv /\ EndedInv /\ QueuedInv /\ [Next]_vars => QueuedInv'
<1> SUFFICES ASSUME TypeOK, IInv, StatusInv, EndedInv, QueuedInv, [Next]_vars,
                    NEW s \in Senders, queuedTo'[s] # 0
             PROVE  /\ queuedTo'[s] <= gens'[Of(s)]
                    /\ Has(history'[Of(s)], s) \/ Waits(s)' \/ Dropped(s)'
  BY DEF QueuedInv, Of
<1> DEFINE a == Of(s)
           r == <<a, queuedTo[s]>>
<1>0. a \in Agents
  BY OfType
<1>1. CASE Calm /\ ~\E p \in Callers : Register(p)
  <2>1. gens' = gens
    BY <1>1 DEF Calm
  <2>2. CASE queuedTo'[s] # queuedTo[s]
    BY <2>1, <2>2, QueuedWhere
  <2>3. CASE queuedTo'[s] = queuedTo[s]
    <3>1. /\ queuedTo[s] # 0 /\ queuedTo[s] <= gens[a]
          /\ Has(history[a], s) \/ Waits(s) \/ Dropped(s)
      BY <2>3 DEF QueuedInv
    <3>2. r \in Runs /\ r[1] = a
      BY <1>0, <3>1, BoundsAssumption DEF Runs, Gens, TypeOK
    <3>3. ~\E b \in Agents : UndoTask(b) /\ saved[b] # Absent
      BY DEF IInv, FirstLaunchInv
    <3>4. /\ Has(history[a], s) => Has(history'[a], s)
          /\ IsRunning(a)' /\ Has(registry[a].pending, s) =>
               Has(history'[a], s) \/ Has(registry'[a].pending, s)
      BY <1>0, <1>1, <3>3, InboxFlow
    <3>5. IsRunning(a)' => IsRunning(a) /\ registry'[a].gen = registry[a].gen
      BY <1>0, <1>1 DEF Calm, NoneRises
    <3>6. CASE Has(history[a], s)
      BY <2>1, <2>3, <3>1, <3>4, <3>6
    <3>7. CASE Waits(s) /\ IsRunning(a)'
      <4>1. Has(history'[a], s) \/ Waits(s)'
        BY <2>3, <3>4, <3>5, <3>7 DEF Waits, Of
      <4> QED
        BY <2>1, <2>3, <3>1, <4>1
    <3>8. CASE Waits(s) /\ ~IsRunning(a)'
      <4>1. registry[a].pending # <<>>
        BY <3>8, EmptyHas DEF Waits
      <4>2. final[r] = "none"
        BY <1>0, <3>8 DEF Waits, StatusInv, Run
      <4>3. final'[r] # "completed"
        BY <3>2, <4>1, <4>2, CompletesEmpty
      <4>4. Dropped(s)'
        BY <2>3, <3>8, <4>3 DEF Dropped, Of
      <4> QED
        BY <2>1, <2>3, <3>1, <4>4
    <3>9. CASE Dropped(s)
      <4>1. ~(IsRunning(a) /\ r = Run(a))
        BY <3>9 DEF Dropped, Run
      <4>2. final'[r] = final[r]
        BY <1>1, <3>2, <4>1 DEF Calm, EndsOnce
      <4>3. Dropped(s)'
        BY <2>3, <3>5, <3>9, <4>2 DEF Dropped, Of
      <4> QED
        BY <2>1, <2>3, <3>1, <4>3
    <3> QED
      BY <3>1, <3>6, <3>7, <3>8, <3>9
  <2> QED
    BY <2>2, <2>3
<1>2. CASE \E p \in Callers : Register(p)
  <2>1. PICK p \in Callers : Register(p)
    BY <1>2
  <2> DEFINE b == Of(p)
             g == gens[b] + 1
             e == [gen |-> g, status |-> "running", notified |-> FALSE, pending |-> <<>>]
  <2>2. /\ registry' = [registry EXCEPT ![b] = e]
        /\ gens' = [gens EXCEPT ![b] = g]
        /\ UNCHANGED <<history, queuedTo, final>>
    BY <2>1 DEF Register, SetEntry, msgVars, noteVars
  <2>3. b \in Agents /\ ~IsRunning(b)
    <3>1. CASE p \in Senders
      BY <2>1, <3>1, OfType DEF Register, EndedInv
    <3>2. CASE p \in Agents
      BY <2>1, <3>2, OfType DEF Register, IInv, FirstLaunchInv, IsRunning, Present
    <3> QED
      BY <3>1, <3>2 DEF Callers
  <2>4. /\ queuedTo[s] # 0 /\ queuedTo[s] <= gens[a]
        /\ Has(history[a], s) \/ Waits(s) \/ Dropped(s)
    BY <2>2 DEF QueuedInv
  <2>5. gens[a] \in Nat /\ gens[b] \in Nat /\ queuedTo[s] \in Nat
    BY <1>0, <2>3, BoundsAssumption DEF TypeOK
  <2>6. queuedTo'[s] <= gens'[a]
    BY <1>0, <2>2, <2>3, <2>4, <2>5 DEF TypeOK
  <2>7. CASE a = b
    <3>1. registry'[a].gen = g /\ g # queuedTo[s]
      BY <1>0, <2>2, <2>4, <2>5, <2>7 DEF TypeOK
    <3>2. ~Waits(s) /\ (Dropped(s) => Dropped(s)')
      BY <2>2, <2>3, <2>7, <3>1 DEF Waits, Dropped, Of
    <3> QED
      BY <2>2, <2>4, <2>6, <3>2
  <2>8. CASE a # b
    <3>1. registry'[a] = registry[a]
      BY <1>0, <2>2, <2>8 DEF TypeOK
    <3>2. (Waits(s) => Waits(s)') /\ (Dropped(s) => Dropped(s)')
      BY <2>2, <3>1 DEF Waits, Dropped, IsRunning, Present, Of
    <3> QED
      BY <2>2, <2>4, <2>6, <3>2
  <2> QED
    BY <2>7, <2>8
<1> QED
  BY <1>1, <1>2, NextCalm

\* A run that completes has consumed every message that was accepted for it:
\* complete_agent_or_drain looks at the inbox and ends the run in one step.
THEOREM CompletionConsumes == Spec => []CompletionLosesNothing
<1>1. TypeOK /\ HistoryInv /\ QueuedInv => CompletionLosesNothing
  <2> SUFFICES ASSUME TypeOK, HistoryInv, QueuedInv, NEW s \in Senders, queuedTo[s] # 0,
                      final[<<Of(s), queuedTo[s]>>] = "completed"
               PROVE  InHistory(Of(s), s)
    BY DEF CompletionLosesNothing
  <2>1. ~Dropped(s)
    BY DEF Dropped
  <2>2. ~Waits(s)
    BY OfType DEF Waits, HistoryInv, StatusInv, Run
  <2>3. Has(history[Of(s)], s)
    BY <2>1, <2>2 DEF QueuedInv
  <2> QED
    BY <2>3 DEF Has, InHistory
<1>2. TypeOK /\ IInv /\ HistoryInv /\ QueuedInv /\ [Next]_vars => QueuedInv'
  BY QueuedStep DEF HistoryInv
<1> QED
  BY InitQueued, History, <1>1, <1>2, PTL DEF Spec

-----------------------------------------------------------------------------
(***************************************************************************)
(* As long as thread starts do not fail, no continuation is ever dropped:  *)
(* a resume that found one still finds it when it continues, so whoever    *)
(* registers an entry goes on to start its worker.                         *)
(***************************************************************************)
\* The sender has found the continuation.
FoundPCs == {"precheck", "lock", "recheck", "wait", "admit", "register", "continue", "thread"}
\* The caller is going to start a worker.
Launching(p) == pc[p] \in LaunchPCs \cup {"undoTask"}

TidyInv ==
  /\ \A p \in Callers : pc[p] \notin {"undoTask", "undoCont", "undoFinished"}
  /\ \A s \in Senders : pc[s] \in FoundPCs => cont[Of(s)] = "present"
  /\ \A a \in Agents : Present(a) => registry[a].gen = gens[a]

LEMMA InitTidy == Init => TidyInv
BY OfType DEF Init, TidyInv, FoundPCs, Present, Callers

\* The updates of an entry stay in its generation.
LEMMA SameGeneration ==
  ASSUME TypeOK, NEW a \in Agents, Present(a),
         \/ \E st \in Terminal : SetStatus(a, st)
         \/ registry' = [registry EXCEPT ![a].notified = TRUE]
         \/ TakeInbox(a)
  PROVE  \A b \in Agents : Present(b)' => Present(b) /\ registry'[b].gen = registry[b].gen
<1>1. registry[a] \in Entry
  BY RunFact
<1>2. \E e \in Entry : registry' = [registry EXCEPT ![a] = e] /\ e.gen = registry[a].gen
  <2>1. ASSUME NEW st \in Terminal, SetStatus(a, st)
        PROVE  \E e \in Entry : registry' = [registry EXCEPT ![a] = e] /\ e.gen = registry[a].gen
    BY <1>1, <2>1, StatusUpdate DEF SetStatus
  <2>2. CASE registry' = [registry EXCEPT ![a].notified = TRUE]
    BY <1>1, <2>2, NotifiedUpdate
  <2>3. CASE TakeInbox(a)
    <3>1. <<>> \in Seq(Senders)
      OBVIOUS
    <3> QED
      BY <1>1, <2>3, <3>1, PendingUpdate DEF TakeInbox
  <2> QED
    BY <2>1, <2>2, <2>3
<1> QED
  BY <1>2 DEF Present, TypeOK

LEMMA TidyStep ==
  ASSUME ~StartsMayFail
  PROVE  TypeOK /\ StatusInv /\ TidyInv /\ [Next]_vars => TidyInv'
<1> SUFFICES ASSUME TypeOK, StatusInv, TidyInv, [Next]_vars PROVE TidyInv'
  OBVIOUS
\* A step that registers nothing and moves one caller, or none.
<1>f. ASSUME UNCHANGED <<gens, cont>>,
             \A a \in Agents : Present(a)' => Present(a) /\ registry'[a].gen = registry[a].gen,
             \A p \in Callers : pc'[p] = pc[p]
               \/ /\ pc'[p] \notin {"undoTask", "undoCont", "undoFinished"}
                  /\ p \in Senders /\ pc'[p] \in FoundPCs =>
                       pc[p] \in FoundPCs \/ cont[Of(p)] = "present"
      PROVE  TidyInv'
  BY <1>f, OfType DEF TidyInv, Of
<1>u. registry' = registry =>
        \A a \in Agents : Present(a)' => Present(a) /\ registry'[a].gen = registry[a].gen
  BY DEF Present
<1>g. ASSUME NEW p \in Callers, NEW l \in PCs, Goto(p, l)
      PROVE  \A q \in Callers : pc'[q] = IF q = p THEN l ELSE pc[q]
  BY <1>g DEF Goto, TypeOK
<1>1. ASSUME NEW p \in Callers, Admit(p) \/ AdmitRefused(p) \/ UndoSlot(p) \/ StartThread(p)
      PROVE  TidyInv'
  <2>1. /\ UNCHANGED <<registry, gens, cont>>
        /\ \E l \in PCs : /\ Goto(p, l)
                          /\ l \notin {"undoTask", "undoCont", "undoFinished"}
                          /\ p \in Senders /\ l \in FoundPCs => pc[p] \in FoundPCs
    BY <1>1, Labels DEF Admit, AdmitRefused, UndoSlot, StartThread, GiveUp, registryVars,
                        contVars, FoundPCs
  <2>2. PICK l \in PCs : /\ \A q \in Callers : pc'[q] = IF q = p THEN l ELSE pc[q]
                         /\ l \notin {"undoTask", "undoCont", "undoFinished"}
                         /\ p \in Senders /\ l \in FoundPCs => pc[p] \in FoundPCs
    BY <1>g, <2>1
  <2> QED
    BY <1>f, <1>u, <2>1, <2>2
<1>2. ASSUME NEW p \in Callers, Register(p) PROVE TidyInv'
  <2> DEFINE a == Of(p)
             e == [gen |-> gens[a] + 1, status |-> "running", notified |-> FALSE,
                   pending |-> <<>>]
  <2>1. /\ registry' = [registry EXCEPT ![a] = e]
        /\ gens' = [gens EXCEPT ![a] = gens[a] + 1]
        /\ cont' = cont /\ a \in Agents
        /\ pc[p] = "register"
    BY <1>2, OfType DEF Register, SetEntry, contVars
  <2>2. \A q \in Callers : pc'[q] = IF q = p THEN IF p \in Senders THEN "continue" ELSE "claim"
                                    ELSE pc[q]
    BY <1>2 DEF Register, Goto, TypeOK
  <2>3. \A b \in Agents : Present(b)' => registry'[b].gen = gens'[b]
    BY <2>1 DEF TidyInv, TypeOK, Present
  <2> QED
    BY <2>1, <2>2, <2>3, OfType DEF TidyInv, FoundPCs, Of
<1>3. ASSUME NEW p \in Callers, ClaimName(p) PROVE TidyInv'
  <2>1. UNCHANGED <<gens, cont>> /\ p \in Agents
    BY <1>3 DEF ClaimName, contVars
  <2>2. \A a \in Agents : Present(a)' => Present(a) /\ registry'[a].gen = registry[a].gen
    BY <1>3 DEF ClaimName, SetEntry, Present, TypeOK
  <2>3. \A q \in Callers : pc'[q] = pc[q] \/ (q = p /\ pc'[q] \in {"continue", "undoSlot"})
    BY <1>3 DEF ClaimName, Goto, TypeOK
  <2> QED
    BY <1>f, <2>1, <2>2, <2>3, OfType
<1>4. ASSUME NEW p \in Callers, Continue(p) PROVE TidyInv'
  <2>1. p \in Senders => cont[Of(p)] = "present"
    BY <1>4 DEF Continue, TidyInv, FoundPCs
  <2>2. /\ UNCHANGED <<registry, gens>>
        /\ Goto(p, "thread")
        /\ \A a \in Agents : cont'[a] = IF a = Of(p) THEN "present" ELSE cont[a]
    BY <1>4, <2>1, OfType DEF Continue, registryVars, TypeOK
  <2>3. \A q \in Callers : pc'[q] = IF q = p THEN "thread" ELSE pc[q]
    BY <1>g, <2>2, Labels
  <2>4. \A s \in Senders : pc'[s] \in FoundPCs => cont'[Of(s)] = "present"
    BY <2>1, <2>2, <2>3, OfType DEF TidyInv
  <2> QED
    BY <2>2, <2>3, <2>4 DEF TidyInv, Of, Present
<1>5. ~\E p \in Callers : StartFails(p) \/ UndoTask(p) \/ UndoCont(p) \/ UndoFinished(p)
  BY DEF StartFails, UndoTask, UndoCont, UndoFinished, TidyInv
<1>6. ASSUME NEW s \in Senders, Route(s) \/ SenderStep(s) PROVE TidyInv'
  <2>0. s \in Callers /\ Of(s) \in Agents
    BY OfType
  <2>1. /\ UNCHANGED <<gens, cont>>
        /\ \E l \in PCs : /\ Goto(s, l)
                          /\ l \notin {"undoTask", "undoCont", "undoFinished"}
                          /\ l \in FoundPCs => pc[s] \in FoundPCs \/ cont[Of(s)] = "present"
    BY <1>6, Labels
    DEF Route, SenderStep, Queue, Requeue, QueueMessage, FetchContinuation, Precheck,
        AcquireLock, Recheck, WaitFinished, registryVars, contVars, FoundPCs
  <2>2. PICK l \in PCs : /\ \A q \in Callers : pc'[q] = IF q = s THEN l ELSE pc[q]
                         /\ l \notin {"undoTask", "undoCont", "undoFinished"}
                         /\ l \in FoundPCs => pc[s] \in FoundPCs \/ cont[Of(s)] = "present"
    BY <1>g, <2>0, <2>1
  <2>3. \A a \in Agents : Present(a)' => Present(a) /\ registry'[a].gen = registry[a].gen
    <3>1. CASE registry' = registry
      BY <1>u, <3>1
    <3>2. CASE Queue(s) \/ Requeue(s)
      <4>1. CASE IsRunning(Of(s))
        <5>1. registry[Of(s)] \in Entry /\ Present(Of(s))
          BY <2>0, <4>1, RunFact DEF IsRunning
        <5>2. Append(registry[Of(s)].pending, s) \in Seq(Senders)
          BY <5>1, EntryFacts
        <5>3. PICK e \in Entry : /\ registry' = [registry EXCEPT ![Of(s)] = e]
                                 /\ e.gen = registry[Of(s)].gen
          <6>1. registry' = [registry EXCEPT ![Of(s)] =
                   [registry[Of(s)] EXCEPT !.pending = Append(registry[Of(s)].pending, s)]]
            BY <3>2, <4>1 DEF Queue, Requeue, QueueMessage
          <6> QED
            BY <5>1, <5>2, <6>1, PendingUpdate
        <5> QED
          BY <5>1, <5>3 DEF Present, TypeOK
      <4>2. CASE ~IsRunning(Of(s))
        BY <1>u, <3>2, <4>2 DEF Queue, Requeue, QueueMessage
      <4> QED
        BY <4>1, <4>2
    <3> QED
      BY <1>6, <3>1, <3>2 DEF Route, SenderStep, FetchContinuation, Precheck, AcquireLock,
                              Recheck, WaitFinished, registryVars
  <2> QED
    BY <1>f, <2>1, <2>2, <2>3
<1>7. ASSUME NEW r \in Runs, WorkerStep(r) PROVE TidyInv'
  <2>0. r[1] \in Agents
    BY DEF Runs
  <2>1. UNCHANGED <<gens, cont, pc>>
    BY <1>7 DEF WorkerStep, WorkerCleanup, DrainRound, CompleteOrDrain, RunRaises, FailTask,
                MarkNotified, EnqueueNotice, ReleaseSlot, SetFinished, registryVars,
                callVars, contVars
  <2>2. \A a \in Agents : Present(a)' => Present(a) /\ registry'[a].gen = registry[a].gen
    <3>1. CASE registry' = registry
      BY <1>u, <3>1
    <3>2. \/ registry' = registry
          \/ /\ Present(r[1])
             /\ \/ \E st \in Terminal : SetStatus(r[1], st)
                \/ registry' = [registry EXCEPT ![r[1]].notified = TRUE]
                \/ TakeInbox(r[1])
      BY <1>7
      DEF WorkerStep, WorkerCleanup, DrainRound, CompleteOrDrain, RunRaises, FailTask,
          MarkNotified, EnqueueNotice, ReleaseSlot, SetFinished, registryVars, IsRunning,
          Terminal
    <3> QED
      BY <2>0, <3>1, <3>2, SameGeneration
  <2> QED
    BY <1>f, <2>1, <2>2
<1>8. ASSUME NEW k \in Killers, Kill(k) \/ KillerStep(k) PROVE TidyInv'
  <2>0. Of(k) \in Agents
    BY OfType
  <2>1. UNCHANGED <<gens, cont>> /\ \E l \in PCs : Goto(k, l)
    BY <1>8, Labels DEF Kill, KillerStep, AbortRun, KillMark, KillEnqueue, registryVars,
                        contVars
  <2>2. \A p \in Callers : pc'[p] = pc[p]
    BY <2>1, CallersOnly
  <2>3. \A a \in Agents : Present(a)' => Present(a) /\ registry'[a].gen = registry[a].gen
    <3>1. CASE registry' = registry
      BY <1>u, <3>1
    <3>2. \/ registry' = registry
          \/ /\ Present(Of(k))
             /\ \/ \E st \in Terminal : SetStatus(Of(k), st)
                \/ registry' = [registry EXCEPT ![Of(k)].notified = TRUE]
                \/ TakeInbox(Of(k))
      BY <1>8 DEF Kill, KillerStep, AbortRun, KillMark, KillEnqueue, registryVars, IsRunning,
                  Terminal
    <3> QED
      BY <2>0, <3>1, <3>2, SameGeneration
  <2> QED
    BY <1>f, <2>1, <2>2, <2>3
<1>9. ASSUME SweepSnapshot \/ \E a \in Agents : SweepRemove(a) PROVE TidyInv'
  <2>1. UNCHANGED <<gens, cont, pc>>
    BY <1>9 DEF SweepSnapshot, SweepRemove, registryVars, contVars, callVars
  <2>2. \A a \in Agents : Present(a)' => Present(a) /\ registry'[a].gen = registry[a].gen
    BY <1>9 DEF SweepSnapshot, SweepRemove, SetEntry, registryVars, Present, TypeOK
  <2> QED
    BY <1>f, <2>1, <2>2
<1>10. CASE UNCHANGED vars
  BY <1>f, <1>u, <1>10 DEF vars, registryVars, contVars, callVars
<1> QED
  BY <1>1, <1>2, <1>3, <1>4, <1>5, <1>6, <1>7, <1>8, <1>9, <1>10 DEF Next, LaunchStep

\* A worker goes only when its entry is no longer running, ...
LEMMA WorkerGoes ==
  ASSUME TypeOK, EndedInv, Calm, [Next]_vars
  PROVE  \A r \in Runs : Alive(r) => Alive(r)' \/ ~IsRunning(r[1])'
<1> SUFFICES ASSUME NEW r \in Runs, Alive(r), ~Alive(r)' PROVE ~IsRunning(r[1])'
  OBVIOUS
<1>1. SetFinished(r)
  BY DEF Next, Admit, AdmitRefused, LaunchStep, Register, ClaimName, Continue, StartThread,
     StartFails, UndoTask, UndoCont, UndoFinished, UndoSlot, Route, SenderStep, Queue,
     Requeue, QueueMessage, FetchContinuation, Precheck, AcquireLock, Recheck,
     WaitFinished, WorkerStep, WorkerCleanup, DrainRound, CompleteOrDrain, RunRaises,
     FailTask, MarkNotified, EnqueueNotice, ReleaseSlot, SetFinished, Move, Kill, KillerStep,
     AbortRun, KillMark, KillEnqueue, SweepSnapshot, SweepRemove, vars, workVars, Alive,
     AliveStates, TypeOK
<1>2. r[1] \in Agents /\ ~IsRunning(r[1])
  BY <1>1 DEF Runs, SetFinished, At, EndedInv, EndedStates
<1> QED
  BY <1>2 DEF Calm, NoneRises

\* ... and a launch ends with a worker, or with no running entry.
LEMMA LaunchEnds ==
  ASSUME TypeOK, TidyInv, NEW p \in Callers, Launching(p), ~Launching(p)', [Next]_vars
  PROVE  \/ ~IsRunning(Of(p))'
         \/ Present(Of(p))' /\ Alive(<<Of(p), registry[Of(p)].gen>>)'
              /\ registry' = registry
<1>0. Of(p) \in Agents
  BY OfType
<1>1. ASSUME NEW q, NEW l, Goto(q, l), q # p PROVE FALSE
  BY <1>1 DEF Goto, TypeOK, Callers, Launching
<1>2. pc' = pc => FALSE
  BY DEF Launching
<1>3. \E l : Goto(p, l) /\ (Admit(p) \/ AdmitRefused(p) \/ LaunchStep(p)
                              \/ (p \in Senders /\ (Route(p) \/ SenderStep(p))))
  <2>1. ASSUME NEW q \in Callers, Admit(q) \/ AdmitRefused(q) \/ LaunchStep(q)
        PROVE  q = p /\ \E l : Goto(q, l)
    <3>1. \E l : Goto(q, l)
      BY <2>1 DEF Admit, AdmitRefused, LaunchStep, Register, ClaimName, Continue, StartThread,
                  StartFails, UndoTask, UndoCont, UndoFinished, UndoSlot, GiveUp
    <3> QED
      BY <1>1, <3>1
  <2>2. ASSUME NEW q \in Senders, Route(q) \/ SenderStep(q)
        PROVE  q = p /\ \E l : Goto(q, l)
    <3>1. \E l : Goto(q, l)
      BY <2>2 DEF Route, SenderStep, Queue, Requeue, QueueMessage, FetchContinuation,
                  Precheck, AcquireLock, Recheck, WaitFinished
    <3> QED
      BY <1>1, <3>1
  <2>3. ASSUME NEW k \in Killers, Kill(k) \/ KillerStep(k) PROVE FALSE
    <3>1. \E l : Goto(k, l)
      BY <2>3 DEF Kill, KillerStep, AbortRun, KillMark, KillEnqueue
    <3>2. k # p
      BY ActorsAssumption DEF Callers
    <3> QED
      BY <1>1, <3>1, <3>2
  <2>4. CASE pc' = pc
    BY <1>2, <2>4
  <2>5. ASSUME \/ \E r \in Runs : WorkerStep(r)
               \/ SweepSnapshot \/ \E a \in Agents : SweepRemove(a)
               \/ UNCHANGED vars
        PROVE  pc' = pc
    BY <2>5 DEF WorkerStep, WorkerCleanup, DrainRound, CompleteOrDrain, RunRaises, FailTask,
                MarkNotified, EnqueueNotice, ReleaseSlot, SetFinished, SweepSnapshot,
                SweepRemove, vars, callVars
  <2> QED
    BY <2>1, <2>2, <2>3, <2>4, <2>5 DEF Next
<1>4. pc[p] \in LaunchPCs
  BY DEF Launching, TidyInv
<1>5. CASE StartThread(p)
  <2>1. registry' = registry /\ worker' = [worker EXCEPT ![<<Of(p), gens[Of(p)]>>] = "running"]
    BY <1>5 DEF StartThread, registryVars
  <2>2. CASE Present(Of(p))
    <3>1. gens[Of(p)] = registry[Of(p)].gen /\ <<Of(p), gens[Of(p)]>> \in Runs
      BY <1>0, <2>2, RunFact DEF TidyInv, Run
    <3> QED
      BY <2>1, <2>2, <3>1 DEF Alive, AliveStates, TypeOK, Present
  <2>3. CASE ~Present(Of(p))
    BY <2>1, <2>3 DEF IsRunning, Present
  <2> QED
    BY <2>2, <2>3
<1>6. CASE ClaimName(p)
  <2>1. p \in Agents /\ (Goto(p, "continue") \/ registry' = [registry EXCEPT ![p] = Absent])
    BY <1>6 DEF ClaimName, SetEntry
  <2>2. ~Goto(p, "continue")
    BY DEF Goto, TypeOK, Launching, LaunchPCs
  <2> QED
    BY <1>0, <2>1, <2>2, OfType DEF IsRunning, Present, TypeOK
<1>7. ~Register(p) /\ ~Continue(p) /\ ~StartFails(p)
  BY DEF Register, Continue, StartFails, Goto, TypeOK, Launching, LaunchPCs, TidyInv, FoundPCs
<1>8. /\ ~Admit(p) /\ ~AdmitRefused(p) /\ ~UndoTask(p) /\ ~UndoCont(p) /\ ~UndoFinished(p)
      /\ ~UndoSlot(p) /\ (p \in Senders => ~Route(p) /\ ~SenderStep(p))
  BY <1>4, OfType
  DEF Admit, AdmitRefused, UndoTask, UndoCont, UndoFinished, UndoSlot, Route, SenderStep,
      Queue, Requeue, FetchContinuation, Precheck, AcquireLock, Recheck, WaitFinished,
      LaunchPCs
<1> QED
  BY <1>3, <1>5, <1>6, <1>7, <1>8 DEF LaunchStep

LEMMA ZombieStep ==
  ASSUME TypeOK, IInv, StatusInv, EndedInv, TidyInv, NoZombieEntry, [Next]_vars
  PROVE  NoZombieEntry'
<1> SUFFICES ASSUME NEW a \in Agents, IsRunning(a)'
             PROVE  \/ Alive(<<a, registry[a].gen>>)'
                    \/ \E p \in Callers : Of(p) = a /\ Launching(p)'
  BY DEF NoZombieEntry, Launching, Of
<1>1. CASE Calm
  <2>1. IsRunning(a) /\ registry'[a].gen = registry[a].gen
    BY <1>1 DEF Calm, NoneRises
  <2>2. <<a, registry[a].gen>> \in Runs
    BY <2>1, RunFact DEF IsRunning, Run
  <2>3. \/ Alive(<<a, registry[a].gen>>)
        \/ \E p \in Callers : Of(p) = a /\ Launching(p)
    BY <2>1 DEF NoZombieEntry, Launching
  <2>4. CASE Alive(<<a, registry[a].gen>>)
    <3>1. Alive(<<a, registry[a].gen>>) => worker'[<<a, registry[a].gen>>] \in AliveStates
      BY <1>1, <2>2, WorkerGoes DEF Alive
    <3> QED
      BY <2>1, <2>4, <3>1 DEF Alive
  <2>5. ASSUME NEW p \in Callers, Of(p) = a, Launching(p)
        PROVE  \/ Alive(<<a, registry[a].gen>>)'
               \/ \E q \in Callers : Of(q) = a /\ Launching(q)'
    BY <2>5, LaunchEnds
  <2> QED
    BY <2>3, <2>4, <2>5
<1>2. ASSUME NEW p \in Callers, Register(p)
      PROVE  \/ Alive(<<a, registry[a].gen>>)'
             \/ \E q \in Callers : Of(q) = a /\ Launching(q)'
  <2>1. CASE Of(p) = a
    <3>1. Launching(p)'
      BY <1>2 DEF Register, Goto, Launching, LaunchPCs, TypeOK
    <3> QED
      BY <2>1, <3>1
  <2>2. CASE Of(p) # a
    <3>1. registry'[a] = registry[a] /\ worker' = worker
      BY <1>2, <2>2 DEF Register, SetEntry, TypeOK, workVars
    <3>2. \/ Alive(<<a, registry[a].gen>>)
          \/ \E q \in Callers : Of(q) = a /\ Launching(q)
      BY <3>1 DEF NoZombieEntry, Launching, IsRunning, Present
    <3>3. \A q \in Callers : Launching(q) => Launching(q)'
      BY <1>2 DEF Register, Goto, Launching, LaunchPCs, TypeOK
    <3> QED
      BY <3>1, <3>2, <3>3 DEF Alive
  <2> QED
    BY <2>1, <2>2
<1> QED
  BY <1>1, <1>2, NextCalm

\* If thread starts do not fail, no entry stays "running" without a worker or a
\* launch that gives it one: messages queued to it are not queued to nobody.
THEOREM NoZombies == ~StartsMayFail => (Spec => []NoZombieEntry)
<1> SUFFICES ASSUME ~StartsMayFail PROVE Spec => []NoZombieEntry
  OBVIOUS
<1>1. Init => NoZombieEntry
  BY DEF Init, NoZombieEntry, IsRunning, Present
<1>2. TypeOK /\ HistoryInv /\ TidyInv /\ [Next]_vars => TidyInv'
  BY TidyStep DEF HistoryInv
<1>3. TypeOK /\ IInv /\ HistoryInv /\ TidyInv /\ NoZombieEntry /\ [Next]_vars => NoZombieEntry'
  BY ZombieStep DEF HistoryInv
<1> QED
  BY InitTidy, History, <1>1, <1>2, <1>3, PTL DEF Spec

-----------------------------------------------------------------------------
(***************************************************************************)
(* Steps that say nothing. `notified` is checked and set in one step, by   *)
(* task id; every other step leaves what is said, and who may say it, as   *)
(* it was.                                                                 *)
(***************************************************************************)
\* What a step does to the entries when nobody speaks: none becomes
\* unannounced, and one that ends records how.
Hushed ==
  \A a \in Agents :
    /\ Present(a)' /\ ~registry'[a].notified => Present(a) /\ ~registry[a].notified
    /\ IsTerminal(a)' =>
         \/ /\ IsTerminal(a) /\ Run(a)' = Run(a)
            /\ registry'[a].status = registry[a].status
         \/ final'[Run(a)'] = registry'[a].status

Speechless ==
  /\ UNCHANGED <<says, told>>
  /\ Hushed
  /\ \A r \in Runs : worker'[r] = "enqueue" => worker[r] = "enqueue"
  /\ \A k \in Killers :
       /\ pc'[k] = "enqueue" => pc[k] = "enqueue"
       /\ pc'[k] \in {"abort", "mark", "enqueue"} =>
            \/ pc[k] \in {"abort", "mark", "enqueue"} /\ killing'[k] = killing[k]
            \/ killing'[k] \in Gens /\ final'[<<Of(k), killing'[k]>>] = "killed"

LEMMA HushedRewrite ==
  ASSUME TypeOK, NEW a \in Agents, Present(a), NEW e \in Entry,
         registry' = [registry EXCEPT ![a] = e],
         e.gen = registry[a].gen, e.notified = registry[a].notified \/ e.notified = TRUE,
         e.status = registry[a].status \/ final'[<<a, e.gen>>] = e.status
  PROVE  Hushed
<1>1. \A b \in Agents : registry'[b] = IF b = a THEN e ELSE registry[b]
  BY DEF TypeOK
<1>2. \A b \in Agents : b # a => (Present(b)' <=> Present(b)) /\ (IsTerminal(b)' <=> IsTerminal(b))
                                    /\ Run(b)' = Run(b)
  BY <1>1 DEF Present, IsTerminal, Run
<1>3. Run(a)' = Run(a) /\ Run(a)' = <<a, e.gen>>
  BY <1>1 DEF Run
<1>4. IsTerminal(a)' /\ e.status = registry[a].status => IsTerminal(a)
  BY <1>1 DEF IsTerminal
<1> QED
  BY <1>1, <1>2, <1>3, <1>4 DEF Hushed

LEMMA HushedRemoved ==
  ASSUME TypeOK, NEW a \in Agents, registry' = [registry EXCEPT ![a] = Absent]
  PROVE  Hushed
BY DEF TypeOK, Hushed, Present, IsTerminal, Run

LEMMA HushedSame ==
  ASSUME registry' = registry
  PROVE  Hushed
BY DEF Hushed, Present, IsTerminal, Run

LEMMA HushedStatus ==
  ASSUME TypeOK, NEW a \in Agents, Present(a), NEW st \in Terminal, SetStatus(a, st)
  PROVE  Hushed /\ final'[Run(a)] = st
<1>1. registry[a] \in Entry /\ Run(a) \in Runs
  BY RunFact
<1>2. final'[Run(a)] = st
  BY <1>1 DEF SetStatus, TypeOK
<1>3. PICK e \in Entry : /\ registry' = [registry EXCEPT ![a] = e]
                         /\ e.gen = registry[a].gen /\ e.status = st
                         /\ e.notified = registry[a].notified
  <2>1. registry' = [registry EXCEPT ![a] = [registry[a] EXCEPT !.status = st]]
    BY DEF SetStatus
  <2> QED
    BY <1>1, <2>1, StatusUpdate
<1>4. final'[<<a, e.gen>>] = e.status
  BY <1>2, <1>3 DEF Run
<1> QED
  BY <1>2, <1>3, <1>4, HushedRewrite

LEMMA HushedInbox ==
  ASSUME TypeOK, NEW a \in Agents, Present(a), NEW q \in Seq(Senders),
         registry' = [registry EXCEPT ![a] = [registry[a] EXCEPT !.pending = q]]
  PROVE  Hushed
<1>1. registry[a] \in Entry
  BY RunFact
<1> QED
  BY <1>1, PendingUpdate, HushedRewrite

LEMMA HushedMark ==
  ASSUME TypeOK, NEW a \in Agents, Present(a),
         registry' = [registry EXCEPT ![a].notified = TRUE]
  PROVE  Hushed
<1>1. registry[a] \in Entry
  BY RunFact
<1>2. registry' = [registry EXCEPT ![a] = [registry[a] EXCEPT !.notified = TRUE]]
  OBVIOUS
<1> QED
  BY <1>1, <1>2, NotifiedUpdate, HushedRewrite

\* The actions that say nothing.
LEMMA WorkerSpeechless ==
  ASSUME TypeOK, NEW r \in Runs, WorkerStep(r),
         ~EnqueueNotice(r), MarkNotified(r) => ~Present(r[1]) \/ registry[r[1]].notified
  PROVE  Speechless
<1>0. r[1] \in Agents
  BY DEF Runs
<1>1. UNCHANGED <<says, told, pc, killing>>
  BY DEF WorkerStep, WorkerCleanup, DrainRound, CompleteOrDrain, RunRaises, FailTask,
         MarkNotified, ReleaseSlot, SetFinished, callVars, noteVars
<1>2. \A q \in Runs : worker'[q] = "enqueue" => worker[q] = "enqueue"
  BY DEF WorkerStep, WorkerCleanup, DrainRound, CompleteOrDrain, RunRaises, FailTask,
         MarkNotified, ReleaseSlot, SetFinished, workVars, Move, TypeOK
<1>3. ASSUME Present(r[1]), TakeInbox(r[1]) PROVE Hushed
  <2>1. registry' = [registry EXCEPT ![r[1]] = [registry[r[1]] EXCEPT !.pending = <<>>]]
    BY <1>3 DEF TakeInbox
  <2>2. <<>> \in Seq(Senders)
    OBVIOUS
  <2> QED
    BY <1>0, <1>3, <2>1, <2>2, HushedInbox
<1>4. Hushed
  <2>1. CASE DrainRound(r)
    BY <1>3, <2>1 DEF DrainRound
  <2>2. CASE CompleteOrDrain(r) /\ IsRunning(r[1])
    BY <1>0, <1>3, <2>2, HushedStatus DEF CompleteOrDrain, IsRunning, Terminal
  <2>3. CASE FailTask(r) /\ IsRunning(r[1])
    BY <1>0, <2>3, HushedStatus DEF FailTask, IsRunning, Terminal
  <2>4. CASE registry' = registry
    BY <2>4, HushedSame
  <2> QED
    BY <2>1, <2>2, <2>3, <2>4
    DEF WorkerStep, WorkerCleanup, CompleteOrDrain, RunRaises, FailTask, MarkNotified,
        ReleaseSlot, SetFinished, registryVars
<1> QED
  BY <1>1, <1>2, <1>4 DEF Speechless

LEMMA KillerSpeechless ==
  ASSUME TypeOK, NEW k \in Killers, Kill(k) \/ KillerStep(k),
         ~KillEnqueue(k), KillMark(k) => ~Present(Of(k)) \/ registry[Of(k)].notified
  PROVE  Speechless
<1>0. Of(k) \in Agents
  BY OfType
<1>1. UNCHANGED <<says, told, worker>>
  BY DEF Kill, KillerStep, AbortRun, KillMark, workVars, noteVars
<1>2. CASE Kill(k)
  <2>1. /\ Present(Of(k)) /\ SetStatus(Of(k), "killed") /\ "killed" \in Terminal
        /\ killing' = [killing EXCEPT ![k] = registry[Of(k)].gen] /\ Goto(k, "abort")
    BY <1>2 DEF Kill, IsRunning, Terminal
  <2>2. Hushed /\ final'[Run(Of(k))] = "killed"
    BY <1>0, <2>1, HushedStatus
  <2>3. registry[Of(k)].gen \in Gens
    BY <1>0, <2>1, RunFact, EntryFacts
  <2>4. /\ killing'[k] \in Gens /\ final'[<<Of(k), killing'[k]>>] = "killed"
        /\ pc'[k] = "abort"
    BY <2>1, <2>2, <2>3 DEF TypeOK, Run, Goto
  <2>5. \A j \in Killers : j # k => pc'[j] = pc[j] /\ killing'[j] = killing[j]
    BY <2>1 DEF TypeOK, Goto
  <2> QED
    BY <1>1, <2>2, <2>4, <2>5 DEF Speechless
<1>3. CASE AbortRun(k) \/ KillMark(k)
  <2>1. UNCHANGED <<registry, killing>>
    BY <1>3 DEF AbortRun, KillMark, registryVars
  <2>2. \A j \in Killers :
          /\ pc'[j] = "enqueue" => pc[j] = "enqueue"
          /\ pc'[j] \in {"abort", "mark", "enqueue"} => pc[j] \in {"abort", "mark", "enqueue"}
    BY <1>3 DEF AbortRun, KillMark, Goto, TypeOK
  <2> QED
    BY <1>1, <2>1, <2>2, HushedSame DEF Speechless
<1> QED
  BY <1>2, <1>3 DEF KillerStep

LEMMA SweeperSpeechless ==
  ASSUME TypeOK, SweepSnapshot \/ \E a \in Agents : SweepRemove(a)
  PROVE  Speechless
<1>1. UNCHANGED <<says, told, worker, pc, killing>>
  BY DEF SweepSnapshot, SweepRemove, workVars, callVars, noteVars
<1>2. Hushed
  BY HushedSame, HushedRemoved DEF SweepSnapshot, SweepRemove, SetEntry, registryVars
<1> QED
  BY <1>1, <1>2 DEF Speechless

\* A caller moves no killer.
LEMMA KillersStay ==
  ASSUME TypeOK, NEW p \in Callers, NEW l, Goto(p, l)
  PROVE  \A k \in Killers : pc'[k] = pc[k]
BY ActorsAssumption DEF TypeOK, Goto, Callers

LEMMA SenderSpeechless ==
  ASSUME TypeOK, NEW s \in Senders, Route(s) \/ SenderStep(s)
  PROVE  Speechless
<1>0. Of(s) \in Agents /\ s \in Callers
  BY OfType
<1>1. /\ UNCHANGED <<says, told, worker, killing>>
      /\ \E l : Goto(s, l)
  BY DEF Route, SenderStep, Queue, Requeue, QueueMessage, FetchContinuation, Precheck,
         AcquireLock, Recheck, WaitFinished, workVars, noteVars
<1>2. Hushed
  <2>1. CASE (Queue(s) \/ Requeue(s)) /\ IsRunning(Of(s))
    <3>1. registry' = [registry EXCEPT ![Of(s)] =
                        [registry[Of(s)] EXCEPT !.pending = Append(registry[Of(s)].pending, s)]]
      BY <2>1 DEF Queue, Requeue, QueueMessage
    <3>2. Present(Of(s))
      BY <2>1 DEF IsRunning
    <3>3. Append(registry[Of(s)].pending, s) \in Seq(Senders)
      BY <1>0, <3>2, RunFact, EntryFacts
    <3> QED
      BY <1>0, <3>1, <3>2, <3>3, HushedInbox
  <2>2. CASE registry' = registry
    BY <2>2, HushedSame
  <2> QED
    BY <2>1, <2>2 DEF Route, SenderStep, Queue, Requeue, QueueMessage, FetchContinuation,
       Precheck, AcquireLock, Recheck, WaitFinished, registryVars
<1>3. \A k \in Killers : pc'[k] = pc[k]
  BY <1>0, <1>1, KillersStay
<1> QED
  BY <1>1, <1>2, <1>3 DEF Speechless

=============================================================================
