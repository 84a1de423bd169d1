-------------------------- MODULE LocalAgent_proofs --------------------------
(***************************************************************************)
(* Proofs about LocalAgent, for every set of agents, senders and killers   *)
(* and every bound: type correctness, at most one worker per agent id, the *)
(* meaning of the finished event, and that the agents implement the slot   *)
(* pool.                                                                   *)
(***************************************************************************)
EXTENDS LocalAgent, FiniteSetTheorems, TLAPS

(***************************************************************************)
(* Type correctness. One step per group of actions.                        *)
(***************************************************************************)
\* Every caller and killer acts on an agent.
LEMMA OfType ==
  /\ \A p \in Callers : Of(p) \in Agents
  /\ \A k \in Killers : Of(k) \in Agents
  /\ \A s \in Senders : s \in Callers /\ s \notin Agents /\ Of(s) \in Agents
  /\ \A a \in Agents : a \in Callers /\ a \notin Senders /\ Of(a) = a
BY ActorsAssumption DEF Of, Callers

\* The labels that actions move to.
LEMMA Labels ==
  /\ "launched" \in PCs /\ "refused" \in PCs /\ "register" \in PCs
  /\ "claim" \in PCs /\ "continue" \in PCs /\ "thread" \in PCs
  /\ "undoTask" \in PCs /\ "undoCont" \in PCs /\ "undoFinished" \in PCs
  /\ "undoSlot" \in PCs /\ "queue" \in PCs /\ "resume" \in PCs
  /\ "precheck" \in PCs /\ "lock" \in PCs /\ "recheck" \in PCs
  /\ "wait" \in PCs /\ "admit" \in PCs /\ "requeue" \in PCs
  /\ "queued" \in PCs /\ "resumed" \in PCs /\ "rejected" \in PCs
  /\ "abort" \in PCs /\ "mark" \in PCs /\ "enqueue" \in PCs
  /\ "done" \in PCs /\ "idle" \in PCs
BY DEF PCs, LaunchPCs, UndoPCs, SenderPCs, KillerPCs

LEMMA WorkerLabels ==
  /\ "none" \in WorkerPCs /\ "running" \in WorkerPCs /\ "raised" \in WorkerPCs
  /\ "mark" \in WorkerPCs /\ "enqueue" \in WorkerPCs /\ "release" \in WorkerPCs
  /\ "finish" \in WorkerPCs /\ "exited" \in WorkerPCs
BY DEF WorkerPCs, AliveStates

\* What an entry of the registry is made of, and what its updates yield.
LEMMA EntryFields ==
  \A e \in Entry \cup {Absent} : e # Absent =>
    /\ e.gen \in Gens
    /\ e.status \in Terminal \cup {"running"}
    /\ e.pending \in Seq(Senders)
    /\ \A st \in Terminal : [e EXCEPT !.status = st] \in Entry
    /\ \A q \in Seq(Senders) : [e EXCEPT !.pending = q] \in Entry
    /\ [e EXCEPT !.notified = TRUE] \in Entry
BY DEF Entry, Absent

\* The entry register_async_agent builds.
LEMMA NewEntry ==
  \A g \in Gens : [gen |-> g, status |-> "running", notified |-> FALSE,
                    pending |-> <<>>] \in Entry
BY DEF Entry

LEMMA InitType == Init => TypeOK
<1> SUFFICES ASSUME Init PROVE TypeOK
  OBVIOUS
<1>1. pc \in [Callers \cup Killers -> PCs] /\ worker \in [Runs -> WorkerPCs]
  BY Labels, WorkerLabels DEF Init
<1>2. registry \in [Agents -> Entry \cup {Absent}] /\ saved \in [Callers -> Entry \cup {Absent}]
  BY DEF Init
<1>3. history \in [Agents -> Seq(Senders)] /\ told \in [Runs -> Seq(Terminal \cup {"none", "running"})]
  BY DEF Init
<1> QED
  BY <1>1, <1>2, <1>3, BoundsAssumption DEF Init, TypeOK

\* A jump to a label keeps the type of pc.
LEMMA GotoType ==
  ASSUME TypeOK, NEW p, NEW l \in PCs, Goto(p, l)
  PROVE  pc' \in [Callers \cup Killers -> PCs]
BY DEF TypeOK, Goto

LEMMA MoveType ==
  ASSUME TypeOK, NEW r, NEW l \in WorkerPCs, Move(r, l)
  PROVE  worker' \in [Runs -> WorkerPCs]
BY DEF TypeOK, Move

LEMMA UnlockType ==
  ASSUME TypeOK, NEW p, Unlock(p)
  PROVE  lock' \in [Agents -> Senders \cup {NoOne}]
BY DEF TypeOK, Unlock

LEMMA SetEntryType ==
  ASSUME TypeOK, NEW a, NEW e \in Entry \cup {Absent}, SetEntry(a, e)
  PROVE  registry' \in [Agents -> Entry \cup {Absent}]
BY DEF TypeOK, SetEntry

LEMMA SetStatusType ==
  ASSUME TypeOK, NEW a \in Agents, Present(a), NEW st \in Terminal, SetStatus(a, st)
  PROVE  /\ registry' \in [Agents -> Entry \cup {Absent}]
         /\ final' \in [Runs -> Terminal \cup {"none"}]
BY EntryFields DEF TypeOK, SetStatus, Present

LEMMA TakeInboxType ==
  ASSUME TypeOK, NEW a \in Agents, Present(a), TakeInbox(a)
  PROVE  /\ registry' \in [Agents -> Entry \cup {Absent}]
         /\ history' \in [Agents -> Seq(Senders)]
<1> DEFINE e == registry[a]
<1>e. e \in Entry \cup {Absent} /\ e # Absent
  BY DEF TypeOK, Present
<1>1. e.pending \in Seq(Senders) /\ [e EXCEPT !.pending = <<>>] \in Entry
  <2>1. <<>> \in Seq(Senders)
    OBVIOUS
  <2> QED
    BY <1>e, <2>1, EntryFields
<1>2. registry' \in [Agents -> Entry \cup {Absent}]
  BY <1>1 DEF TypeOK, TakeInbox
<1>3. history[a] \o registry[a].pending \in Seq(Senders)
  BY <1>1 DEF TypeOK
<1> QED
  BY <1>2, <1>3 DEF TypeOK, TakeInbox

LEMMA MarkType ==
  ASSUME TypeOK, NEW a \in Agents, Present(a),
         registry' = [registry EXCEPT ![a].notified = TRUE]
  PROVE  registry' \in [Agents -> Entry \cup {Absent}]
<1>1. [registry[a] EXCEPT !.notified = TRUE] \in Entry
  BY EntryFields DEF TypeOK, Present
<1> QED
  BY <1>1 DEF TypeOK

LEMMA NextType == TypeOK /\ [Next]_vars => TypeOK'
<1> SUFFICES ASSUME TypeOK, [Next]_vars PROVE TypeOK'
  OBVIOUS
<1> USE DEF registryVars, contVars, callVars, workVars, msgVars, noteVars
<1>1. ASSUME NEW p \in Callers, Admit(p) PROVE TypeOK'
  <2>1. pc' \in [Callers \cup Killers -> PCs]
    BY <1>1, GotoType, Labels DEF Admit
  <2> QED
    BY <1>1, <2>1, OfType DEF Admit, TypeOK
<1>2. ASSUME NEW p \in Callers, AdmitRefused(p) PROVE TypeOK'
  <2>1. pc' \in [Callers \cup Killers -> PCs]
    BY <1>2, GotoType, Labels DEF AdmitRefused, GiveUp
  <2>2. lock' \in [Agents -> Senders \cup {NoOne}]
    BY <1>2, UnlockType DEF AdmitRefused
  <2> QED
    BY <1>2, <2>1, <2>2 DEF AdmitRefused, TypeOK
<1>3. ASSUME NEW p \in Callers, Register(p) PROVE TypeOK'
  <2> DEFINE a == Of(p)
  <2>1. pc' \in [Callers \cup Killers -> PCs]
    BY <1>3, GotoType, Labels DEF Register
  <2>2. a \in Agents /\ gens[a] + 1 \in Gens /\ gens[a] + 1 \in 0..MaxGen
    BY <1>3, OfType, BoundsAssumption DEF Register, TypeOK, Gens
  <2>3. registry' \in [Agents -> Entry \cup {Absent}]
    <3>1. [gen |-> gens[a] + 1, status |-> "running", notified |-> FALSE,
           pending |-> <<>>] \in Entry
      BY <2>2, NewEntry
    <3> QED
      BY <1>3, <3>1, SetEntryType DEF Register
  <2>4. gens' \in [Agents -> 0..MaxGen]
    BY <1>3, <2>2 DEF Register, TypeOK
  <2>5. saved' \in [Callers -> Entry \cup {Absent}]
    BY <1>3, <2>2 DEF Register, TypeOK
  <2> QED
    BY <1>3, <2>1, <2>3, <2>4, <2>5 DEF Register, TypeOK
<1>4. ASSUME NEW p \in Callers, ClaimName(p) PROVE TypeOK'
  <2>1. pc' \in [Callers \cup Killers -> PCs]
    BY <1>4, GotoType, Labels DEF ClaimName
  <2>2. registry' \in [Agents -> Entry \cup {Absent}]
    BY <1>4, SetEntryType DEF ClaimName, TypeOK
  <2> QED
    BY <1>4, <2>1, <2>2 DEF ClaimName, TypeOK
<1>5. ASSUME NEW p \in Callers, Continue(p) PROVE TypeOK'
  <2>1. pc' \in [Callers \cup Killers -> PCs]
    BY <1>5, GotoType, Labels DEF Continue
  <2>2. /\ cont' \in [Agents -> {"none", "present", "popped"}]
        /\ finished' \in [Agents -> BOOLEAN]
    BY <1>5 DEF Continue, TypeOK
  <2> QED
    BY <1>5, <2>1, <2>2 DEF Continue, TypeOK
<1>6. ASSUME NEW p \in Callers, StartThread(p) PROVE TypeOK'
  <2>1. pc' \in [Callers \cup Killers -> PCs]
    BY <1>6, GotoType, Labels DEF StartThread
  <2>2. lock' \in [Agents -> Senders \cup {NoOne}]
    BY <1>6, UnlockType DEF StartThread
  <2>3. worker' \in [Runs -> WorkerPCs]
    BY <1>6, WorkerLabels DEF StartThread, TypeOK
  <2>4. history' \in [Agents -> Seq(Senders)]
    <3>1. CASE p \in Senders
      <4>1. Of(p) \in Agents /\ history[Of(p)] \in Seq(Senders)
        BY OfType DEF TypeOK
      <4>2. Append(history[Of(p)], p) \in Seq(Senders)
        BY <3>1, <4>1
      <4> QED
        BY <1>6, <3>1, <4>2 DEF StartThread, TypeOK
    <3>2. CASE p \notin Senders
      BY <1>6, <3>2 DEF StartThread, TypeOK
    <3> QED
      BY <3>1, <3>2
  <2> QED
    BY <1>6, <2>1, <2>2, <2>3, <2>4 DEF StartThread, TypeOK
<1>7. ASSUME NEW p \in Callers, StartFails(p) PROVE TypeOK'
  <2>1. pc' \in [Callers \cup Killers -> PCs]
    BY <1>7, GotoType, Labels DEF StartFails
  <2> QED
    BY <1>7, <2>1 DEF StartFails, TypeOK
<1>8. ASSUME NEW p \in Callers, UndoTask(p) PROVE TypeOK'
  <2>1. pc' \in [Callers \cup Killers -> PCs]
    BY <1>8, GotoType, Labels DEF UndoTask
  <2>2. registry' \in [Agents -> Entry \cup {Absent}]
    BY <1>8, SetEntryType DEF UndoTask, TypeOK
  <2> QED
    BY <1>8, <2>1, <2>2 DEF UndoTask, TypeOK
<1>9. ASSUME NEW p \in Callers, UndoCont(p) PROVE TypeOK'
  <2>1. pc' \in [Callers \cup Killers -> PCs]
    BY <1>9, GotoType, Labels DEF UndoCont
  <2> QED
    BY <1>9, <2>1 DEF UndoCont, TypeOK
<1>10. ASSUME NEW p \in Callers, UndoFinished(p) PROVE TypeOK'
  <2>1. pc' \in [Callers \cup Killers -> PCs]
    BY <1>10, GotoType, Labels DEF UndoFinished
  <2> QED
    BY <1>10, <2>1 DEF UndoFinished, TypeOK
<1>11. ASSUME NEW p \in Callers, UndoSlot(p) PROVE TypeOK'
  <2>1. pc' \in [Callers \cup Killers -> PCs]
    BY <1>11, GotoType, Labels DEF UndoSlot, GiveUp
  <2>2. lock' \in [Agents -> Senders \cup {NoOne}]
    BY <1>11, UnlockType DEF UndoSlot
  <2> QED
    BY <1>11, <2>1, <2>2 DEF UndoSlot, TypeOK
<1>12. ASSUME NEW s \in Senders, Route(s) PROVE TypeOK'
  <2>1. pc' \in [Callers \cup Killers -> PCs]
    BY <1>12, GotoType, Labels DEF Route
  <2> QED
    BY <1>12, <2>1 DEF Route, TypeOK
<1>13. ASSUME NEW s \in Senders, NEW l \in PCs, QueueMessage(s, l) PROVE TypeOK'
  <2>1. pc' \in [Callers \cup Killers -> PCs]
    BY <1>13, GotoType, Labels DEF QueueMessage
  <2>2. CASE ~IsRunning(Of(s))
    BY <1>13, <2>1, <2>2 DEF QueueMessage, TypeOK
  <2>3. CASE IsRunning(Of(s))
    <3> DEFINE e == registry[Of(s)]
    <3>1. Of(s) \in Agents /\ e \in Entry \cup {Absent} /\ e # Absent
      BY <2>3, OfType DEF IsRunning, Present, TypeOK
    <3>2. e.gen \in 0..MaxGen /\ e.pending \in Seq(Senders)
      <4>1. e.gen \in Gens /\ e.pending \in Seq(Senders)
        BY <3>1, EntryFields
      <4> QED
        BY <4>1, BoundsAssumption DEF Gens
    <3>3. Append(e.pending, s) \in Seq(Senders)
      BY <3>2
    <3>4. [e EXCEPT !.pending = Append(e.pending, s)] \in Entry
      BY <3>1, <3>3, EntryFields
    <3>5. registry' \in [Agents -> Entry \cup {Absent}]
      <4>1. registry' = [registry EXCEPT ![Of(s)] =
                           [e EXCEPT !.pending = Append(e.pending, s)]]
        BY <1>13, <2>3 DEF QueueMessage
      <4> QED
        BY <4>1, <3>4 DEF TypeOK
    <3>6. queuedTo' \in [Senders -> 0..MaxGen]
      BY <1>13, <2>3, <3>2 DEF QueueMessage, TypeOK
    <3> QED
      BY <1>13, <2>1, <3>5, <3>6 DEF QueueMessage, TypeOK
  <2> QED
    BY <2>2, <2>3
<1>14. ASSUME NEW s \in Senders, FetchContinuation(s) \/ Precheck(s) PROVE TypeOK'
  <2>1. pc' \in [Callers \cup Killers -> PCs]
    BY <1>14, GotoType, Labels DEF FetchContinuation, Precheck
  <2> QED
    BY <1>14, <2>1 DEF FetchContinuation, Precheck, TypeOK
<1>15. ASSUME NEW s \in Senders, AcquireLock(s) \/ Recheck(s) \/ WaitFinished(s)
       PROVE  TypeOK'
  <2>1. pc' \in [Callers \cup Killers -> PCs]
    BY <1>15, GotoType, Labels DEF AcquireLock, Recheck, WaitFinished
  <2>2. lock' \in [Agents -> Senders \cup {NoOne}]
    BY <1>15, UnlockType DEF AcquireLock, Recheck, WaitFinished, TypeOK
  <2> QED
    BY <1>15, <2>1, <2>2 DEF AcquireLock, Recheck, WaitFinished, TypeOK
<1>17. ASSUME NEW r \in Runs, DrainRound(r) PROVE TypeOK'
  BY <1>17, TakeInboxType DEF DrainRound, TypeOK, Runs
<1>18. ASSUME NEW r \in Runs, CompleteOrDrain(r) PROVE TypeOK'
  <2> DEFINE a == r[1]
  <2>1. a \in Agents
    BY DEF Runs
  <2>2. CASE ~IsRunning(a)
    BY <1>18, <2>2, MoveType, WorkerLabels DEF CompleteOrDrain, TypeOK
  <2>3. CASE IsRunning(a) /\ registry[a].pending # <<>>
    BY <1>18, <2>1, <2>3, TakeInboxType DEF CompleteOrDrain, IsRunning, TypeOK
  <2>4. CASE IsRunning(a) /\ registry[a].pending = <<>>
    <3>1. worker' \in [Runs -> WorkerPCs]
      BY <1>18, <2>4, MoveType, WorkerLabels DEF CompleteOrDrain
    <3>2. /\ registry' \in [Agents -> Entry \cup {Absent}]
          /\ final' \in [Runs -> Terminal \cup {"none"}]
      BY <1>18, <2>1, <2>4, SetStatusType DEF CompleteOrDrain, IsRunning, Terminal
    <3> QED
      BY <1>18, <2>4, <3>1, <3>2 DEF CompleteOrDrain, TypeOK
  <2> QED
    BY <2>2, <2>3, <2>4
<1>19. ASSUME NEW r \in Runs, RunRaises(r) PROVE TypeOK'
  BY <1>19, MoveType, WorkerLabels DEF RunRaises, TypeOK
<1>20. ASSUME NEW r \in Runs, FailTask(r) PROVE TypeOK'
  <2>1. r[1] \in Agents
    BY DEF Runs
  <2>2. worker' \in [Runs -> WorkerPCs]
    BY <1>20, MoveType, WorkerLabels DEF FailTask
  <2>3. /\ registry' \in [Agents -> Entry \cup {Absent}]
        /\ final' \in [Runs -> Terminal \cup {"none"}]
    BY <1>20, <2>1, SetStatusType DEF FailTask, IsRunning, Terminal, TypeOK
  <2> QED
    BY <1>20, <2>2, <2>3 DEF FailTask, TypeOK
<1>21. ASSUME NEW r \in Runs, MarkNotified(r) PROVE TypeOK'
  <2>1. r[1] \in Agents
    BY DEF Runs
  <2>2. worker' \in [Runs -> WorkerPCs]
    BY <1>21, MoveType, WorkerLabels DEF MarkNotified
  <2>3. CASE ~Present(r[1]) \/ registry[r[1]].notified
    BY <1>21, <2>2, <2>3 DEF MarkNotified, TypeOK
  <2>4. CASE Present(r[1]) /\ ~registry[r[1]].notified
    <3>1. registry' \in [Agents -> Entry \cup {Absent}]
      BY <1>21, <2>1, <2>4, MarkType DEF MarkNotified
    <3>2. says' \in [Runs -> Terminal \cup {"none", "running"}]
      <4>1. registry[r[1]].status \in Terminal \cup {"none", "running"}
        BY <2>1, <2>4, EntryFields DEF TypeOK, Present
      <4> QED
        BY <1>21, <2>4, <4>1 DEF MarkNotified, TypeOK
    <3> QED
      BY <1>21, <2>2, <3>1, <3>2 DEF MarkNotified, TypeOK
  <2> QED
    BY <2>3, <2>4
<1>22. ASSUME NEW r \in Runs, EnqueueNotice(r) PROVE TypeOK'
  <2>1. worker' \in [Runs -> WorkerPCs]
    BY <1>22, MoveType, WorkerLabels DEF EnqueueNotice
  <2>2. told[r] \in Seq(Terminal \cup {"none", "running"})
    BY DEF TypeOK
  <2>3. says[r] \in Terminal \cup {"none", "running"}
    BY DEF TypeOK
  <2>4. Append(told[r], says[r]) \in Seq(Terminal \cup {"none", "running"})
    BY <2>2, <2>3
  <2> QED
    BY <1>22, <2>1, <2>4 DEF EnqueueNotice, TypeOK
<1>23. ASSUME NEW r \in Runs, ReleaseSlot(r) \/ SetFinished(r) PROVE TypeOK'
  <2>1. worker' \in [Runs -> WorkerPCs]
    BY <1>23, MoveType, WorkerLabels DEF ReleaseSlot, SetFinished
  <2> QED
    BY <1>23, <2>1 DEF ReleaseSlot, SetFinished, TypeOK
<1>24. ASSUME NEW k \in Killers, Kill(k) PROVE TypeOK'
  <2>1. pc' \in [Callers \cup Killers -> PCs]
    BY <1>24, GotoType, Labels DEF Kill
  <2>2. Of(k) \in Agents /\ Present(Of(k))
    BY <1>24, OfType DEF Kill, IsRunning
  <2>3. /\ registry' \in [Agents -> Entry \cup {Absent}]
        /\ final' \in [Runs -> Terminal \cup {"none"}]
    BY <1>24, <2>2, SetStatusType DEF Kill, Terminal
  <2>4. registry[Of(k)].gen \in 0..MaxGen
    <3>1. registry[Of(k)].gen \in Gens
      BY <2>2, EntryFields DEF TypeOK, Present
    <3> QED
      BY <3>1, BoundsAssumption DEF Gens
  <2> QED
    BY <1>24, <2>1, <2>3, <2>4 DEF Kill, TypeOK
<1>25. ASSUME NEW k \in Killers, AbortRun(k) PROVE TypeOK'
  <2>1. pc' \in [Callers \cup Killers -> PCs]
    BY <1>25, GotoType, Labels DEF AbortRun
  <2>2. <<Of(k), killing[k]>> \in Agents \X (0..MaxGen)
    BY OfType DEF TypeOK
  <2> QED
    BY <1>25, <2>1, <2>2 DEF AbortRun, TypeOK
<1>26. ASSUME NEW k \in Killers, KillMark(k) PROVE TypeOK'
  <2>1. pc' \in [Callers \cup Killers -> PCs]
    BY <1>26, GotoType, Labels DEF KillMark
  <2>2. registry' \in [Agents -> Entry \cup {Absent}]
    BY <1>26, OfType, MarkType DEF KillMark, TypeOK
  <2> QED
    BY <1>26, <2>1, <2>2 DEF KillMark, TypeOK
<1>27. ASSUME NEW k \in Killers, KillEnqueue(k) PROVE TypeOK'
  <2>1. pc' \in [Callers \cup Killers -> PCs]
    BY <1>27, GotoType, Labels DEF KillEnqueue
  <2>2. told' \in [Runs -> Seq(Terminal \cup {"none", "running"})]
    <3> DEFINE r == <<Of(k), killing[k]>>
    <3>1. CASE r \in Runs
      <4>1. told[r] \in Seq(Terminal \cup {"none", "running"})
        BY <3>1 DEF TypeOK
      <4>2. Append(told[r], "killed") \in Seq(Terminal \cup {"none", "running"})
        BY <4>1 DEF Terminal
      <4> QED
        BY <1>27, <4>2 DEF KillEnqueue, TypeOK
    <3>2. CASE r \notin Runs
      BY <1>27, <3>2 DEF KillEnqueue, TypeOK
    <3> QED
      BY <3>1, <3>2
  <2> QED
    BY <1>27, <2>1, <2>2 DEF KillEnqueue, TypeOK
<1>28. ASSUME SweepSnapshot PROVE TypeOK'
  BY <1>28 DEF SweepSnapshot, TypeOK
<1>29. ASSUME NEW a \in Agents, SweepRemove(a) PROVE TypeOK'
  BY <1>29, SetEntryType DEF SweepRemove, TypeOK
<1>30. CASE UNCHANGED vars
  BY <1>30 DEF vars, TypeOK
<1> QED
  <2>1. ASSUME NEW s \in Senders, SenderStep(s) PROVE TypeOK'
    BY <2>1, <1>13, <1>14, <1>15, Labels DEF SenderStep, Queue, Requeue
  <2>2. ASSUME NEW p \in Callers, LaunchStep(p) PROVE TypeOK'
    BY <2>2, <1>3, <1>4, <1>5, <1>6, <1>7, <1>8, <1>9, <1>10, <1>11 DEF LaunchStep
  <2>3. ASSUME NEW r \in Runs, WorkerStep(r) PROVE TypeOK'
    BY <2>3, <1>17, <1>18, <1>19, <1>20, <1>21, <1>22, <1>23
    DEF WorkerStep, WorkerCleanup
  <2> QED
    BY <2>1, <2>2, <2>3, <1>1, <1>2, <1>12, <1>24, <1>25, <1>26, <1>27, <1>28,
       <1>29, <1>30 DEF Next, KillerStep

\* Every variable keeps its type, whatever the interleaving.
THEOREM TypeCorrect == Spec => []TypeOK
BY InitType, NextType, PTL DEF Spec

-----------------------------------------------------------------------------
(***************************************************************************)
(* One worker per agent id. The property is not inductive: a new worker is *)
(* started long after the tests that make it safe, under the               *)
(* continuation's lock for a resume and before any sender can find the id  *)
(* finished for a first launch. The invariant says what each caller knows  *)
(* at each label.                                                          *)
(***************************************************************************)
NoWorker(a) == \A g \in Gens : ~Alive(<<a, g>>)
\* A first launch is not over: nobody may resume the id yet.
PreFinish == {"idle", "register", "claim", "continue", "thread", "undoTask",
              "undoCont", "undoFinished"}
\* A sender resumes its agent.
Resuming(s) == pc[s] \in {"admit"} \cup LaunchPCs \cup UndoPCs

\* The labels of `with continuation.lock` are exclusive to its holder.
LockInv ==
  \A s \in Senders : pc[s] \in LockedPCs => lock[Of(s)] = s

\* What a resume has established.
ResumeInv ==
  \A s \in Senders :
    /\ pc[s] \notin {"claim", "undoCont"}
    /\ pc[s] \in {"admit", "register", "continue"} => finished[Of(s)]
    /\ pc[s] = "thread" => ~finished[Of(s)] /\ cont[Of(s)] = "present"
    /\ pc[s] \in {"thread"} \cup UndoPCs => NoWorker(Of(s))

\* What a first launch has established.
FirstLaunchInv ==
  \A a \in Agents :
    /\ pc[a] \in PreFinish =>
         ~finished[a] /\ NoWorker(a) /\ \A s \in Senders : Of(s) = a => ~Resuming(s)
    /\ pc[a] = "undoSlot" => NoWorker(a)
    /\ pc[a] \in {"idle", "register"} => registry[a] = Absent
    /\ saved[a] = Absent
    /\ pc[a] \in {"idle", "register", "claim", "continue"} => cont[a] = "none"
    /\ pc[a] \in {"undoFinished", "undoSlot"} => cont[a] # "present"

WorkerInv == OneWorkerPerAgent /\ FinishedMeansGone

IInv == LockInv /\ ResumeInv /\ FirstLaunchInv /\ WorkerInv

\* Slots.
SlotInv ==
  /\ \A r \in Runs : worker[r] \in WorkingStates => r[1] \in live
  /\ \A a \in Agents : pc[a] \in LaunchPCs => a \in live
  /\ \A s \in Senders :
       pc[s] \in {"register", "continue", "thread"} /\ cont[Of(s)] = "present"
         => Of(s) \in live
  /\ \A p \in Callers : pc[p] \in {"claim", "continue", "thread"} => gens[Of(p)] \in Gens
  /\ Cardinality(live) <= MaxConcurrent

LEMMA InitIInv == Init => IInv
BY BoundsAssumption, OfType
DEF Init, IInv, LockInv, ResumeInv, FirstLaunchInv, WorkerInv, OneWorkerPerAgent,
    FinishedMeansGone, NoWorker, Resuming, Alive, AliveStates, LockedPCs,
    LaunchPCs, UndoPCs, Callers, Runs

\* Leaving the block: the holder was the only one inside.
LEMMA UnlockStep ==
  ASSUME TypeOK, LockInv, NEW p \in Callers, NEW l \in PCs, Unlock(p), Goto(p, l),
         p \in Senders => pc[p] \in LockedPCs /\ l \notin LockedPCs
  PROVE  LockInv'
<1>1. CASE p \in Agents
  <2>1. lock' = lock /\ \A s \in Senders : pc'[s] = pc[s]
    BY <1>1, OfType DEF Unlock, Goto, TypeOK, Callers
  <2> QED
    BY <2>1, OfType DEF LockInv, Of
<1>2. CASE p \in Senders
  <2>1. SUFFICES ASSUME NEW s \in Senders, pc'[s] \in LockedPCs
                 PROVE  lock'[Of(s)] = s
    BY DEF LockInv, Of
  <2>2. s # p /\ pc[s] \in LockedPCs
    BY <1>2, <2>1 DEF Goto, TypeOK, Callers
  <2>3. lock[Of(s)] = s /\ lock[Of(p)] = p
    BY <1>2, <2>2 DEF LockInv
  <2> QED
    BY <1>2, <2>2, <2>3, OfType DEF Unlock, TypeOK
<1> QED
  BY <1>1, <1>2 DEF Callers

\* Who holds the lock of a continuation keeps it until it leaves the block.
LEMMA LockStep == TypeOK /\ LockInv /\ [Next]_vars => LockInv'
<1> SUFFICES ASSUME TypeOK, LockInv, [Next]_vars PROVE LockInv'
  OBVIOUS
<1> USE OfType DEF TypeOK, LockInv, LockedPCs, LaunchPCs, UndoPCs, Goto, Callers
<1>1. ASSUME NEW p \in Callers, Admit(p) \/ StartFails(p) PROVE LockInv'
  BY <1>1 DEF Admit, StartFails, contVars
<1>2. ASSUME NEW p \in Callers, AdmitRefused(p) \/ UndoSlot(p) \/ StartThread(p)
      PROVE  LockInv'
  <2>1. PICK l \in {"requeue", "resumed", "refused", "launched"} : Goto(p, l)
    BY <1>2 DEF AdmitRefused, UndoSlot, StartThread, GiveUp
  <2>2. Unlock(p) /\ (p \in Senders => pc[p] \in LockedPCs)
    BY <1>2 DEF AdmitRefused, UndoSlot, StartThread
  <2>3. l \in PCs /\ l \notin LockedPCs
    BY Labels
  <2> HIDE DEF TypeOK, LockInv, LockedPCs, Goto, Callers
  <2> QED
    BY <2>1, <2>2, <2>3, UnlockStep
<1>3. ASSUME NEW p \in Callers, Register(p) \/ ClaimName(p) \/ Continue(p)
      PROVE  LockInv'
  BY <1>3 DEF Register, ClaimName, Continue, contVars
<1>4. ASSUME NEW p \in Callers, UndoTask(p) \/ UndoCont(p) \/ UndoFinished(p)
      PROVE  LockInv'
  BY <1>4 DEF UndoTask, UndoCont, UndoFinished, contVars
<1>5. ASSUME NEW s \in Senders,
             Route(s) \/ Queue(s) \/ Requeue(s) \/ FetchContinuation(s) \/ Precheck(s)
      PROVE  LockInv'
  BY <1>5 DEF Route, Queue, Requeue, QueueMessage, FetchContinuation, Precheck, contVars
<1>6. ASSUME NEW s \in Senders, AcquireLock(s) PROVE LockInv'
  BY <1>6, ActorsAssumption DEF AcquireLock
<1>7. ASSUME NEW s \in Senders, Recheck(s) \/ WaitFinished(s) PROVE LockInv'
  <2>1. CASE UNCHANGED lock /\ pc[s] \in LockedPCs /\ \E l \in LockedPCs : Goto(s, l)
    BY <2>1
  <2>2. CASE Unlock(s) /\ pc[s] \in LockedPCs /\ Goto(s, "requeue")
    BY <2>2, UnlockStep, Labels
  <2> QED
    BY <1>7, <2>1, <2>2 DEF Recheck, WaitFinished
<1>8. ASSUME NEW r \in Runs, WorkerStep(r) PROVE LockInv'
  BY <1>8 DEF WorkerStep, WorkerCleanup, DrainRound, CompleteOrDrain, RunRaises,
              FailTask, MarkNotified, EnqueueNotice, ReleaseSlot, SetFinished,
              callVars, contVars
<1>9. ASSUME NEW k \in Killers, Kill(k) \/ KillerStep(k) PROVE LockInv'
  BY <1>9, ActorsAssumption
  DEF Kill, KillerStep, AbortRun, KillMark, KillEnqueue, contVars
<1>10. ASSUME SweepSnapshot \/ \E a \in Agents : SweepRemove(a) PROVE LockInv'
  BY <1>10 DEF SweepSnapshot, SweepRemove, callVars, contVars
<1>11. CASE UNCHANGED vars
  BY <1>11 DEF vars, callVars, contVars
<1> HIDE DEF TypeOK, LockInv, LockedPCs, LaunchPCs, UndoPCs, Goto, Callers
<1> QED
  BY <1>1, <1>2, <1>3, <1>4, <1>5, <1>6, <1>7, <1>8, <1>9, <1>10, <1>11
  DEF Next, LaunchStep, SenderStep

\* A step that starts and ends no worker and takes no caller to a label the
\* invariant speaks of.
Neutral ==
  /\ UNCHANGED <<gens, live, cont, finished, saved>>
  /\ \A a \in Agents : pc'[a] = pc[a] \/ pc'[a] = "refused"
  /\ \A s \in Senders : pc'[s] = pc[s] \/ pc'[s] \notin {"admit"} \cup LaunchPCs \cup UndoPCs
  /\ \A r \in Runs : worker'[r] \in AliveStates <=> worker[r] \in AliveStates
  /\ \A r \in Runs : worker'[r] \in WorkingStates <=> worker[r] \in WorkingStates
  /\ \A a \in Agents : registry[a] = Absent => registry'[a] = Absent

LEMMA NeutralStep == IInv /\ SlotInv /\ LockInv' /\ Neutral => IInv' /\ SlotInv'
<1> SUFFICES ASSUME IInv, SlotInv, LockInv', Neutral PROVE IInv' /\ SlotInv'
  OBVIOUS
<1> USE DEF Neutral
<1>0. \A a \in Agents : NoWorker(a) => NoWorker(a)'
  BY DEF NoWorker, Alive, Runs
<1>1. ResumeInv'
  BY <1>0, OfType DEF IInv, ResumeInv, LaunchPCs, UndoPCs
<1>2. FirstLaunchInv'
  BY <1>0, OfType DEF IInv, FirstLaunchInv, PreFinish, Resuming, LaunchPCs, UndoPCs
<1>3. WorkerInv'
  BY DEF IInv, WorkerInv, OneWorkerPerAgent, FinishedMeansGone, Alive, Runs
<1>4. SlotInv'
  BY OfType DEF SlotInv, LaunchPCs, UndoPCs, Callers
<1> QED
  BY <1>1, <1>2, <1>3, <1>4 DEF IInv

\* Most actions are neutral.
LEMMA CallersOnly ==
  ASSUME TypeOK, NEW k \in Killers, NEW l \in PCs, Goto(k, l)
  PROVE  \A p \in Callers : pc'[p] = pc[p]
BY ActorsAssumption DEF TypeOK, Goto, Callers

\* An update of an entry that is there creates no entry.
LEMMA UpdatePresent ==
  ASSUME TypeOK, NEW a \in Agents, NEW e, Present(a), registry' = [registry EXCEPT ![a] = e]
  PROVE  \A b \in Agents : registry[b] = Absent => registry'[b] = Absent
BY DEF TypeOK, Present

LEMMA WorkerNeutral ==
  ASSUME TypeOK, NEW r \in Runs,
         \/ DrainRound(r) \/ CompleteOrDrain(r) \/ RunRaises(r) \/ FailTask(r)
         \/ MarkNotified(r) \/ EnqueueNotice(r)
  PROVE  Neutral
<1>0. r[1] \in Agents
  BY DEF Runs
<1>1. UNCHANGED <<gens, live, cont, finished, saved, pc>>
  BY DEF DrainRound, CompleteOrDrain, RunRaises, FailTask, MarkNotified,
         EnqueueNotice, registryVars, contVars, callVars
<1>2. \/ worker' = worker
      \/ \E l \in {"raised", "mark", "enqueue", "release"} : Move(r, l) /\ worker[r] \in WorkingStates
  BY DEF DrainRound, CompleteOrDrain, RunRaises, FailTask, MarkNotified,
         EnqueueNotice, workVars, At, WorkingStates, AliveStates
<1>3. \/ registry' = registry
      \/ Present(r[1]) /\ \E e : registry' = [registry EXCEPT ![r[1]] = e]
  BY DEF DrainRound, CompleteOrDrain, RunRaises, FailTask, MarkNotified,
         EnqueueNotice, registryVars, TakeInbox, SetStatus, IsRunning
<1>4. \A b \in Agents : registry[b] = Absent => registry'[b] = Absent
  BY <1>0, <1>3, UpdatePresent
<1>5. \A q \in Runs : /\ worker'[q] \in AliveStates <=> worker[q] \in AliveStates
                      /\ worker'[q] \in WorkingStates <=> worker[q] \in WorkingStates
  BY <1>2 DEF Move, TypeOK, WorkingStates, AliveStates
<1> QED
  BY <1>1, <1>4, <1>5 DEF Neutral

LEMMA KillerNeutral ==
  ASSUME TypeOK, NEW k \in Killers, Kill(k) \/ KillerStep(k)
  PROVE  Neutral
<1>0. Of(k) \in Agents
  BY OfType
<1>1. UNCHANGED <<gens, live, cont, finished, saved, worker>>
  BY DEF Kill, KillerStep, AbortRun, KillMark, KillEnqueue, registryVars,
         contVars, workVars
<1>2. \E l \in PCs : Goto(k, l)
  BY Labels DEF Kill, KillerStep, AbortRun, KillMark, KillEnqueue
<1>3. \/ registry' = registry
      \/ Present(Of(k)) /\ \E e : registry' = [registry EXCEPT ![Of(k)] = e]
  BY DEF Kill, KillerStep, AbortRun, KillMark, KillEnqueue, registryVars,
         SetStatus, IsRunning
<1>4. \A b \in Agents : registry[b] = Absent => registry'[b] = Absent
  BY <1>0, <1>3, UpdatePresent
<1>5. \A p \in Callers : pc'[p] = pc[p]
  BY <1>2, CallersOnly
<1> QED
  BY <1>1, <1>4, <1>5 DEF Neutral, Callers

LEMMA SweeperNeutral ==
  ASSUME TypeOK, SweepSnapshot \/ \E a \in Agents : SweepRemove(a)
  PROVE  Neutral
<1>1. UNCHANGED <<gens, live, cont, finished, saved, pc, worker>>
  BY DEF SweepSnapshot, SweepRemove, registryVars, contVars, callVars, workVars
<1>2. \A b \in Agents : registry[b] = Absent => registry'[b] = Absent
  BY DEF SweepSnapshot, SweepRemove, registryVars, SetEntry, TypeOK
<1> QED
  BY <1>1, <1>2 DEF Neutral

LEMMA SenderNeutral ==
  ASSUME TypeOK, NEW s \in Senders,
         \/ AdmitRefused(s) \/ Route(s) \/ Queue(s) \/ Requeue(s)
         \/ FetchContinuation(s) \/ Precheck(s) \/ AcquireLock(s) \/ Recheck(s)
         \/ WaitFinished(s) /\ ~finished[Of(s)]
  PROVE  Neutral
<1>0. Of(s) \in Agents /\ s \notin Agents
  BY OfType
<1>1. UNCHANGED <<gens, live, cont, finished, saved, worker>>
  BY DEF AdmitRefused, Route, Queue, Requeue, QueueMessage, FetchContinuation,
         Precheck, AcquireLock, Recheck, WaitFinished, registryVars, contVars, workVars
<1>2. \E l \in {"rejected", "queue", "resume", "queued", "requeue", "precheck",
                "lock", "recheck", "wait"} : Goto(s, l)
  BY DEF AdmitRefused, Route, Queue, Requeue, QueueMessage, FetchContinuation,
         Precheck, AcquireLock, Recheck, WaitFinished, GiveUp
<1>3. \/ registry' = registry
      \/ Present(Of(s)) /\ \E e : registry' = [registry EXCEPT ![Of(s)] = e]
  BY DEF AdmitRefused, Route, Queue, Requeue, QueueMessage, FetchContinuation,
         Precheck, AcquireLock, Recheck, WaitFinished, registryVars, IsRunning
<1>4. \A b \in Agents : registry[b] = Absent => registry'[b] = Absent
  BY <1>0, <1>3, UpdatePresent
<1>5. /\ \A a \in Agents : pc'[a] = pc[a]
      /\ \A t \in Senders : pc'[t] = pc[t] \/ pc'[t] \notin {"admit"} \cup LaunchPCs \cup UndoPCs
  BY <1>0, <1>2 DEF Goto, TypeOK, Callers, LaunchPCs, UndoPCs
<1> QED
  BY <1>1, <1>4, <1>5 DEF Neutral

LEMMA SpawnRefusedNeutral ==
  ASSUME TypeOK, NEW a \in Agents, AdmitRefused(a)
  PROVE  Neutral
<1>1. UNCHANGED <<registry, gens, live, cont, finished, saved, worker>>
  BY DEF AdmitRefused, registryVars, workVars
<1>2. Goto(a, "refused")
  BY OfType DEF AdmitRefused, GiveUp
<1>3. \A b \in Agents : pc'[b] = pc[b] \/ pc'[b] = "refused"
  BY <1>2 DEF Goto, TypeOK, Callers
<1>4. \A s \in Senders : pc'[s] = pc[s]
  BY <1>2, OfType DEF Goto, TypeOK, Callers
<1> QED
  BY <1>1, <1>3, <1>4 DEF Neutral

\* The other actions, one lemma each.
LEMMA AdmitStep ==
  ASSUME TypeOK, IInv, LockInv', NEW p \in Callers, Admit(p)
  PROVE  IInv'
<1> USE OfType DEF TypeOK, Goto, Callers, registryVars, contVars, workVars,
                   LaunchPCs, UndoPCs, PreFinish, Resuming
<1>0. \A a \in Agents : NoWorker(a)' <=> NoWorker(a)
  BY DEF Admit, NoWorker, Alive
<1>1. ResumeInv'
  BY <1>0 DEF Admit, IInv, ResumeInv
<1>2. FirstLaunchInv'
  BY <1>0 DEF Admit, IInv, FirstLaunchInv
<1>3. WorkerInv'
  BY <1>0 DEF Admit, IInv, WorkerInv, OneWorkerPerAgent, FinishedMeansGone, Alive
<1> QED
  BY <1>1, <1>2, <1>3 DEF IInv

LEMMA RegisterStep ==
  ASSUME TypeOK, IInv, LockInv', NEW p \in Callers, Register(p)
  PROVE  IInv'
<1> USE OfType DEF TypeOK, Goto, Callers, registryVars, contVars, workVars,
                   LaunchPCs, UndoPCs, PreFinish, Resuming
<1>0. \A a \in Agents : NoWorker(a)' <=> NoWorker(a)
  BY DEF Register, NoWorker, Alive
<1>1. ResumeInv'
  BY <1>0 DEF Register, IInv, ResumeInv
<1>2. FirstLaunchInv'
  BY <1>0 DEF Register, SetEntry, IInv, FirstLaunchInv
<1>3. WorkerInv'
  BY <1>0 DEF Register, IInv, WorkerInv, OneWorkerPerAgent, FinishedMeansGone, Alive
<1> QED
  BY <1>1, <1>2, <1>3 DEF IInv

LEMMA ClaimStep ==
  ASSUME TypeOK, IInv, LockInv', NEW p \in Callers, ClaimName(p)
  PROVE  IInv'
<1> USE OfType DEF TypeOK, Goto, Callers, registryVars, contVars, workVars,
                   LaunchPCs, UndoPCs, PreFinish, Resuming
<1>0. \A a \in Agents : NoWorker(a)' <=> NoWorker(a)
  BY DEF ClaimName, NoWorker, Alive
<1>1. ResumeInv'
  BY <1>0 DEF ClaimName, IInv, ResumeInv
<1>2. FirstLaunchInv'
  BY <1>0 DEF ClaimName, SetEntry, IInv, FirstLaunchInv
<1>3. WorkerInv'
  BY <1>0 DEF ClaimName, IInv, WorkerInv, OneWorkerPerAgent, FinishedMeansGone, Alive
<1> QED
  BY <1>1, <1>2, <1>3 DEF IInv

\* Two senders that hold the same continuation's lock are one.
LEMMA LockExclusive ==
  ASSUME LockInv
  PROVE  \A s, t \in Senders : Of(s) = Of(t) /\ pc[s] \in LockedPCs /\ pc[t] \in LockedPCs => s = t
BY DEF LockInv

LEMMA ContinueStep ==
  ASSUME TypeOK, IInv, LockInv', NEW p \in Callers, Continue(p)
  PROVE  IInv'
<1>l. LockInv
  BY DEF IInv
<1> USE OfType DEF TypeOK, Goto, Callers, registryVars, contVars, workVars,
                   LaunchPCs, UndoPCs, PreFinish, Resuming
<1>0. \A a \in Agents : NoWorker(a)' <=> NoWorker(a)
  BY DEF Continue, NoWorker, Alive
<1>w. NoWorker(Of(p))
  BY DEF Continue, IInv, FirstLaunchInv, ResumeInv, WorkerInv, FinishedMeansGone, NoWorker
<1>1. ResumeInv'
  BY <1>0, <1>w, <1>l, LockExclusive DEF Continue, IInv, ResumeInv, FirstLaunchInv, LockedPCs
<1>2. FirstLaunchInv'
  <2>1. CASE p \in Agents
    BY <1>0, <1>w, <2>1 DEF Continue, IInv, FirstLaunchInv
  <2>2. CASE p \in Senders
    <3>1. pc[Of(p)] \notin PreFinish
      BY <2>2 DEF Continue, IInv, FirstLaunchInv
    <3>2. cont' = cont
      BY <2>2 DEF Continue
    <3> QED
      BY <1>0, <2>2, <3>1, <3>2 DEF Continue, IInv, FirstLaunchInv
  <2> QED
    BY <2>1, <2>2
<1>3. WorkerInv'
  BY <1>0 DEF Continue, IInv, WorkerInv, OneWorkerPerAgent, FinishedMeansGone, Alive
<1> QED
  BY <1>1, <1>2, <1>3 DEF IInv

LEMMA StartThreadStep ==
  ASSUME TypeOK, IInv, LockInv', NEW p \in Callers, StartThread(p)
  PROVE  IInv'
<1>l. LockInv
  BY DEF IInv
<1> USE OfType DEF TypeOK, Goto, Callers, registryVars, contVars, workVars,
                   LaunchPCs, UndoPCs, PreFinish, Resuming
<1>w. NoWorker(Of(p))
  BY DEF StartThread, IInv, FirstLaunchInv, ResumeInv
<1>0. \A a \in Agents : a # Of(p) => (NoWorker(a)' <=> NoWorker(a))
  BY DEF StartThread, NoWorker, Alive, Runs
<1>f. ~finished[Of(p)]
  BY DEF StartThread, IInv, FirstLaunchInv, ResumeInv
<1>1. ResumeInv'
  BY <1>0, <1>l, LockExclusive DEF StartThread, IInv, ResumeInv, FirstLaunchInv, LockedPCs
<1>2. FirstLaunchInv'
  BY <1>0, <1>w DEF StartThread, IInv, FirstLaunchInv, ResumeInv
<1>3. WorkerInv'
  BY <1>0, <1>w, <1>f DEF StartThread, IInv, WorkerInv, OneWorkerPerAgent, FinishedMeansGone, Alive, NoWorker, Runs
<1> QED
  BY <1>1, <1>2, <1>3 DEF IInv

LEMMA StartFailsStep ==
  ASSUME TypeOK, IInv, LockInv', NEW p \in Callers, StartFails(p)
  PROVE  IInv'
<1> USE OfType DEF TypeOK, Goto, Callers, registryVars, contVars, workVars,
                   LaunchPCs, UndoPCs, PreFinish, Resuming
<1>0. \A a \in Agents : NoWorker(a)' <=> NoWorker(a)
  BY DEF StartFails, NoWorker, Alive
<1>1. ResumeInv'
  BY <1>0 DEF StartFails, IInv, ResumeInv
<1>2. FirstLaunchInv'
  BY <1>0 DEF StartFails, IInv, FirstLaunchInv
<1>3. WorkerInv'
  BY <1>0 DEF StartFails, IInv, WorkerInv, OneWorkerPerAgent, FinishedMeansGone, Alive
<1> QED
  BY <1>1, <1>2, <1>3 DEF IInv

LEMMA UndoTaskStep ==
  ASSUME TypeOK, IInv, LockInv', NEW p \in Callers, UndoTask(p)
  PROVE  IInv'
<1> USE OfType DEF TypeOK, Goto, Callers, registryVars, contVars, workVars,
                   LaunchPCs, UndoPCs, PreFinish, Resuming
<1>0. \A a \in Agents : NoWorker(a)' <=> NoWorker(a)
  BY DEF UndoTask, NoWorker, Alive
<1>1. ResumeInv'
  BY <1>0 DEF UndoTask, IInv, ResumeInv
<1>2. FirstLaunchInv'
  BY <1>0 DEF UndoTask, SetEntry, IInv, FirstLaunchInv
<1>3. WorkerInv'
  BY <1>0 DEF UndoTask, IInv, WorkerInv, OneWorkerPerAgent, FinishedMeansGone, Alive
<1> QED
  BY <1>1, <1>2, <1>3 DEF IInv

LEMMA UndoContStep ==
  ASSUME TypeOK, IInv, LockInv', NEW p \in Callers, UndoCont(p)
  PROVE  IInv'
<1> USE OfType DEF TypeOK, Goto, Callers, registryVars, contVars, workVars,
                   LaunchPCs, UndoPCs, PreFinish, Resuming
<1>0. \A a \in Agents : NoWorker(a)' <=> NoWorker(a)
  BY DEF UndoCont, NoWorker, Alive
<1>1. ResumeInv'
  BY <1>0 DEF UndoCont, IInv, ResumeInv, FirstLaunchInv
<1>2. FirstLaunchInv'
  BY <1>0 DEF UndoCont, IInv, FirstLaunchInv
<1>3. WorkerInv'
  BY <1>0 DEF UndoCont, IInv, WorkerInv, OneWorkerPerAgent, FinishedMeansGone, Alive
<1> QED
  BY <1>1, <1>2, <1>3 DEF IInv

LEMMA UndoFinishedStep ==
  ASSUME TypeOK, IInv, LockInv', NEW p \in Callers, UndoFinished(p)
  PROVE  IInv'
<1>l. LockInv
  BY DEF IInv
<1> USE OfType DEF TypeOK, Goto, Callers, registryVars, contVars, workVars,
                   LaunchPCs, UndoPCs, PreFinish, Resuming
<1>0. \A a \in Agents : NoWorker(a)' <=> NoWorker(a)
  BY DEF UndoFinished, NoWorker, Alive
<1>w. NoWorker(Of(p))
  BY DEF UndoFinished, IInv, FirstLaunchInv, ResumeInv
<1>1. ResumeInv'
  BY <1>0, <1>l, LockExclusive DEF UndoFinished, IInv, ResumeInv, FirstLaunchInv, LockedPCs
<1>2. FirstLaunchInv'
  BY <1>0 DEF UndoFinished, IInv, FirstLaunchInv
<1>3. WorkerInv'
  BY <1>0, <1>w DEF UndoFinished, IInv, WorkerInv, OneWorkerPerAgent, FinishedMeansGone,
                    Alive, NoWorker
<1> QED
  BY <1>1, <1>2, <1>3 DEF IInv

LEMMA UndoSlotStep ==
  ASSUME TypeOK, IInv, LockInv', NEW p \in Callers, UndoSlot(p)
  PROVE  IInv'
<1> USE OfType DEF TypeOK, Goto, Callers, registryVars, contVars, workVars,
                   LaunchPCs, UndoPCs, PreFinish, Resuming
<1>0. \A a \in Agents : NoWorker(a)' <=> NoWorker(a)
  BY DEF UndoSlot, NoWorker, Alive
<1>1. ResumeInv'
  BY <1>0 DEF UndoSlot, GiveUp, IInv, ResumeInv
<1>2. FirstLaunchInv'
  BY <1>0 DEF UndoSlot, GiveUp, IInv, FirstLaunchInv
<1>3. WorkerInv'
  BY <1>0 DEF UndoSlot, IInv, WorkerInv, OneWorkerPerAgent, FinishedMeansGone, Alive
<1> QED
  BY <1>1, <1>2, <1>3 DEF IInv

LEMMA WaitFinishedStep ==
  ASSUME TypeOK, IInv, LockInv', NEW s \in Senders, WaitFinished(s), finished[Of(s)]
  PROVE  IInv'
<1> USE OfType DEF TypeOK, Goto, Callers, registryVars, contVars, workVars,
                   LaunchPCs, UndoPCs, PreFinish, Resuming
<1>0. \A a \in Agents : NoWorker(a)' <=> NoWorker(a)
  BY DEF WaitFinished, NoWorker, Alive
<1>1. ResumeInv'
  BY <1>0 DEF WaitFinished, IInv, ResumeInv
<1>2. FirstLaunchInv'
  BY <1>0 DEF WaitFinished, IInv, FirstLaunchInv
<1>3. WorkerInv'
  BY <1>0 DEF WaitFinished, IInv, WorkerInv, OneWorkerPerAgent, FinishedMeansGone, Alive
<1> QED
  BY <1>1, <1>2, <1>3 DEF IInv

LEMMA ReleaseSlotStep ==
  ASSUME TypeOK, IInv, LockInv', NEW r \in Runs, ReleaseSlot(r)
  PROVE  IInv'
<1> USE OfType DEF TypeOK, Callers, registryVars, contVars, callVars
<1>1. \A q \in Runs : worker'[q] \in AliveStates <=> worker[q] \in AliveStates
  BY DEF ReleaseSlot, Move, At, AliveStates
<1>0. \A a \in Agents : NoWorker(a)' <=> NoWorker(a)
  BY <1>1 DEF NoWorker, Alive, Runs
<1>2. ResumeInv'
  BY <1>0 DEF ReleaseSlot, IInv, ResumeInv
<1>3. FirstLaunchInv'
  BY <1>0 DEF ReleaseSlot, IInv, FirstLaunchInv, Resuming
<1>4. WorkerInv'
  BY <1>1 DEF ReleaseSlot, IInv, WorkerInv, OneWorkerPerAgent, FinishedMeansGone, Alive, Runs
<1> QED
  BY <1>2, <1>3, <1>4 DEF IInv

LEMMA SetFinishedStep ==
  ASSUME TypeOK, IInv, LockInv', NEW r \in Runs, SetFinished(r)
  PROVE  IInv'
<1> USE OfType DEF TypeOK, Callers, registryVars, contVars, callVars
<1> DEFINE a == r[1]
<1>a. a \in Agents /\ ~NoWorker(a) /\ \E g \in Gens : r = <<a, g>> /\ Alive(r)
  BY DEF Runs, NoWorker, SetFinished, At, Alive, AliveStates
<1>0. /\ \A b \in Agents : NoWorker(b) => NoWorker(b)'
      /\ \A q \in Runs : worker'[q] \in AliveStates <=> q # r /\ worker[q] \in AliveStates
  BY DEF SetFinished, Move, At, AliveStates, NoWorker, Alive, Runs
<1>w. NoWorker(a)'
  BY <1>a, <1>0 DEF IInv, WorkerInv, OneWorkerPerAgent, NoWorker, Alive, Runs
<1>2. ResumeInv'
  BY <1>0, <1>a DEF SetFinished, IInv, ResumeInv
<1>3. FirstLaunchInv'
  BY <1>0, <1>a DEF SetFinished, IInv, FirstLaunchInv, Resuming
<1>4. WorkerInv'
  BY <1>0, <1>w DEF SetFinished, IInv, WorkerInv, OneWorkerPerAgent, FinishedMeansGone,
                    Alive, NoWorker, Runs
<1> QED
  BY <1>2, <1>3, <1>4 DEF IInv

LEMMA IInvStep == TypeOK /\ IInv /\ SlotInv /\ [Next]_vars => IInv'
<1> SUFFICES ASSUME TypeOK, IInv, SlotInv, [Next]_vars PROVE IInv'
  OBVIOUS
<1>l. LockInv'
  BY LockStep DEF IInv
<1>n. Neutral => IInv'
  BY <1>l, NeutralStep
<1>1. ASSUME NEW p \in Callers, Admit(p) \/ AdmitRefused(p) \/ LaunchStep(p)
      PROVE  IInv'
  <2>1. CASE AdmitRefused(p)
    BY <1>n, <2>1, SenderNeutral, SpawnRefusedNeutral DEF Callers
  <2> QED
    BY <1>1, <2>1, <1>l, AdmitStep, RegisterStep, ClaimStep, ContinueStep,
       StartThreadStep, StartFailsStep, UndoTaskStep, UndoContStep,
       UndoFinishedStep, UndoSlotStep DEF LaunchStep
<1>2. ASSUME NEW s \in Senders, Route(s) \/ SenderStep(s) PROVE IInv'
  <2>1. CASE WaitFinished(s) /\ finished[Of(s)]
    BY <1>l, <2>1, WaitFinishedStep
  <2> QED
    BY <1>2, <2>1, <1>n, SenderNeutral DEF SenderStep
<1>3. ASSUME NEW r \in Runs, WorkerStep(r) PROVE IInv'
  BY <1>3, <1>l, <1>n, WorkerNeutral, ReleaseSlotStep, SetFinishedStep
  DEF WorkerStep, WorkerCleanup
<1>4. ASSUME NEW k \in Killers, Kill(k) \/ KillerStep(k) PROVE IInv'
  BY <1>4, <1>n, KillerNeutral
<1>5. ASSUME SweepSnapshot \/ \E a \in Agents : SweepRemove(a) PROVE IInv'
  BY <1>5, <1>n, SweeperNeutral
<1>6. CASE UNCHANGED vars
  <2>1. Neutral
    BY <1>6 DEF vars, Neutral, registryVars, contVars, callVars, workVars
  <2> QED
    BY <1>n, <2>1
<1> QED
  BY <1>1, <1>2, <1>3, <1>4, <1>5, <1>6 DEF Next

-----------------------------------------------------------------------------
(***************************************************************************)
(* Slots: every working worker holds one, and there are never more than    *)
(* MaxConcurrent.                                                          *)
(***************************************************************************)
\* A set of agents is finite; adding one adds at most one.
LEMMA LiveCard ==
  ASSUME NEW S \in SUBSET Agents
  PROVE  /\ IsFiniteSet(S) /\ Cardinality(S) \in Nat
         /\ \A a \in Agents : Cardinality(S \ {a}) <= Cardinality(S)
         /\ \A a \in Agents : a \in S => Cardinality(S \cup {a}) = Cardinality(S)
         /\ \A a \in Agents : a \notin S => Cardinality(S \cup {a}) = Cardinality(S) + 1
<1>1. IsFiniteSet(S)
  BY ActorsAssumption, FS_Subset
<1>2. \A a \in Agents : a \in S => S \cup {a} = S
  OBVIOUS
<1>3. \A a \in Agents : S \ {a} \subseteq S
  OBVIOUS
<1> QED
  BY <1>1, <1>2, <1>3, FS_AddElement, FS_Subset, FS_CardinalityType

LEMMA ShrunkCard ==
  ASSUME NEW S \in SUBSET Agents, NEW a \in Agents, Cardinality(S) <= MaxConcurrent
  PROVE  Cardinality(S \ {a}) <= MaxConcurrent
<1>1. S \ {a} \in SUBSET Agents
  OBVIOUS
<1>2. /\ Cardinality(S) \in Nat /\ Cardinality(S \ {a}) \in Nat
      /\ Cardinality(S \ {a}) <= Cardinality(S)
  BY <1>1, LiveCard
<1> QED
  BY <1>2, BoundsAssumption

LEMMA InitSlotInv == Init => SlotInv
<1>1. Cardinality({}) = 0
  BY FS_EmptySet
<1> QED
  BY <1>1, BoundsAssumption
  DEF Init, SlotInv, WorkingStates, AliveStates, LaunchPCs, Callers, Runs

LEMMA SlotStep == TypeOK /\ IInv /\ SlotInv /\ [Next]_vars => SlotInv'
<1> SUFFICES ASSUME TypeOK, IInv, SlotInv, [Next]_vars PROVE SlotInv'
  OBVIOUS
<1>l. LockInv' /\ LockInv
  BY LockStep DEF IInv
<1>n. Neutral => SlotInv'
  BY <1>l, NeutralStep
<1> USE OfType DEF TypeOK, Goto, Callers, registryVars, contVars, callVars, workVars,
                   LaunchPCs, UndoPCs
<1>1. ASSUME NEW p \in Callers, Admit(p) PROVE SlotInv'
  <2>1. Cardinality(live') <= MaxConcurrent
    <3>1. /\ live' = live \cup {Of(p)} /\ Of(p) \in Agents
          /\ Of(p) \in live \/ Cardinality(live) < MaxConcurrent
          /\ Cardinality(live) <= MaxConcurrent
      BY <1>1 DEF Admit, SlotInv
    <3>2. /\ Cardinality(live) \in Nat
          /\ Of(p) \in live => Cardinality(live') = Cardinality(live)
          /\ Of(p) \notin live => Cardinality(live') = Cardinality(live) + 1
      BY <3>1, LiveCard
    <3> QED
      BY <3>1, <3>2, BoundsAssumption
  <2> QED
    BY <1>1, <2>1 DEF Admit, SlotInv
<1>2. ASSUME NEW p \in Callers, Register(p) PROVE SlotInv'
  <2>1. gens[Of(p)] + 1 \in Gens
    BY <1>2, BoundsAssumption DEF Register, Gens
  <2> QED
    BY <1>2, <2>1 DEF Register, SlotInv, IInv, ResumeInv, FirstLaunchInv, PreFinish, Resuming
<1>3. ASSUME NEW p \in Callers, ClaimName(p) \/ StartFails(p) PROVE SlotInv'
  BY <1>3 DEF ClaimName, StartFails, SlotInv
<1>4. ASSUME NEW p \in Callers, Continue(p) PROVE SlotInv'
  <2>1. CASE p \in Agents
    BY <1>4, <2>1 DEF Continue, SlotInv
  <2>2. CASE p \in Senders
    BY <1>4, <2>2 DEF Continue, SlotInv
  <2> QED
    BY <2>1, <2>2
<1>5. ASSUME NEW p \in Callers, StartThread(p) PROVE SlotInv'
  <2>1. Of(p) \in live
    BY <1>5 DEF StartThread, SlotInv, IInv, ResumeInv
  <2> QED
    BY <1>5, <2>1 DEF StartThread, SlotInv, Runs
<1>6. ASSUME NEW p \in Callers, UndoTask(p) \/ UndoCont(p) \/ UndoFinished(p)
      PROVE  SlotInv'
  BY <1>6 DEF UndoTask, UndoCont, UndoFinished, SlotInv
<1>7. ASSUME NEW p \in Callers, UndoSlot(p) PROVE SlotInv'
  <2>1. Cardinality(live') <= MaxConcurrent
    <3>1. live' = live \ {Of(p)} /\ Cardinality(live) <= MaxConcurrent
      BY <1>7 DEF UndoSlot, SlotInv
    <3> QED
      BY <3>1, ShrunkCard
  <2>2. \A r \in Runs : r[1] = Of(p) => worker[r] \notin WorkingStates
    BY <1>7 DEF UndoSlot, IInv, ResumeInv, FirstLaunchInv, PreFinish, NoWorker,
                Alive, WorkingStates, Runs
  <2>3. \A a \in Agents : pc[a] \in LaunchPCs => a # Of(p)
    BY <1>7 DEF UndoSlot, IInv, FirstLaunchInv, PreFinish, Resuming
  <2>4. \A s \in Senders :
          pc[s] \in {"register", "continue", "thread"} /\ cont[Of(s)] = "present"
            => Of(s) # Of(p)
    BY <1>7, <1>l, LockExclusive DEF UndoSlot, IInv, FirstLaunchInv, LockedPCs
  <2> QED
    BY <1>7, <2>1, <2>2, <2>3, <2>4 DEF UndoSlot, GiveUp, SlotInv
<1>8. ASSUME NEW s \in Senders, WaitFinished(s) /\ finished[Of(s)] PROVE SlotInv'
  BY <1>8 DEF WaitFinished, SlotInv
<1>9. ASSUME NEW r \in Runs, ReleaseSlot(r) PROVE SlotInv'
  <2> DEFINE a == r[1]
  <2>1. Cardinality(live') <= MaxConcurrent
    <3>1. /\ live' = live \ {a} /\ a \in Agents
          /\ Cardinality(live) <= MaxConcurrent
      BY <1>9 DEF ReleaseSlot, SlotInv, Runs
    <3> QED
      BY <3>1, ShrunkCard
  <2>2. a \in Agents /\ ~NoWorker(a)
    BY <1>9 DEF ReleaseSlot, At, Runs, NoWorker, Alive, AliveStates
  <2>3. \A q \in Runs : q # r /\ q[1] = a => worker[q] \notin WorkingStates
    <3> SUFFICES ASSUME NEW q \in Runs, q[1] = a, worker[q] \in WorkingStates
                 PROVE  q = r
      OBVIOUS
    <3>1. Alive(r) /\ Alive(q)
      BY <1>9 DEF ReleaseSlot, At, Alive, AliveStates, WorkingStates
    <3>2. PICK g \in Gens, h \in Gens : r = <<a, g>> /\ q = <<a, h>>
      BY DEF Runs
    <3>3. g = h
      BY <2>2, <3>1, <3>2 DEF IInv, WorkerInv, OneWorkerPerAgent
    <3> QED
      BY <3>2, <3>3
  <2>4. pc[a] \notin LaunchPCs
    BY <2>2 DEF IInv, FirstLaunchInv, PreFinish
  <2>5. \A s \in Senders : pc[s] \in {"register", "continue", "thread"} => Of(s) # a
    BY <2>2 DEF IInv, ResumeInv, WorkerInv, FinishedMeansGone, NoWorker
  <2> QED
    BY <1>9, <2>1, <2>3, <2>4, <2>5 DEF ReleaseSlot, Move, SlotInv, WorkingStates
<1>10. ASSUME NEW r \in Runs, SetFinished(r) PROVE SlotInv'
  BY <1>10 DEF SetFinished, Move, SlotInv, WorkingStates, AliveStates
<1> HIDE DEF TypeOK, Goto, Callers, registryVars, contVars, callVars, workVars,
             LaunchPCs, UndoPCs
<1>11. ASSUME NEW p \in Callers, AdmitRefused(p) PROVE SlotInv'
  BY <1>n, <1>11, SenderNeutral, SpawnRefusedNeutral DEF Callers
<1>12. ASSUME NEW s \in Senders, Route(s) \/ SenderStep(s) PROVE SlotInv'
  BY <1>n, <1>8, <1>12, SenderNeutral DEF SenderStep
<1>13. ASSUME NEW r \in Runs, WorkerStep(r) PROVE SlotInv'
  BY <1>n, <1>9, <1>10, <1>13, WorkerNeutral DEF WorkerStep, WorkerCleanup
<1>14. ASSUME NEW k \in Killers, Kill(k) \/ KillerStep(k) PROVE SlotInv'
  BY <1>n, <1>14, KillerNeutral
<1>15. ASSUME SweepSnapshot \/ \E a \in Agents : SweepRemove(a) PROVE SlotInv'
  BY <1>n, <1>15, SweeperNeutral
<1>16. CASE UNCHANGED vars
  <2>1. Neutral
    BY <1>16 DEF vars, Neutral, registryVars, contVars, callVars, workVars
  <2> QED
    BY <1>n, <2>1
<1> QED
  BY <1>1, <1>2, <1>3, <1>4, <1>5, <1>6, <1>7, <1>11, <1>12, <1>13, <1>14, <1>15, <1>16
  DEF Next, LaunchStep

\* All of it holds in every reachable state.
THEOREM Invariant == Spec => [](TypeOK /\ IInv /\ SlotInv)
BY InitType, NextType, InitIInv, IInvStep, InitSlotInv, SlotStep, PTL DEF Spec

\* No two workers of one agent id overlap, whatever races the kills, resumes,
\* evictions and failed launches run.
THEOREM OneWorker == Spec => []OneWorkerPerAgent
BY Invariant, PTL DEF IInv, WorkerInv

\* The finished event is set only while no worker of the id is alive: what
\* AgentContinuation.restart waits for is what it needs.
THEOREM FinishedIsGone == Spec => []FinishedMeansGone
BY Invariant, PTL DEF IInv, WorkerInv

-----------------------------------------------------------------------------
(***************************************************************************)
(* No slot is stranded: an id in `live` has a working worker, or a caller  *)
(* that is going to start one or to give the slot back.                    *)
(***************************************************************************)
Owned(a) ==
  \/ \E g \in Gens : worker[<<a, g>>] \in WorkingStates
  \/ \E p \in Callers : Of(p) = a /\ pc[p] \in LaunchPCs \cup UndoPCs
NoStrandedSlot == \A a \in live : Owned(a)

\* A step that starts and ends no worker, releases no slot and takes no caller
\* out of a launch strands nothing.
LEMMA OwnedKept ==
  ASSUME TypeOK, NoStrandedSlot, live' \subseteq live,
         \A r \in Runs : worker[r] \in WorkingStates => worker'[r] \in WorkingStates,
         \A p \in Callers : pc[p] \in LaunchPCs \cup UndoPCs
                              => pc'[p] \in LaunchPCs \cup UndoPCs
  PROVE  NoStrandedSlot'
<1> SUFFICES ASSUME NEW a \in live' PROVE Owned(a)'
  BY DEF NoStrandedSlot
<1>1. Owned(a)
  BY DEF NoStrandedSlot
<1>2. CASE \E g \in Gens : worker[<<a, g>>] \in WorkingStates
  <2>1. PICK g \in Gens : worker[<<a, g>>] \in WorkingStates
    BY <1>2
  <2>2. <<a, g>> \in Runs
    BY DEF Runs, TypeOK
  <2> QED
    BY <2>1, <2>2 DEF Owned
<1>3. CASE \E p \in Callers : Of(p) = a /\ pc[p] \in LaunchPCs \cup UndoPCs
  BY <1>3 DEF Owned, Of
<1> QED
  BY <1>1, <1>2, <1>3 DEF Owned

LEMMA NeutralKeeps ==
  ASSUME TypeOK, NoStrandedSlot, Neutral,
         \A p \in Callers : pc[p] \in LaunchPCs \cup UndoPCs => pc'[p] = pc[p]
  PROVE  NoStrandedSlot'
BY OwnedKept DEF Neutral

LEMMA StrandedStep ==
  TypeOK /\ IInv /\ SlotInv /\ NoStrandedSlot /\ [Next]_vars => NoStrandedSlot'
<1> SUFFICES ASSUME TypeOK, IInv, SlotInv, NoStrandedSlot, [Next]_vars
             PROVE  NoStrandedSlot'
  OBVIOUS
<1> DEFINE InLaunch(p) == pc[p] \in LaunchPCs \cup UndoPCs
<1>1. ASSUME NEW p \in Callers, Admit(p) PROVE NoStrandedSlot'
  <2>1. InLaunch(p)' /\ \A q \in Callers : InLaunch(q) => InLaunch(q)'
    BY <1>1 DEF Admit, Goto, TypeOK, LaunchPCs
  <2>2. live' = live \cup {Of(p)} /\ worker' = worker
    BY <1>1 DEF Admit, workVars
  <2>3. \A a \in live : Owned(a)'
    BY <2>1, <2>2 DEF NoStrandedSlot, Owned, Of
  <2>4. Owned(Of(p))'
    BY <2>1 DEF Owned, Of
  <2> QED
    BY <2>2, <2>3, <2>4 DEF NoStrandedSlot
<1>2. ASSUME NEW p \in Callers,
             \/ Register(p) \/ ClaimName(p) \/ Continue(p) \/ StartFails(p)
             \/ UndoTask(p) \/ UndoCont(p) \/ UndoFinished(p)
      PROVE  NoStrandedSlot'
  <2>1. UNCHANGED <<live, worker>>
    BY <1>2 DEF Register, ClaimName, Continue, StartFails, UndoTask, UndoCont,
                UndoFinished, workVars
  <2>2. \E l \in LaunchPCs \cup UndoPCs : Goto(p, l)
    BY <1>2 DEF Register, ClaimName, Continue, StartFails, UndoTask, UndoCont,
                UndoFinished, LaunchPCs, UndoPCs
  <2>3. \A q \in Callers : InLaunch(q) => InLaunch(q)'
    BY <2>2 DEF Goto, TypeOK
  <2> QED
    BY <2>1, <2>3, OwnedKept
<1>3. ASSUME NEW p \in Callers, StartThread(p) PROVE NoStrandedSlot'
  <2> DEFINE a == Of(p)  g == gens[a]
  <2>1. a \in Agents /\ g \in Gens /\ <<a, g>> \in Runs
    BY <1>3, OfType DEF StartThread, SlotInv, Runs
  <2>2. /\ worker'[<<a, g>>] = "running"
        /\ \A r \in Runs : worker[r] \in WorkingStates => worker'[r] \in WorkingStates
    BY <1>3, <2>1 DEF StartThread, TypeOK, WorkingStates, AliveStates
  <2>3. \A q \in Callers : q # p => pc'[q] = pc[q]
    BY <1>3 DEF StartThread, Goto, TypeOK
  <2>4. live' = live
    BY <1>3 DEF StartThread
  <2>5. Owned(a)'
    BY <2>1, <2>2 DEF Owned, WorkingStates, AliveStates
  <2>6. ASSUME NEW b \in live, b # a PROVE Owned(b)'
    <3>1. Owned(b) /\ b \in Agents
      BY DEF NoStrandedSlot, TypeOK
    <3>2. CASE \E h \in Gens : worker[<<b, h>>] \in WorkingStates
      BY <2>2, <3>1, <3>2 DEF Owned, Runs
    <3>3. CASE \E q \in Callers : Of(q) = b /\ InLaunch(q)
      BY <2>3, <2>6, <3>3 DEF Owned, Of
    <3> QED
      BY <3>1, <3>2, <3>3 DEF Owned
  <2> QED
    BY <2>4, <2>5, <2>6 DEF NoStrandedSlot
<1>4. ASSUME NEW p \in Callers, UndoSlot(p) PROVE NoStrandedSlot'
  <2>1. live' = live \ {Of(p)} /\ worker' = worker
    BY <1>4 DEF UndoSlot, workVars
  <2>2. \A q \in Callers : q # p => pc'[q] = pc[q]
    BY <1>4 DEF UndoSlot, GiveUp, Goto, TypeOK
  <2>3. ASSUME NEW b \in live' PROVE Owned(b)'
    <3>1. Owned(b) /\ b # Of(p)
      BY <2>1 DEF NoStrandedSlot
    <3>2. CASE \E h \in Gens : worker[<<b, h>>] \in WorkingStates
      BY <2>1, <3>2 DEF Owned
    <3>3. CASE \E q \in Callers : Of(q) = b /\ InLaunch(q)
      BY <2>2, <3>1, <3>3 DEF Owned, Of
    <3> QED
      BY <3>1, <3>2, <3>3 DEF Owned
  <2> QED
    BY <2>3 DEF NoStrandedSlot
<1>5. ASSUME NEW r \in Runs, ReleaseSlot(r) PROVE NoStrandedSlot'
  <2>1. live' = live \ {r[1]} /\ pc' = pc
    BY <1>5 DEF ReleaseSlot, callVars
  <2>2. \A q \in Runs : q # r => worker'[q] = worker[q]
    BY <1>5 DEF ReleaseSlot, Move, TypeOK
  <2>3. ASSUME NEW b \in live' PROVE Owned(b)'
    <3>1. Owned(b) /\ b # r[1] /\ b \in Agents
      BY <2>1 DEF NoStrandedSlot, TypeOK
    <3>2. CASE \E h \in Gens : worker[<<b, h>>] \in WorkingStates
      BY <2>2, <3>1, <3>2 DEF Owned, Runs
    <3>3. CASE \E q \in Callers : Of(q) = b /\ InLaunch(q)
      BY <2>1, <3>3 DEF Owned, Of
    <3> QED
      BY <3>1, <3>2, <3>3 DEF Owned
  <2> QED
    BY <2>3 DEF NoStrandedSlot
<1>6. ASSUME NEW r \in Runs, SetFinished(r) PROVE NoStrandedSlot'
  <2>1. live' = live /\ pc' = pc
    BY <1>6 DEF SetFinished, callVars
  <2>2. \A q \in Runs : worker[q] \in WorkingStates => worker'[q] \in WorkingStates
    BY <1>6 DEF SetFinished, Move, At, TypeOK, WorkingStates
  <2> QED
    BY <2>1, <2>2, OwnedKept
<1>7. ASSUME NEW p \in Callers, AdmitRefused(p) PROVE NoStrandedSlot'
  <2>1. \A q \in Callers : InLaunch(q) => pc'[q] = pc[q]
    BY <1>7 DEF AdmitRefused, GiveUp, Goto, TypeOK, LaunchPCs, UndoPCs
  <2>2. Neutral
    BY <1>7, SenderNeutral, SpawnRefusedNeutral DEF Callers
  <2> QED
    BY <2>1, <2>2, NeutralKeeps
<1>8. ASSUME NEW s \in Senders, Route(s) \/ SenderStep(s) PROVE NoStrandedSlot'
  <2>1. \A q \in Callers : InLaunch(q) => pc'[q] = pc[q]
    BY <1>8 DEF Route, SenderStep, Queue, Requeue, QueueMessage, FetchContinuation,
                Precheck, AcquireLock, Recheck, WaitFinished, Goto, TypeOK,
                LaunchPCs, UndoPCs
  <2>2. CASE WaitFinished(s) /\ finished[Of(s)]
    BY <2>1, <2>2, OwnedKept DEF WaitFinished, workVars
  <2>3. CASE Neutral
    BY <2>1, <2>3, NeutralKeeps
  <2> QED
    BY <1>8, <2>2, <2>3, SenderNeutral DEF SenderStep
<1>9. ASSUME NEW r \in Runs, WorkerStep(r) PROVE NoStrandedSlot'
  <2>1. pc' = pc
    BY <1>9 DEF WorkerStep, WorkerCleanup, DrainRound, CompleteOrDrain, RunRaises,
                FailTask, MarkNotified, EnqueueNotice, ReleaseSlot, SetFinished, callVars
  <2>2. CASE Neutral
    BY <2>1, <2>2, NeutralKeeps
  <2> QED
    BY <1>5, <1>6, <1>9, <2>2, WorkerNeutral DEF WorkerStep, WorkerCleanup
<1>10. ASSUME NEW k \in Killers, Kill(k) \/ KillerStep(k) PROVE NoStrandedSlot'
  <2>1. \E l \in PCs : Goto(k, l)
    BY <1>10, Labels DEF Kill, KillerStep, AbortRun, KillMark, KillEnqueue
  <2> QED
    BY <1>10, <2>1, CallersOnly, KillerNeutral, NeutralKeeps
<1>11. ASSUME SweepSnapshot \/ \E a \in Agents : SweepRemove(a) PROVE NoStrandedSlot'
  BY <1>11, SweeperNeutral, NeutralKeeps DEF SweepSnapshot, SweepRemove, callVars
<1>12. CASE UNCHANGED vars
  BY <1>12, OwnedKept DEF vars, callVars, workVars
<1> QED
  BY <1>1, <1>2, <1>3, <1>4, <1>7, <1>8, <1>9, <1>10, <1>11, <1>12
  DEF Next, LaunchStep

\* A worker at work holds a slot, and a slot is held only for a working worker
\* or a launch under way: admit, the failed launch and the worker's finally
\* block account for every slot between them.
THEOREM SlotsAccounted == Spec => []SlotAccounting
<1>1. Init => NoStrandedSlot
  BY DEF Init, NoStrandedSlot
<1>2. SlotInv /\ NoStrandedSlot => SlotAccounting
  BY DEF SlotInv, NoStrandedSlot, Owned, SlotAccounting
<1> QED
  BY InitType, NextType, InitIInv, IInvStep, InitSlotInv, SlotStep, StrandedStep,
     <1>1, <1>2, PTL DEF Spec

-----------------------------------------------------------------------------
(***************************************************************************)
(* The agents implement the slot pool: a thread start maps to Start, the   *)
(* release of a slot to Stop, and every other step changes nothing.        *)
(***************************************************************************)
LEMMA BusyFact ==
  /\ TypeOK /\ SlotInv => BusyAgents \subseteq live
  /\ \A a \in Agents : NoWorker(a) => a \notin BusyAgents
<1>1. ASSUME TypeOK, SlotInv PROVE BusyAgents \subseteq live
  <2> SUFFICES ASSUME NEW a \in BusyAgents PROVE a \in live
    OBVIOUS
  <2>1. PICK g \in Gens : a \in Agents /\ worker[<<a, g>>] \in WorkingStates
    BY DEF BusyAgents
  <2>2. <<a, g>> \in Runs /\ <<a, g>>[1] = a
    BY <2>1 DEF Runs
  <2> QED
    BY <1>1, <2>1, <2>2 DEF SlotInv
<1>2. \A a \in Agents : NoWorker(a) => a \notin BusyAgents
  BY DEF NoWorker, BusyAgents, Alive, WorkingStates
<1> QED
  BY <1>1, <1>2

\* A step that starts and ends no working worker is a stutter of the pool.
LEMMA BusyKept ==
  ASSUME \A r \in Runs : worker'[r] \in WorkingStates <=> worker[r] \in WorkingStates
  PROVE  UNCHANGED BusyAgents
BY DEF BusyAgents, Runs

\* The pool's Cardinality is ours.
LEMMA SameCardinality == \A S : Pool!Cardinality(S) = Cardinality(S)
BY DEF Pool!Cardinality, Cardinality

LEMMA PoolStart ==
  ASSUME TypeOK, IInv, SlotInv, SlotInv', NEW p \in Callers, StartThread(p)
  PROVE  Pool!Next
<1> DEFINE a == Of(p)  g == gens[a]
<1>1. a \in Agents /\ g \in Gens /\ <<a, g>> \in Runs
  BY OfType DEF StartThread, SlotInv, Runs
<1>2. NoWorker(a)
  BY OfType DEF StartThread, IInv, ResumeInv, FirstLaunchInv, PreFinish, Callers
<1>3. a \notin BusyAgents
  BY <1>1, <1>2, BusyFact
<1>4. a \in live
  BY <1>1, OfType DEF StartThread, SlotInv, IInv, ResumeInv, LaunchPCs, Callers
<1>5. Cardinality(BusyAgents) < MaxConcurrent
  <2>1. BusyAgents \subseteq live \ {a}
    BY <1>3, BusyFact
  <2>2. live \in SUBSET Agents /\ live \ {a} \in SUBSET Agents /\ BusyAgents \in SUBSET Agents
    BY <2>1 DEF TypeOK
  <2>3. Cardinality(live) = Cardinality(live \ {a}) + 1
    <3>1. Cardinality((live \ {a}) \cup {a}) = Cardinality(live \ {a}) + 1
      BY <1>1, <2>2, LiveCard
    <3>2. (live \ {a}) \cup {a} = live
      BY <1>4
    <3> QED
      BY <3>1, <3>2
  <2>5. Cardinality(BusyAgents) <= Cardinality(live \ {a})
    BY <2>1, <2>2, LiveCard, FS_Subset
  <2>6. Cardinality(live) <= MaxConcurrent
    BY DEF SlotInv
  <2>7. Cardinality(BusyAgents) \in Nat /\ Cardinality(live \ {a}) \in Nat
    BY <2>2, LiveCard
  <2> QED
    BY <2>3, <2>5, <2>6, <2>7, BoundsAssumption
<1>6. BusyAgents' = BusyAgents \cup {a}
  <2>1. \A q \in Runs : worker'[q] = IF q = <<a, g>> THEN "running" ELSE worker[q]
    BY DEF StartThread, TypeOK
  <2>2. "running" \in WorkingStates
    BY DEF WorkingStates, AliveStates
  <2> QED
    BY <1>1, <2>1, <2>2 DEF BusyAgents, Runs
<1> QED
  BY <1>1, <1>3, <1>5, <1>6, SameCardinality DEF Pool!Next, Pool!Start

LEMMA PoolStop ==
  ASSUME TypeOK, IInv, NEW r \in Runs, ReleaseSlot(r)
  PROVE  Pool!Next
<1> DEFINE a == r[1]
<1>1. PICK g \in Gens : r = <<a, g>> /\ a \in Agents
  BY DEF Runs
<1>2. worker[r] \in WorkingStates /\ Alive(r)
  BY DEF ReleaseSlot, At, WorkingStates, AliveStates, Alive
<1>3. a \in BusyAgents
  BY <1>1, <1>2 DEF BusyAgents
<1>4. \A q \in Runs : worker'[q] = IF q = r THEN "finish" ELSE worker[q]
  BY DEF ReleaseSlot, Move, TypeOK
<1>5. \A h \in Gens : worker[<<a, h>>] \in WorkingStates => h = g
  BY <1>1, <1>2 DEF IInv, WorkerInv, OneWorkerPerAgent, Alive, WorkingStates
<1>6. "finish" \notin WorkingStates
  BY DEF WorkingStates
<1>7. a \notin BusyAgents'
  BY <1>1, <1>4, <1>5, <1>6 DEF BusyAgents, Runs
<1>8. \A b \in Agents : b # a => (b \in BusyAgents' <=> b \in BusyAgents)
  <2> SUFFICES ASSUME NEW b \in Agents, b # a
               PROVE  b \in BusyAgents' <=> b \in BusyAgents
    OBVIOUS
  <2>1. \A h \in Gens : <<b, h>> \in Runs /\ <<b, h>> # r
    BY <1>1 DEF Runs
  <2>2. \A h \in Gens : worker'[<<b, h>>] = worker[<<b, h>>]
    BY <1>4, <2>1
  <2> QED
    BY <2>2 DEF BusyAgents
<1>9. BusyAgents' = BusyAgents \ {a}
  BY <1>7, <1>8 DEF BusyAgents
<1> QED
  BY <1>1, <1>3, <1>9 DEF Pool!Next, Pool!Stop

LEMMA PoolStep ==
  TypeOK /\ IInv /\ SlotInv /\ SlotInv' /\ [Next]_vars => [Pool!Next]_(BusyAgents)
<1> SUFFICES ASSUME TypeOK, IInv, SlotInv, SlotInv', [Next]_vars
             PROVE  Pool!Next \/ UNCHANGED BusyAgents
  OBVIOUS
<1>n. Neutral => UNCHANGED BusyAgents
  BY BusyKept DEF Neutral
<1>w. worker' = worker => UNCHANGED BusyAgents
  BY DEF BusyAgents
<1>1. ASSUME NEW p \in Callers, Admit(p) \/ AdmitRefused(p) \/ LaunchStep(p)
      PROVE  Pool!Next \/ UNCHANGED BusyAgents
  <2>1. StartThread(p) \/ worker' = worker
    BY <1>1 DEF Admit, AdmitRefused, LaunchStep, Register, ClaimName, Continue,
                StartFails, UndoTask, UndoCont, UndoFinished, UndoSlot, workVars
  <2> QED
    BY <1>w, <2>1, PoolStart
<1>2. ASSUME NEW s \in Senders, Route(s) \/ SenderStep(s) PROVE UNCHANGED BusyAgents
  <2>1. worker' = worker
    BY <1>2 DEF Route, SenderStep, Queue, Requeue, QueueMessage, FetchContinuation,
                Precheck, AcquireLock, Recheck, WaitFinished, workVars
  <2> QED
    BY <1>w, <2>1
<1>3. ASSUME NEW r \in Runs, WorkerStep(r) PROVE Pool!Next \/ UNCHANGED BusyAgents
  <2>1. CASE SetFinished(r)
    <3>1. \A q \in Runs : worker'[q] \in WorkingStates <=> worker[q] \in WorkingStates
      BY <2>1 DEF SetFinished, Move, At, TypeOK, WorkingStates, AliveStates
    <3> QED
      BY <3>1, BusyKept
  <2> QED
    BY <1>3, <1>n, <2>1, PoolStop, WorkerNeutral DEF WorkerStep, WorkerCleanup
<1>4. ASSUME NEW k \in Killers, Kill(k) \/ KillerStep(k) PROVE UNCHANGED BusyAgents
  BY <1>4, <1>n, KillerNeutral
<1>5. ASSUME SweepSnapshot \/ \E a \in Agents : SweepRemove(a) PROVE UNCHANGED BusyAgents
  BY <1>5, <1>n, SweeperNeutral
<1>6. CASE UNCHANGED vars
  BY <1>6, <1>w DEF vars, workVars
<1> QED
  BY <1>1, <1>2, <1>3, <1>4, <1>5, <1>6 DEF Next

\* The background agents of a session implement the slot pool.
THEOREM ImplementsPool == Spec => PoolSpec
<1>1. Init => Pool!Init
  BY DEF Init, Pool!Init, BusyAgents, WorkingStates, AliveStates, Runs
<1> QED
  BY InitType, NextType, InitIInv, IInvStep, InitSlotInv, SlotStep, PoolStep,
     <1>1, PTL DEF Spec, PoolSpec, Pool!Spec
=============================================================================
