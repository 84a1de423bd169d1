--------------------------- MODULE TaskBoard_proofs ---------------------------
(***************************************************************************)
(* Proofs about TaskBoard, for every set of tasks and teammates and every  *)
(* bound: type correctness, that a claimed task has one worker, that no    *)
(* task stays in progress in the name of a teammate that is gone, and that *)
(* a deleted task stays deleted.                                           *)
(***************************************************************************)
EXTENDS TaskBoard, TLAPS

(***************************************************************************)
(* Type correctness. Each lemma takes one group of actions.                *)
(***************************************************************************)
LEMMA InitType == Init => TypeOK
BY TeamAssumption DEF Init, TypeOK, Stored

\* What a call adopts is an owner again.
LEMMA AdoptedOwner ==
  ASSUME NEW c \in Callers, NEW s, NEW o \in Teammates \cup {Nobody}
  PROVE  /\ Adopted(c, s, o) \in Teammates \cup {Nobody}
         /\ s # "in_progress" => Adopted(c, s, o) = o
         /\ o # Nobody => Adopted(c, s, o) = o
BY DEF Adopted

LEMMA WrittenType ==
  ASSUME TypeOK, Written
  PROVE  current' \in [Teammates -> BOOLEAN]
BY DEF TypeOK, Written

LEMMA UpdateType ==
  ASSUME TypeOK, NEW c \in Callers, NEW k \in Tasks, Update(c, k)
  PROVE  /\ updates' \in 0..MaxUpdates
         /\ current' \in [Teammates -> BOOLEAN]
         /\ UNCHANGED <<mateVars, skip, check>>
<1>1. current' \in [Teammates -> BOOLEAN]
  BY WrittenType DEF Update
<1>2. updates' \in 0..MaxUpdates
  BY TeamAssumption DEF Update, TypeOK
<1> QED
  BY <1>1, <1>2 DEF Update

LEMMA CallsType ==
  ASSUME TypeOK, NEW c \in Callers, NEW k \in Tasks,
         TaskCreate(c, k) \/ TaskUpdate(c, k)
  PROVE  TypeOK'
<1>1. CASE TaskCreate(c, k)
  <2>1. current' \in [Teammates -> BOOLEAN]
    BY <1>1, WrittenType DEF TaskCreate
  <2> QED
    BY <1>1, <2>1 DEF TaskCreate, TypeOK, Stored, mateVars
<1>2. ASSUME NEW o \in Teammates \cup {Nobody},
             NEW s \in {"pending", "in_progress", status[k]},
             NEW D \in {{}} \cup {{d} : d \in Tasks},
             UpdateFields(c, k, o, s, D)
      PROVE  TypeOK'
  <2>1. Adopted(c, s, o) \in Teammates \cup {Nobody}
    BY AdoptedOwner
  <2>2. Update(c, k)
    BY <1>2 DEF UpdateFields
  <2>3. D \subseteq Tasks
    OBVIOUS
  <2>4. s \in Stored \cup {"uncreated", "deleted"}
    BY DEF TypeOK, Stored
  <2>5. status' \in [Tasks -> Stored \cup {"uncreated", "deleted"}]
    BY <1>2, <2>4 DEF UpdateFields, TypeOK
  <2>6. owner' \in [Tasks -> Teammates \cup {Nobody}]
    BY <1>2, <2>1 DEF UpdateFields, TypeOK
  <2>7. blockedBy' \in [Tasks -> SUBSET Tasks]
    BY <1>2, <2>3 DEF UpdateFields, TypeOK
  <2>8. disturbed' \subseteq Tasks
    BY <1>2 DEF UpdateFields, TypeOK
  <2> QED
    BY <2>2, <2>5, <2>6, <2>7, <2>8, UpdateType DEF TypeOK, mateVars
<1>3. CASE Delete(c, k)
  <2>1. Update(c, k)
    BY <1>3 DEF Delete
  <2>2. /\ status' \in [Tasks -> Stored \cup {"uncreated", "deleted"}]
        /\ owner' \in [Tasks -> Teammates \cup {Nobody}]
        /\ blockedBy' \in [Tasks -> SUBSET Tasks]
        /\ disturbed' \subseteq Tasks
    BY <1>3 DEF Delete, TypeOK, Stored
  <2> QED
    BY <2>1, <2>2, UpdateType DEF TypeOK, mateVars
<1>4. CASE StartCompletion(c, k)
  BY <1>4 DEF StartCompletion, TypeOK, boardVars, mateVars
<1> QED
  BY <1>1, <1>2, <1>3, <1>4 DEF TaskUpdate

LEMMA CompletionType ==
  ASSUME TypeOK, NEW c \in Callers, VetoCompletion(c) \/ ApplyCompletion(c)
  PROVE  TypeOK'
<1>1. CASE VetoCompletion(c)
  BY <1>1 DEF VetoCompletion, TypeOK, boardVars, mateVars
<1>2. CASE ApplyCompletion(c)
  <2>1. current' \in [Teammates -> BOOLEAN]
    BY <1>2, WrittenType DEF ApplyCompletion
  <2>2. status' \in [Tasks -> Stored \cup {"uncreated", "deleted"}]
    BY <1>2 DEF ApplyCompletion, TypeOK, Stored
  <2>3. check' \in [Callers -> Tasks \cup {Nobody}]
    BY <1>2 DEF ApplyCompletion, TypeOK
  <2> QED
    BY <1>2, <2>1, <2>2, <2>3 DEF ApplyCompletion, TypeOK, mateVars
<1> QED
  BY <1>1, <1>2

LEMMA ClaimType ==
  ASSUME TypeOK, NEW t \in Teammates, Claim(t)
  PROVE  TypeOK'
<1>1. PICK k \in Tasks : /\ status' = [status EXCEPT ![k] = "in_progress"]
                         /\ owner' = [owner EXCEPT ![k] = t]
                         /\ work' = [work EXCEPT ![t] = k]
  BY DEF Claim
<1>2. /\ status' \in [Tasks -> Stored \cup {"uncreated", "deleted"}]
      /\ owner' \in [Tasks -> Teammates \cup {Nobody}]
      /\ work' \in [Teammates -> Tasks \cup {Nobody}]
  BY <1>1 DEF TypeOK, Stored
<1>3. current' \in [Teammates -> BOOLEAN]
  <2>1. \/ current' = [u \in Teammates |-> FALSE]
        \/ current' = [current EXCEPT ![t] = FALSE]
    BY DEF Claim
  <2>2. current \in [Teammates -> BOOLEAN]
    BY DEF TypeOK
  <2> QED
    BY <2>1, <2>2
<1>4. pc' \in [Teammates -> {"out", "turn", "idle", "claim", "exit"}]
  BY DEF Claim, Goto, TypeOK
<1> QED
  BY <1>2, <1>3, <1>4 DEF Claim, TypeOK

LEMMA ExitType ==
  ASSUME TypeOK, NEW t \in Teammates, Exit(t)
  PROVE  TypeOK'
<1>1. /\ status' \in [Tasks -> Stored \cup {"uncreated", "deleted"}]
      /\ owner' \in [Tasks -> Teammates \cup {Nobody}]
  BY DEF Exit, ReleaseTasks, TypeOK, Stored
<1>2. current' \in [Teammates -> BOOLEAN]
  BY WrittenType DEF Exit
<1> QED
  BY <1>1, <1>2 DEF Exit, Goto, TypeOK

LEMMA LifeType ==
  ASSUME TypeOK, NEW t \in Teammates,
         \/ Spawn(t) \/ EndTurn(t) \/ Wake(t)
         \/ ReadVersion(t) \/ Recheck(t) \/ ClaimNothing(t)
         \/ ClaimFails(t) \/ LeaveLoop(t) \/ Kill(t)
  PROVE  TypeOK'
<1>1. CASE Spawn(t)
  BY <1>1, TeamAssumption DEF Spawn, Goto, TypeOK, boardVars
<1>2. CASE EndTurn(t)
  BY <1>2 DEF EndTurn, Goto, TypeOK, boardVars
<1>3. CASE Wake(t)
  BY <1>3 DEF Wake, Goto, TypeOK, boardVars
<1>4. CASE ReadVersion(t)
  BY <1>4 DEF ReadVersion, Goto, TypeOK, boardVars
<1>5. CASE Recheck(t)
  BY <1>5 DEF Recheck, Goto, TypeOK, boardVars
<1>6. CASE ClaimNothing(t)
  BY <1>6 DEF ClaimNothing, Goto, TypeOK, boardVars
<1>7. CASE ClaimFails(t)
  BY <1>7 DEF ClaimFails, Goto, TypeOK, boardVars
<1>8. CASE LeaveLoop(t)
  BY <1>8 DEF LeaveLoop, Goto, TypeOK, boardVars
<1>9. CASE Kill(t)
  BY <1>9 DEF Kill, TypeOK, boardVars
<1> QED
  BY <1>1, <1>2, <1>3, <1>4, <1>5, <1>6, <1>7, <1>8, <1>9

LEMMA StepType == TypeOK /\ [Next]_vars => TypeOK'
<1> SUFFICES ASSUME TypeOK, [Next]_vars PROVE TypeOK'
  OBVIOUS
<1>1. CASE Next
  BY <1>1, CallsType, CompletionType, ClaimType, ExitType, LifeType
  DEF Next, Board
<1>2. CASE UNCHANGED vars
  BY <1>2 DEF vars, boardVars, mateVars, TypeOK
<1> QED
  BY <1>1, <1>2

\* Every reachable state of the board and of the teammates is well typed.
THEOREM TypeCorrect == Spec => []TypeOK
<1>1. Init => TypeOK
  BY InitType
<1>2. TypeOK /\ [Next]_vars => TypeOK'
  BY StepType
<1> QED
  BY <1>1, <1>2, PTL DEF Spec

(***************************************************************************)
(* Exclusive work. A teammate that works on a claimed task is in its turn, *)
(* and the board names it as the owner of the task, until the task is      *)
(* completed or deleted, or taken out of its hands.                        *)
(***************************************************************************)
WorkInTurn == \A t \in Teammates : work[t] # Nobody => pc[t] = "turn"

InHand(t, k) == owner[k] = t /\ status[k] \in {"in_progress", "completed"}

WorkOnBoard ==
  \A t \in Teammates : \A k \in Tasks :
    work[t] = k /\ k \notin disturbed => InHand(t, k) \/ status[k] = "deleted"

IInv ==
  /\ TypeOK
  /\ WorkInTurn
  /\ WorkOnBoard
  /\ ExclusiveWork
  /\ InProgressIsOwned

LEMMA InitIInv == Init => IInv
<1> SUFFICES ASSUME Init PROVE IInv
  OBVIOUS
<1>1. TypeOK
  BY InitType
<1> QED
  BY <1>1, TeamAssumption
  DEF Init, IInv, WorkInTurn, WorkOnBoard, ExclusiveWork, InProgressIsOwned

\* A step that leaves the teammates alone and takes no held task back keeps the
\* invariant: the argument common to all calls.
LEMMA CallKeeps ==
  ASSUME IInv, TypeOK', UNCHANGED <<pc, work>>, disturbed \subseteq disturbed',
         \A t \in Teammates : \A x \in Tasks :
           x \notin disturbed' /\ InHand(t, x) => InHand(t, x)' \/ status'[x] = "deleted",
         \A x \in Tasks : status[x] = "deleted" => status'[x] = "deleted",
         \A x \in Tasks : status'[x] = "in_progress" /\ x \notin disturbed' =>
           \/ status[x] = "in_progress" /\ owner'[x] = owner[x]
           \/ owner'[x] \in Teammates /\ pc[owner'[x]] = "turn"
  PROVE  IInv'
<1>1. WorkInTurn'
  BY DEF IInv, WorkInTurn
<1>2. WorkOnBoard'
  <2> SUFFICES ASSUME NEW t \in Teammates, NEW k \in Tasks,
                      work[t] = k, k \notin disturbed'
               PROVE  InHand(t, k)' \/ status'[k] = "deleted"
    BY DEF WorkOnBoard
  <2>1. InHand(t, k) \/ status[k] = "deleted"
    BY DEF IInv, WorkOnBoard
  <2> QED
    BY <2>1
<1>3. ExclusiveWork'
  BY DEF IInv, ExclusiveWork
<1>4. InProgressIsOwned'
  <2> SUFFICES ASSUME NEW k \in Tasks, status'[k] = "in_progress",
                      k \notin disturbed'
               PROVE  owner'[k] \in Teammates /\ pc[owner'[k]] # "out"
    BY DEF InProgressIsOwned
  <2>1. CASE status[k] = "in_progress" /\ owner'[k] = owner[k]
    BY <2>1 DEF IInv, InProgressIsOwned
  <2>2. CASE owner'[k] \in Teammates /\ pc[owner'[k]] = "turn"
    BY <2>2
  <2> QED
    BY <2>1, <2>2
<1> QED
  BY <1>1, <1>2, <1>3, <1>4 DEF IInv

LEMMA UpdateFieldsKeeps ==
  ASSUME IInv, TypeOK', NEW c \in Callers, NEW k \in Tasks,
         NEW o \in Teammates \cup {Nobody},
         NEW s \in {"pending", "in_progress", status[k]}, NEW D,
         UpdateFields(c, k, o, s, D)
  PROVE  IInv'
<1> DEFINE n == Adopted(c, s, o)
           changed == <<s, n>> # <<status[k], owner[k]>>
<1>1. /\ Update(c, k)
      /\ status' = [status EXCEPT ![k] = s]
      /\ owner' = [owner EXCEPT ![k] = n]
      /\ disturbed' = IF changed /\ (status[k] # "pending"
                                     \/ (s = "in_progress" /\ n # c))
                      THEN disturbed \cup {k} ELSE disturbed
  BY DEF UpdateFields
<1>2. UNCHANGED <<pc, work>> /\ MayCall(c) /\ Exists(k)
  BY <1>1 DEF Update, mateVars
<1>3. n \in Teammates \cup {Nobody}
  BY AdoptedOwner
<1>4. /\ status \in [Tasks -> Stored \cup {"uncreated", "deleted"}]
      /\ owner \in [Tasks -> Teammates \cup {Nobody}]
  BY DEF IInv, TypeOK
<1>5. /\ status'[k] = s /\ owner'[k] = n
      /\ \A x \in Tasks : x # k => status'[x] = status[x] /\ owner'[x] = owner[x]
  BY <1>1, <1>4
<1>6. disturbed \subseteq disturbed'
  BY <1>1
<1>7. k \notin disturbed' =>
        \/ s = status[k] /\ n = owner[k]
        \/ status[k] = "pending" /\ (s = "in_progress" => n = c)
  BY <1>1
<1>8. \A t \in Teammates : \A x \in Tasks :
        x \notin disturbed' /\ InHand(t, x) => InHand(t, x)' \/ status'[x] = "deleted"
  BY <1>5, <1>7 DEF InHand
<1>9. \A x \in Tasks : status[x] = "deleted" => status'[x] = "deleted"
  BY <1>2, <1>5 DEF Exists, Stored
<1>10. \A x \in Tasks : status'[x] = "in_progress" /\ x \notin disturbed' =>
         \/ status[x] = "in_progress" /\ owner'[x] = owner[x]
         \/ owner'[x] \in Teammates /\ pc[owner'[x]] = "turn"
  <2>1. n = c => c \in Teammates
    BY <1>3, TeamAssumption DEF Callers
  <2>2. c \in Teammates => pc[c] = "turn"
    BY <1>2 DEF MayCall
  <2> QED
    BY <1>5, <1>7, <2>1, <2>2
<1> QED
  BY <1>2, <1>6, <1>8, <1>9, <1>10, CallKeeps

LEMMA CallsKeep ==
  ASSUME IInv, TypeOK', NEW c \in Callers, NEW k \in Tasks,
         TaskCreate(c, k) \/ TaskUpdate(c, k)
  PROVE  IInv'
<1>1. /\ status \in [Tasks -> Stored \cup {"uncreated", "deleted"}]
      /\ owner \in [Tasks -> Teammates \cup {Nobody}]
  BY DEF IInv, TypeOK
<1>2. CASE TaskCreate(c, k)
  <2>1. /\ UNCHANGED <<pc, work, disturbed, owner>>
        /\ status[k] = "uncreated"
        /\ status' = [status EXCEPT ![k] = "pending"]
    BY <1>2 DEF TaskCreate, mateVars
  <2>2. status'[k] = "pending" /\ \A x \in Tasks : x # k => status'[x] = status[x]
    BY <1>1, <2>1
  <2>3. \A t \in Teammates : \A x \in Tasks : InHand(t, x) => InHand(t, x)'
    BY <2>1, <2>2 DEF InHand
  <2> QED
    BY <2>1, <2>2, <2>3, CallKeeps
<1>3. CASE Delete(c, k)
  <2>1. /\ UNCHANGED <<pc, work, disturbed>>
        /\ status' = [status EXCEPT ![k] = "deleted"]
        /\ owner' = [owner EXCEPT ![k] = Nobody]
    BY <1>3 DEF Delete, Update, mateVars
  <2>2. /\ status'[k] = "deleted"
        /\ \A x \in Tasks : x # k => status'[x] = status[x] /\ owner'[x] = owner[x]
    BY <1>1, <2>1
  <2>3. \A t \in Teammates : \A x \in Tasks :
          InHand(t, x) => InHand(t, x)' \/ status'[x] = "deleted"
    BY <2>2 DEF InHand
  <2> QED
    BY <2>1, <2>2, <2>3, CallKeeps
<1>4. CASE StartCompletion(c, k)
  <2>1. UNCHANGED <<pc, work, disturbed, owner, status>>
    BY <1>4 DEF StartCompletion, boardVars, mateVars
  <2>2. \A t \in Teammates : \A x \in Tasks : InHand(t, x) => InHand(t, x)'
    BY <2>1 DEF InHand
  <2> QED
    BY <2>1, <2>2, CallKeeps
<1>5. ASSUME NEW o \in Teammates \cup {Nobody},
             NEW s \in {"pending", "in_progress", status[k]},
             NEW D \in {{}} \cup {{d} : d \in Tasks},
             UpdateFields(c, k, o, s, D)
      PROVE  IInv'
  BY <1>5, UpdateFieldsKeeps
<1> QED
  BY <1>2, <1>3, <1>4, <1>5 DEF TaskUpdate

LEMMA CompletionKeeps ==
  ASSUME IInv, TypeOK', NEW c \in Callers, VetoCompletion(c) \/ ApplyCompletion(c)
  PROVE  IInv'
<1>1. /\ status \in [Tasks -> Stored \cup {"uncreated", "deleted"}]
      /\ UNCHANGED <<pc, work, disturbed, owner>>
  BY DEF IInv, TypeOK, VetoCompletion, ApplyCompletion, boardVars, mateVars
<1>2. \A x \in Tasks :
        \/ status'[x] = status[x]
        \/ status[x] \in Stored /\ status'[x] = "completed"
  BY <1>1 DEF VetoCompletion, ApplyCompletion, boardVars, Exists
<1>3. \A t \in Teammates : \A x \in Tasks : InHand(t, x) => InHand(t, x)'
  BY <1>1, <1>2 DEF InHand
<1>4. /\ \A x \in Tasks : status[x] = "deleted" => status'[x] = "deleted"
      /\ \A x \in Tasks : status'[x] = "in_progress" => status[x] = "in_progress"
  BY <1>2 DEF Stored
<1> QED
  BY <1>1, <1>3, <1>4, CallKeeps

\* A claim takes a pending task, which nobody works on.
LEMMA ClaimKeeps ==
  ASSUME IInv, TypeOK', NEW t \in Teammates, Claim(t)
  PROVE  IInv'
<1>1. PICK k \in Tasks : /\ status[k] = "pending"
                         /\ status' = [status EXCEPT ![k] = "in_progress"]
                         /\ owner' = [owner EXCEPT ![k] = t]
                         /\ work' = [work EXCEPT ![t] = k]
  BY DEF Claim, Preferred, Claimable
<1>2. pc' = [pc EXCEPT ![t] = "turn"] /\ UNCHANGED disturbed
  BY DEF Claim, Goto
<1>3. /\ status \in [Tasks -> Stored \cup {"uncreated", "deleted"}]
      /\ owner \in [Tasks -> Teammates \cup {Nobody}]
      /\ work \in [Teammates -> Tasks \cup {Nobody}]
      /\ pc \in [Teammates -> {"out", "turn", "idle", "claim", "exit"}]
  BY DEF IInv, TypeOK
<1>4. /\ status'[k] = "in_progress" /\ owner'[k] = t
      /\ \A x \in Tasks : x # k => status'[x] = status[x] /\ owner'[x] = owner[x]
      /\ work'[t] = k /\ \A u \in Teammates : u # t => work'[u] = work[u]
      /\ pc'[t] = "turn" /\ \A u \in Teammates : u # t => pc'[u] = pc[u]
  BY <1>1, <1>2, <1>3
<1>5. \A u \in Teammates : work[u] = k => k \in disturbed
  BY <1>1 DEF IInv, WorkOnBoard, InHand
<1>6. WorkInTurn'
  BY <1>4 DEF IInv, WorkInTurn
<1>7. WorkOnBoard'
  BY <1>2, <1>4, <1>5 DEF IInv, WorkOnBoard, InHand
<1>8. ExclusiveWork'
  BY <1>2, <1>4, <1>5 DEF IInv, ExclusiveWork
<1>9. InProgressIsOwned'
  BY <1>2, <1>4 DEF IInv, InProgressIsOwned
<1> QED
  BY <1>6, <1>7, <1>8, <1>9 DEF IInv

\* A teammate that exits works on nothing, and what it gives back is its own.
LEMMA ExitKeeps ==
  ASSUME IInv, TypeOK', NEW t \in Teammates, Exit(t)
  PROVE  IInv'
<1>1. /\ pc[t] = "exit" /\ pc' = [pc EXCEPT ![t] = "out"]
      /\ ReleaseTasks(t) /\ UNCHANGED <<work, disturbed>>
  BY DEF Exit, Goto
<1>2. /\ pc \in [Teammates -> {"out", "turn", "idle", "claim", "exit"}]
      /\ status \in [Tasks -> Stored \cup {"uncreated", "deleted"}]
  BY DEF IInv, TypeOK
<1>3. \A x \in Tasks :
        IF owner[x] = t /\ Unfinished(x)
        THEN status'[x] = "pending" /\ owner'[x] = Nobody
        ELSE status'[x] = status[x] /\ owner'[x] = owner[x]
  BY <1>1 DEF ReleaseTasks
<1>4. pc'[t] = "out" /\ \A u \in Teammates : u # t => pc'[u] = pc[u]
  BY <1>1, <1>2
<1>5. work[t] = Nobody
  BY <1>1 DEF IInv, WorkInTurn
<1>6. WorkInTurn'
  BY <1>1, <1>4, <1>5 DEF IInv, WorkInTurn
<1>7. WorkOnBoard'
  <2> SUFFICES ASSUME NEW u \in Teammates, NEW k \in Tasks,
                      work[u] = k, k \notin disturbed
               PROVE  InHand(u, k)' \/ status'[k] = "deleted"
    BY <1>1 DEF WorkOnBoard
  <2>1. InHand(u, k) \/ status[k] = "deleted"
    BY DEF IInv, WorkOnBoard
  <2>2. u # t
    BY <1>5, TeamAssumption
  <2> QED
    BY <1>3, <2>1, <2>2 DEF InHand, Unfinished
<1>8. ExclusiveWork'
  BY <1>1 DEF IInv, ExclusiveWork
<1>9. InProgressIsOwned'
  BY <1>1, <1>3, <1>4 DEF IInv, InProgressIsOwned, Unfinished
<1> QED
  BY <1>6, <1>7, <1>8, <1>9 DEF IInv

\* The rest of the work loop leaves the board alone, and no teammate is gone by it.
LEMMA LifeKeeps ==
  ASSUME IInv, TypeOK', NEW t \in Teammates,
         \/ Spawn(t) \/ EndTurn(t) \/ Wake(t)
         \/ ReadVersion(t) \/ Recheck(t) \/ ClaimNothing(t)
         \/ ClaimFails(t) \/ LeaveLoop(t) \/ Kill(t)
  PROVE  IInv'
<1>1. UNCHANGED <<status, owner, disturbed>>
  BY DEF Spawn, EndTurn, Wake, ReadVersion, Recheck, ClaimNothing, ClaimFails,
         LeaveLoop, Kill, boardVars
<1>2. /\ pc \in [Teammates -> {"out", "turn", "idle", "claim", "exit"}]
      /\ work \in [Teammates -> Tasks \cup {Nobody}]
  BY DEF IInv, TypeOK
<1>3. \A u \in Teammates : pc[u] # "out" => pc'[u] # "out"
  BY <1>2 DEF Spawn, EndTurn, Wake, ReadVersion, Recheck, ClaimNothing,
              ClaimFails, LeaveLoop, Kill, Goto
<1>4. \A u \in Teammates : work'[u] # Nobody => work'[u] = work[u] /\ pc'[u] = "turn"
  BY <1>2 DEF IInv, WorkInTurn, Spawn, EndTurn, Wake, ReadVersion, Recheck,
              ClaimNothing, ClaimFails, LeaveLoop, Kill, Goto
<1>5. WorkInTurn'
  BY <1>4 DEF WorkInTurn
<1>6. WorkOnBoard'
  BY <1>1, <1>4, TeamAssumption DEF IInv, WorkOnBoard, InHand
<1>7. ExclusiveWork'
  BY <1>1, <1>4 DEF IInv, ExclusiveWork
<1>8. InProgressIsOwned'
  BY <1>1, <1>3 DEF IInv, InProgressIsOwned
<1> QED
  BY <1>5, <1>6, <1>7, <1>8 DEF IInv

LEMMA StepIInv == IInv /\ [Next]_vars => IInv'
<1> SUFFICES ASSUME IInv, [Next]_vars PROVE IInv'
  OBVIOUS
<1>1. TypeOK'
  BY StepType DEF IInv
<1>2. CASE Next
  BY <1>1, <1>2, CallsKeep, CompletionKeeps, ClaimKeeps, ExitKeeps, LifeKeeps
  DEF Next, Board
<1>3. CASE UNCHANGED vars
  BY <1>1, <1>3
  DEF vars, boardVars, mateVars, IInv, WorkInTurn, WorkOnBoard, InHand,
      ExclusiveWork, InProgressIsOwned
<1> QED
  BY <1>2, <1>3

LEMMA IInvHolds == Spec => []IInv
<1>1. Init => IInv
  BY InitIInv
<1>2. IInv /\ [Next]_vars => IInv'
  BY StepIInv
<1> QED
  BY <1>1, <1>2, PTL DEF Spec

\* A task that was claimed is worked on by one teammate, whatever kills, exits,
\* respawns and updates of other tasks happen around it.
THEOREM WorkIsExclusive == Spec => []ExclusiveWork
<1>1. IInv => ExclusiveWork
  BY DEF IInv
<1> QED
  BY <1>1, IInvHolds, PTL

\* The exit of a teammate leaves none of its tasks in progress.
THEOREM NoStrandedWork == Spec => []InProgressIsOwned
<1>1. IInv => InProgressIsOwned
  BY DEF IInv
<1> QED
  BY <1>1, IInvHolds, PTL

(***************************************************************************)
(* A deleted task stays deleted.                                           *)
(***************************************************************************)
\* No step changes the status of a deleted task.
LEMMA DeletedStep ==
  ASSUME TypeOK, [Next]_vars, NEW k \in Tasks, status[k] = "deleted"
  PROVE  status'[k] = "deleted"
<1>1. status \in [Tasks -> Stored \cup {"uncreated", "deleted"}]
  BY DEF TypeOK
<1>2. ASSUME NEW c \in Callers, NEW x \in Tasks,
             TaskCreate(c, x) \/ TaskUpdate(c, x)
      PROVE  status'[k] = "deleted"
  <2>1. CASE TaskCreate(c, x)
    BY <1>1, <2>1 DEF TaskCreate
  <2>2. CASE \E o, s, D : UpdateFields(c, x, o, s, D)
    BY <1>1, <2>2 DEF UpdateFields, Update, Exists, Stored
  <2>3. CASE Delete(c, x)
    BY <1>1, <2>3 DEF Delete
  <2>4. CASE StartCompletion(c, x)
    BY <2>4 DEF StartCompletion, boardVars
  <2> QED
    BY <1>2, <2>1, <2>2, <2>3, <2>4 DEF TaskUpdate
<1>3. ASSUME NEW c \in Callers, VetoCompletion(c) \/ ApplyCompletion(c)
      PROVE  status'[k] = "deleted"
  BY <1>1, <1>3 DEF VetoCompletion, ApplyCompletion, Exists, Stored, boardVars
<1>4. ASSUME NEW t \in Teammates, Claim(t)
      PROVE  status'[k] = "deleted"
  BY <1>1, <1>4 DEF Claim, Preferred, Claimable
<1>5. ASSUME NEW t \in Teammates, Exit(t)
      PROVE  status'[k] = "deleted"
  BY <1>1, <1>5 DEF Exit, ReleaseTasks, Unfinished
<1>6. ASSUME NEW t \in Teammates,
             \/ Spawn(t) \/ EndTurn(t) \/ Wake(t)
             \/ ReadVersion(t) \/ Recheck(t) \/ ClaimNothing(t)
             \/ ClaimFails(t) \/ LeaveLoop(t) \/ Kill(t)
      PROVE  status'[k] = "deleted"
  BY <1>6 DEF Spawn, EndTurn, Wake, ReadVersion, Recheck, ClaimNothing,
              ClaimFails, LeaveLoop, Kill, boardVars
<1>7. CASE UNCHANGED vars
  BY <1>7 DEF vars, boardVars
<1>8. CASE Next
  BY <1>2, <1>3, <1>4, <1>5, <1>6, <1>8 DEF Next, Board
<1> QED
  BY <1>7, <1>8

\* A completion whose hooks outlast the task, a claim, a release: nothing brings
\* a deleted task back.
THEOREM DeletedForGood == Spec => DeletedStaysDeleted
<1>1. TypeOK /\ [Next]_vars =>
        [\A k \in Tasks : status[k] = "deleted" => status'[k] = "deleted"]_vars
  BY DeletedStep
<1> QED
  BY <1>1, TypeCorrect, PTL DEF Spec, DeletedStaysDeleted

-----------------------------------------------------------------------------
(***************************************************************************)
(* The promise of the board (TeamWork). That a claim, a take or an exit    *)
(* finds the task idle is WorkOnBoard: whoever works on a task nobody      *)
(* meddled with is named as its owner, and the task is not pending; and an *)
(* owner that exits works on nothing, which is WorkInTurn.                 *)
(***************************************************************************)
LEMMA PendingIsIdle ==
  ASSUME IInv, NEW k \in Tasks, status[k] = "pending"
  PROVE  Promise!Idle(k)
BY DEF IInv, WorkOnBoard, InHand, Promise!Idle

LEMMA PromiseOnBoard == \A k \in Tasks : Promise!OnBoard(k) <=> Exists(k)
BY DEF Promise!OnBoard, Exists, Stored

\* A TaskUpdate is an edit: it takes an open task, or it is a disturbance.
LEMMA EditPromise ==
  ASSUME IInv, NEW c \in Callers, NEW k \in Tasks, NEW o \in Teammates \cup {Nobody},
         NEW s \in {"pending", "in_progress", status[k]},
         NEW D \in SUBSET Tasks, UpdateFields(c, k, o, s, D)
  PROVE  Promise!Next
<1>1. Update(c, k) /\ k \notin D
  BY DEF UpdateFields
<1>2. Exists(k) /\ UNCHANGED work
  BY <1>1 DEF Update, mateVars
<1>3. /\ status' = [status EXCEPT ![k] = s]
      /\ blockedBy' = [blockedBy EXCEPT ![k] = @ \cup D]
      /\ disturbed' \in {disturbed, disturbed \cup {k}}
      /\ s # status[k] /\ k \notin disturbed' => status[k] = "pending"
  BY DEF UpdateFields
<1>4. s # status[k] /\ k \notin disturbed' => Promise!Idle(k)
  BY <1>3, PendingIsIdle
<1>5. s \in {"pending", "in_progress", "completed"} /\ (s # "completed" \/ s = status[k])
  BY <1>2 DEF Exists, Stored
<1>6. Promise!Edit(k, s, D)
  BY <1>1, <1>2, <1>3, <1>4, <1>5, PromiseOnBoard DEF Promise!Edit
<1> QED
  BY <1>5, <1>6 DEF Promise!Next

LEMMA CallPromise ==
  ASSUME IInv, NEW c \in Callers, NEW k \in Tasks, TaskCreate(c, k) \/ TaskUpdate(c, k)
  PROVE  Promise!Next \/ UNCHANGED Promise!vars
<1>1. CASE TaskCreate(c, k)
  <2>1. Promise!Create(k)
    BY <1>1 DEF TaskCreate, mateVars, Promise!Create
  <2> QED
    BY <2>1 DEF Promise!Next
<1>2. CASE Delete(c, k)
  <2>1. Promise!Delete(k)
    BY <1>2, PromiseOnBoard DEF Delete, Update, mateVars, Promise!Delete
  <2> QED
    BY <2>1 DEF Promise!Next
<1>3. CASE StartCompletion(c, k)
  BY <1>3 DEF StartCompletion, boardVars, mateVars, Promise!vars
<1>4. ASSUME NEW o \in Teammates \cup {Nobody},
             NEW s \in {"pending", "in_progress", status[k]},
             NEW D \in {{}} \cup {{d} : d \in Tasks}, UpdateFields(c, k, o, s, D)
      PROVE  Promise!Next
  <2>1. D \in SUBSET Tasks
    OBVIOUS
  <2> QED
    BY <1>4, <2>1, EditPromise
<1> QED
  BY <1>1, <1>2, <1>3, <1>4 DEF TaskUpdate

\* A completion that its hooks delayed completes a task on the board, or nothing.
LEMMA CompletionPromise ==
  ASSUME IInv, NEW c \in Callers, VetoCompletion(c) \/ ApplyCompletion(c)
  PROVE  Promise!Next \/ UNCHANGED Promise!vars
<1>1. check[c] \in Tasks
  BY DEF IInv, TypeOK, VetoCompletion, ApplyCompletion
<1>2. CASE ApplyCompletion(c) /\ Exists(check[c])
  <2>1. Promise!Complete(check[c])
    BY <1>1, <1>2, PromiseOnBoard DEF ApplyCompletion, mateVars, Promise!Complete
  <2> QED
    BY <1>1, <2>1 DEF Promise!Next
<1>3. CASE VetoCompletion(c) \/ ~Exists(check[c])
  BY <1>3 DEF VetoCompletion, ApplyCompletion, boardVars, mateVars, Promise!vars
<1> QED
  BY <1>2, <1>3

LEMMA ClaimPromise ==
  ASSUME IInv, NEW t \in Teammates, Claim(t)
  PROVE  Promise!Next
<1>1. PICK k \in Tasks : /\ status[k] = "pending"
                         /\ \A d \in blockedBy[k] : status[d] = "completed"
                         /\ status' = [status EXCEPT ![k] = "in_progress"]
                         /\ work' = [work EXCEPT ![t] = k]
  BY DEF Claim, Preferred, Claimable
<1>2. work[t] = Nobody
  BY DEF Claim, IInv, WorkInTurn
<1>3. Promise!HandOut(t, k)
  BY <1>1, <1>2, PendingIsIdle DEF Claim, Promise!HandOut
<1> QED
  BY <1>3 DEF Promise!Next

\* What an exit puts back is the work of nobody: the owner's turn is over.
LEMMA ExitPromise ==
  ASSUME IInv, NEW t \in Teammates, Exit(t)
  PROVE  Promise!Next
<1> DEFINE K == {k \in Tasks : owner[k] = t /\ status[k] = "in_progress"}
<1>1. work[t] = Nobody
  BY DEF Exit, IInv, WorkInTurn
<1>2. ASSUME NEW k \in K
      PROVE  Promise!Idle(k)
  <2> SUFFICES ASSUME k \notin disturbed, NEW u \in Teammates, work[u] = k
               PROVE  FALSE
    BY DEF Promise!Idle
  <2>1. owner[k] = u
    BY DEF IInv, WorkOnBoard, InHand
  <2> QED
    BY <1>1, <2>1, TeamAssumption
<1>3. status \in [Tasks -> Stored \cup {"uncreated", "deleted"}]
  BY DEF IInv, TypeOK
<1>4. status' = [k \in Tasks |-> IF k \in K THEN "pending" ELSE status[k]]
  BY <1>3 DEF Exit, ReleaseTasks, Unfinished
<1>5. Promise!GiveBack(K)
  BY <1>2, <1>4 DEF Exit, Promise!GiveBack
<1> QED
  BY <1>5 DEF Promise!Next

LEMMA LifePromise ==
  ASSUME NEW t \in Teammates,
         \/ Spawn(t) \/ EndTurn(t) \/ Wake(t)
         \/ ReadVersion(t) \/ Recheck(t) \/ ClaimNothing(t)
         \/ ClaimFails(t) \/ LeaveLoop(t) \/ Kill(t)
  PROVE  Promise!Next \/ UNCHANGED Promise!vars
<1>1. CASE EndTurn(t)
  <2>1. Promise!PutDown(t)
    BY <1>1 DEF EndTurn, boardVars, Promise!PutDown
  <2> QED
    BY <2>1 DEF Promise!Next
<1>2. CASE ~EndTurn(t)
  BY <1>2 DEF Spawn, Wake, ReadVersion, Recheck, ClaimNothing, ClaimFails, LeaveLoop,
              Kill, boardVars, Promise!vars
<1> QED
  BY <1>1, <1>2

\* The board keeps the promise of TeamWork to any team with any tasks: no
\* interleaving of claims, updates, delayed completions, kills and exits hands
\* out a task that is being worked on, waits for another, or is gone.
THEOREM KeepsPromise == Spec => TeamSpec
<1>1. Init => Promise!Init
  BY DEF Init, Promise!Init
<1>2. IInv /\ [Next]_vars => [Promise!Next]_(Promise!vars)
  <2> SUFFICES ASSUME IInv, [Next]_vars
               PROVE  Promise!Next \/ UNCHANGED Promise!vars
    OBVIOUS
  <2>1. CASE Next
    BY <2>1, CallPromise, CompletionPromise, ClaimPromise, ExitPromise, LifePromise
    DEF Next, Board
  <2>2. CASE UNCHANGED vars
    BY <2>2 DEF vars, boardVars, mateVars, Promise!vars
  <2> QED
    BY <2>1, <2>2
<1> QED
  BY <1>1, <1>2, IInvHolds, PTL DEF Spec, TeamSpec, Promise!Spec

-----------------------------------------------------------------------------
(***************************************************************************)
(* The board is skipped only when it has nothing: the part of              *)
(* NoTaskOverlooked that is a matter of safety.                            *)
(***************************************************************************)
NothingFor(t) == \A k \in Tasks : ~Claimable(t, k)

\* What a teammate remembers of the board is forgotten with it at its exit; while
\* it is there, "nothing to claim, in the version I read last" stays true for as
\* long as that version is the board's.
SkipIsSound ==
  \A t \in Teammates :
    /\ pc[t] = "out" => ~skip[t]
    /\ skip[t] /\ current[t] /\ pc[t] \in {"idle", "turn"} => NothingFor(t)

LEMMA InitSkip == Init => SkipIsSound
BY DEF Init, SkipIsSound

\* A write that gives the file a new version makes every teammate look again.
LEMMA SkipWritten ==
  ASSUME SkipIsSound, ~CoarseClock, Written, UNCHANGED <<pc, skip>>
  PROVE  SkipIsSound'
BY DEF SkipIsSound, Written

LEMMA SkipSame ==
  ASSUME SkipIsSound, UNCHANGED boardVars,
         \A t \in Teammates :
           /\ pc'[t] = "out" => pc[t] = "out" /\ skip'[t] = skip[t]
           /\ skip'[t] /\ current'[t] /\ pc'[t] \in {"idle", "turn"} =>
                \/ skip[t] /\ current[t] /\ pc[t] \in {"idle", "turn"}
                \/ NothingFor(t)
  PROVE  SkipIsSound'
<1>1. \A t \in Teammates : NothingFor(t) => NothingFor(t)'
  BY DEF NothingFor, Claimable, boardVars
<1> QED
  BY <1>1 DEF SkipIsSound

LEMMA SkipStep == ~CoarseClock /\ TypeOK /\ SkipIsSound /\ [Next]_vars => SkipIsSound'
<1> SUFFICES ASSUME ~CoarseClock, TypeOK, SkipIsSound, [Next]_vars PROVE SkipIsSound'
  OBVIOUS
<1>g. ASSUME NEW t \in Teammates, NEW l, Goto(t, l)
      PROVE  \A u \in Teammates : pc'[u] = IF u = t THEN l ELSE pc[u]
  BY <1>g DEF Goto, TypeOK
<1>1. ASSUME NEW c \in Callers, NEW k \in Tasks, TaskCreate(c, k) \/ TaskUpdate(c, k)
      PROVE  SkipIsSound'
  <2>1. CASE StartCompletion(c, k)
    BY <2>1, SkipSame DEF StartCompletion, mateVars
  <2>2. CASE ~StartCompletion(c, k)
    <3>1. Written /\ UNCHANGED <<pc, skip>>
      BY <1>1, <2>2 DEF TaskCreate, TaskUpdate, UpdateFields, Delete, Update, mateVars
    <3> QED
      BY <3>1, SkipWritten
  <2> QED
    BY <2>1, <2>2
<1>2. ASSUME NEW c \in Callers, VetoCompletion(c) \/ ApplyCompletion(c) PROVE SkipIsSound'
  <2>1. CASE VetoCompletion(c)
    BY <2>1, SkipSame DEF VetoCompletion, mateVars
  <2>2. CASE ApplyCompletion(c)
    BY <2>2, SkipWritten DEF ApplyCompletion, mateVars
  <2> QED
    BY <1>2, <2>1, <2>2
<1>3. ASSUME NEW t \in Teammates, Spawn(t) PROVE SkipIsSound'
  <2>1. UNCHANGED <<boardVars, skip, current>> /\ Goto(t, "turn") /\ ~skip[t]
    BY <1>3 DEF Spawn, SkipIsSound
  <2> QED
    BY <1>g, <2>1, SkipSame
<1>4. ASSUME NEW t \in Teammates, EndTurn(t) \/ Wake(t) PROVE SkipIsSound'
  <2>1. /\ UNCHANGED <<boardVars, skip, current>> /\ pc[t] \in {"idle", "turn"}
        /\ \E l \in {"idle", "turn", "exit"} : Goto(t, l)
    BY <1>4 DEF EndTurn, Wake
  <2>2. PICK l \in {"idle", "turn", "exit"} : Goto(t, l)
    BY <2>1
  <2>3. \A u \in Teammates : pc'[u] = IF u = t THEN l ELSE pc[u]
    BY <1>g, <2>2
  <2> QED
    BY <2>1, <2>3, SkipSame
<1>5. ASSUME NEW t \in Teammates, ReadVersion(t) \/ Recheck(t) PROVE SkipIsSound'
  <2>1. /\ UNCHANGED <<boardVars, skip>> /\ Goto(t, "claim")
        /\ \A u \in Teammates : u # t => current'[u] = current[u]
    BY <1>5 DEF ReadVersion, Recheck, TypeOK
  <2>2. \A u \in Teammates : pc'[u] = IF u = t THEN "claim" ELSE pc[u]
    BY <1>g, <2>1
  <2> QED
    BY <2>1, <2>2, SkipSame
<1>6. ASSUME NEW t \in Teammates, Claim(t) PROVE SkipIsSound'
  <2>1. /\ current' = [u \in Teammates |-> FALSE] /\ skip' = skip /\ Goto(t, "turn")
    BY <1>6 DEF Claim
  <2>2. \A u \in Teammates : pc'[u] = IF u = t THEN "turn" ELSE pc[u]
    BY <1>g, <2>1
  <2> QED
    BY <2>1, <2>2 DEF SkipIsSound
<1>7. ASSUME NEW t \in Teammates, ClaimNothing(t) PROVE SkipIsSound'
  <2>1. /\ UNCHANGED <<boardVars, current>> /\ Goto(t, "idle") /\ NothingFor(t)
        /\ \A u \in Teammates : u # t => skip'[u] = skip[u]
    BY <1>7 DEF ClaimNothing, TypeOK, NothingFor
  <2>2. \A u \in Teammates : pc'[u] = IF u = t THEN "idle" ELSE pc[u]
    BY <1>g, <2>1
  <2> QED
    BY <2>1, <2>2, SkipSame
<1>8. ASSUME NEW t \in Teammates, ClaimFails(t) \/ LeaveLoop(t) PROVE SkipIsSound'
  <2>1. UNCHANGED <<boardVars, skip, current>> /\ Goto(t, "exit")
    BY <1>8 DEF ClaimFails, LeaveLoop
  <2>2. \A u \in Teammates : pc'[u] = IF u = t THEN "exit" ELSE pc[u]
    BY <1>g, <2>1
  <2> QED
    BY <2>1, <2>2, SkipSame
<1>9. ASSUME NEW t \in Teammates, Kill(t) PROVE SkipIsSound'
  BY <1>9, SkipSame DEF Kill
<1>10. ASSUME NEW t \in Teammates, Exit(t) PROVE SkipIsSound'
  <2>1. /\ Written /\ Goto(t, "out")
        /\ \A u \in Teammates : skip'[u] = IF u = t THEN FALSE ELSE skip[u]
    BY <1>10 DEF Exit, TypeOK
  <2>2. \A u \in Teammates : pc'[u] = IF u = t THEN "out" ELSE pc[u]
    BY <1>g, <2>1
  <2> QED
    BY <2>1, <2>2 DEF SkipIsSound, Written
<1>11. CASE UNCHANGED vars
  BY <1>11, SkipSame DEF vars, mateVars
<1> QED
  BY <1>1, <1>2, <1>3, <1>4, <1>5, <1>6, <1>7, <1>8, <1>9, <1>10, <1>11 DEF Next, Board

\* A teammate that skips the board because its version looks the same misses
\* nothing, provided that each write of the file changes its inode, size or mtime
\* (without that, the claim every few seconds is what NoTaskOverlooked rests on).
THEOREM SkipMissesNothing == ~CoarseClock => (Spec => []SkipIsSound)
<1> SUFFICES ASSUME ~CoarseClock PROVE Spec => []SkipIsSound
  OBVIOUS
<1>1. TypeOK /\ SkipIsSound /\ [Next]_vars => SkipIsSound'
  BY SkipStep
<1> QED
  BY <1>1, TypeCorrect, InitSkip, PTL DEF Spec
=============================================================================
