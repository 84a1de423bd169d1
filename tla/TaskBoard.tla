------------------------------ MODULE TaskBoard ------------------------------
(***************************************************************************)
(* The task board a team shares (services/swarm/task_board.py), the        *)
(* TaskCreate and TaskUpdate tools on it (tool_system/tools/tasks_v2.py),  *)
(* and the work loop of the persistent teammates that claim from it        *)
(* (TeamRuntime._run in services/swarm/team_runtime.py).                   *)
(*                                                                         *)
(* Every transaction runs under the board's lock, reads the file first and *)
(* replaces it at the end, so it is one action on one board. The file's    *)
(* version, which an idle teammate compares before it reads the board, is  *)
(* represented by whether the version it read last is still current.       *)
(***************************************************************************)
EXTENDS Integers, FiniteSets

CONSTANTS Tasks,       \* task ids; ids are random, a deleted one never returns
          Teammates,   \* names; a name may be spawned again after its exit
          Lead,        \* the session that leads the team
          Nobody,      \* owner None, no task
          CoarseClock, \* a write may leave inode, size and mtime as they were
          MaxSpawns,   \* bound: spawns, of all names together
          MaxUpdates   \* bound: TaskUpdate calls other than completions

ASSUME TeamAssumption ==
  /\ IsFiniteSet(Tasks) /\ IsFiniteSet(Teammates)
  /\ Lead \notin Teammates
  /\ Nobody \notin Tasks \cup Teammates \cup {Lead}
  /\ CoarseClock \in BOOLEAN
  /\ MaxSpawns \in Nat \ {0} /\ MaxUpdates \in Nat

VARIABLES
  status,     \* of each task, or "uncreated" / "deleted"
  owner,      \* of each task: a teammate's name, or Nobody
  blockedBy,  \* the tasks each task waits for
  pc,         \* where a teammate's loop is; "out" when there is no such member
  work,       \* the task a teammate was given by its claim and works on
  killed,     \* teammates whose lifecycle controller is aborted
  spawns,     \* how many teammates were spawned
  skip,       \* idle_board is set: the last claim found nothing
  current,    \* the version read last is still the board's
  check,      \* the completion whose hooks a caller runs, or Nobody
  updates,    \* how many TaskUpdate calls were made
  disturbed   \* history: tasks a TaskUpdate took out of their owner's hands

boardVars == <<status, owner, blockedBy>>
mateVars == <<pc, work, killed, spawns>>
vars == <<boardVars, mateVars, skip, current, check, updates, disturbed>>

Callers == Teammates \cup {Lead}
Stored == {"pending", "in_progress", "completed"}
Exists(k) == status[k] \in Stored
Unfinished(k) == status[k] \in {"pending", "in_progress"}

TypeOK ==
  /\ status \in [Tasks -> Stored \cup {"uncreated", "deleted"}]
  /\ owner \in [Tasks -> Teammates \cup {Nobody}]
  /\ blockedBy \in [Tasks -> SUBSET Tasks]
  /\ pc \in [Teammates -> {"out", "turn", "idle", "claim", "exit"}]
  /\ work \in [Teammates -> Tasks \cup {Nobody}]
  /\ killed \subseteq Teammates
  /\ spawns \in 0..MaxSpawns
  /\ skip \in [Teammates -> BOOLEAN]
  /\ current \in [Teammates -> BOOLEAN]
  /\ check \in [Callers -> Tasks \cup {Nobody}]
  /\ updates \in 0..MaxUpdates
  /\ disturbed \subseteq Tasks

Init ==
  /\ status = [k \in Tasks |-> "uncreated"]
  /\ owner = [k \in Tasks |-> Nobody]
  /\ blockedBy = [k \in Tasks |-> {}]
  /\ pc = [t \in Teammates |-> "out"]
  /\ work = [t \in Teammates |-> Nobody]
  /\ killed = {}
  /\ spawns = 0
  /\ skip = [t \in Teammates |-> FALSE]
  /\ current = [t \in Teammates |-> FALSE]
  /\ check = [c \in Callers |-> Nobody]
  /\ updates = 0
  /\ disturbed = {}

\* write_json_atomic: the new file has a new version, unless clock and inode
\* are reused.
Written ==
  \/ current' = [t \in Teammates |-> FALSE]
  \/ CoarseClock /\ UNCHANGED current

-----------------------------------------------------------------------------
(* The tools. A teammate calls them during a work turn, the lead any time; *)
(* a caller makes one call at a time.                                      *)

MayCall(c) == /\ c \in Teammates => pc[c] = "turn"
              /\ check[c] = Nobody

\* TaskCreate: a pending task of nobody.
TaskCreate(c, k) ==
  /\ MayCall(c)
  /\ status[k] = "uncreated"
  /\ status' = [status EXCEPT ![k] = "pending"]
  /\ Written
  /\ UNCHANGED <<owner, blockedBy, mateVars, skip, check, updates, disturbed>>

\* A TaskUpdate that finds its task.
Update(c, k) ==
  /\ MayCall(c)
  /\ Exists(k)
  /\ updates < MaxUpdates
  /\ updates' = updates + 1
  /\ Written
  /\ UNCHANGED <<mateVars, skip, check>>

\* A teammate that leaves a task in progress and without an owner owns it.
Adopted(c, s, o) ==
  IF s = "in_progress" /\ o = Nobody /\ c \in Teammates THEN c ELSE o

\* Owner, status and dependencies in one call. The owner may be empty or a name
\* that is no member (any more). The links of addBlocks and addBlockedBy are
\* reciprocal, so one direction is enough; a task cannot depend on itself.
UpdateFields(c, k, o, s, D) ==
  LET new == <<s, Adopted(c, s, o)>>
      changed == new # <<status[k], owner[k]>>
  IN
  /\ Update(c, k)
  /\ changed \/ D \ blockedBy[k] # {}
  /\ k \notin D
  /\ status' = [status EXCEPT ![k] = s]
  /\ owner' = [owner EXCEPT ![k] = new[2]]
  /\ blockedBy' = [blockedBy EXCEPT ![k] = @ \cup D]
  /\ disturbed' =
       IF changed /\ (status[k] # "pending" \/ (s = "in_progress" /\ new[2] # c))
       THEN disturbed \cup {k} ELSE disturbed

\* Mutant of Delete: the entry is marked instead of popped.
DeleteMarks(c, k) ==
  /\ Update(c, k)
  /\ status' = [status EXCEPT ![k] = "removed"]
  /\ UNCHANGED <<owner, blockedBy, disturbed>>

\* status = deleted: the task and every link to it are removed.
Delete(c, k) ==
  /\ Update(c, k)
  /\ status' = [status EXCEPT ![k] = "deleted"]
  /\ owner' = [owner EXCEPT ![k] = Nobody]
  /\ blockedBy' = [x \in Tasks |-> IF x = k THEN {} ELSE blockedBy[x] \ {k}]
  /\ UNCHANGED disturbed

\* status = completed, first part: the task is read and its completion hooks
\* run without the lock.
StartCompletion(c, k) ==
  /\ MayCall(c)
  /\ Exists(k)
  /\ check' = [check EXCEPT ![c] = k]
  /\ UNCHANGED <<boardVars, mateVars, skip, current, updates, disturbed>>

\* A hook vetoes the completion of a task that was not completed yet.
VetoCompletion(c) ==
  /\ check[c] # Nobody
  /\ check' = [check EXCEPT ![c] = Nobody]
  /\ UNCHANGED <<boardVars, mateVars, skip, current, updates, disturbed>>

\* Mutant of ApplyCompletion: the task as it was read before the hooks is
\* written back.
ApplyStaleCompletion(c) ==
  /\ check[c] # Nobody
  /\ check' = [check EXCEPT ![c] = Nobody]
  /\ status' = [status EXCEPT ![check[c]] = "completed"]
  /\ Written
  /\ UNCHANGED <<owner, blockedBy, mateVars, skip, updates, disturbed>>

\* Second part, a transaction of its own: the task may be gone by now.
ApplyCompletion(c) ==
  /\ check[c] # Nobody
  /\ check' = [check EXCEPT ![c] = Nobody]
  /\ IF Exists(check[c])
     THEN status' = [status EXCEPT ![check[c]] = "completed"]
     ELSE UNCHANGED status
  /\ Written
  /\ UNCHANGED <<owner, blockedBy, mateVars, skip, updates, disturbed>>

TaskUpdate(c, k) ==
  \/ \E o \in Teammates \cup {Nobody}, s \in {"pending", "in_progress", status[k]} :
       \E D \in {{}} \cup {{d} : d \in Tasks} : UpdateFields(c, k, o, s, D)
  \/ Delete(c, k)
  \/ StartCompletion(c, k)

-----------------------------------------------------------------------------
(* The life of a teammate.                                                 *)

Goto(t, l) == pc' = [pc EXCEPT ![t] = l]

\* spawn(): the name must be free; the first turn is the prompt's.
Spawn(t) ==
  /\ pc[t] = "out"
  /\ spawns < MaxSpawns
  /\ spawns' = spawns + 1
  /\ Goto(t, "turn")
  /\ UNCHANGED <<boardVars, work, killed, skip, current, check, updates, disturbed>>

\* A work turn ends when its tool calls have returned. An aborted lifecycle
\* and an approved shutdown leave the loop.
EndTurn(t) ==
  /\ pc[t] = "turn"
  /\ check[t] = Nobody
  /\ \/ Goto(t, "idle") /\ t \notin killed
     \/ Goto(t, "exit")
  /\ work' = [work EXCEPT ![t] = Nobody]
  /\ UNCHANGED <<boardVars, killed, spawns, skip, current, check, updates, disturbed>>

\* A message starts a turn that claims nothing.
Wake(t) ==
  /\ pc[t] = "idle"
  /\ t \notin killed
  /\ Goto(t, "turn")
  /\ UNCHANGED <<boardVars, work, killed, spawns, skip, current, check, updates, disturbed>>

\* The version is read, and the claim follows when it differs from the last
\* one that had nothing to claim.
ReadVersion(t) ==
  /\ pc[t] = "idle"
  /\ t \notin killed
  /\ ~skip[t] \/ ~current[t]
  /\ current' = [current EXCEPT ![t] = TRUE]
  /\ Goto(t, "claim")
  /\ UNCHANGED <<boardVars, work, killed, spawns, skip, check, updates, disturbed>>

\* Mutant of Recheck: the age of the last look at the board is not considered.
RecheckNoAge(t) ==
  /\ pc[t] = "idle"
  /\ t \notin killed
  /\ skip[t] /\ ~current[t]
  /\ current' = [current EXCEPT ![t] = TRUE]
  /\ Goto(t, "claim")
  /\ UNCHANGED <<boardVars, work, killed, spawns, skip, check, updates, disturbed>>

\* ... or when it was read _IDLE_BOARD_RECHECK_SECONDS ago.
Recheck(t) ==
  /\ pc[t] = "idle"
  /\ t \notin killed
  /\ skip[t] /\ current[t]
  /\ Goto(t, "claim")
  /\ UNCHANGED <<boardVars, work, killed, spawns, skip, current, check, updates, disturbed>>

\* A pending task, of t or of nobody, all of whose dependencies completed; a
\* dependency that is missing has not.
Claimable(t, k) ==
  /\ status[k] = "pending"
  /\ owner[k] \in {t, Nobody}
  /\ \A d \in blockedBy[k] : status[d] = "completed"

\* Own tasks come first.
Preferred(t, k) ==
  /\ Claimable(t, k)
  /\ owner[k] = Nobody => ~ \E x \in Tasks : Claimable(t, x) /\ owner[x] = t

\* claim_next_task: the abort is not looked at again on the way to the claim.
Claim(t) ==
  /\ pc[t] = "claim"
  /\ \E k \in Tasks :
       /\ Preferred(t, k)
       /\ status' = [status EXCEPT ![k] = "in_progress"]
       /\ owner' = [owner EXCEPT ![k] = t]
       /\ work' = [work EXCEPT ![t] = k]
  /\ Goto(t, "turn")
  /\ \/ current' = [u \in Teammates |-> FALSE]
     \/ CoarseClock /\ current' = [current EXCEPT ![t] = FALSE]
  /\ UNCHANGED <<blockedBy, killed, spawns, skip, check, updates, disturbed>>

\* Nothing to claim: the version read before the claim is remembered.
ClaimNothing(t) ==
  /\ pc[t] = "claim"
  /\ \A k \in Tasks : ~Claimable(t, k)
  /\ skip' = [skip EXCEPT ![t] = TRUE]
  /\ Goto(t, "idle")
  /\ UNCHANGED <<boardVars, work, killed, spawns, current, check, updates, disturbed>>

\* The board cannot be read or written: the teammate's lifecycle fails.
ClaimFails(t) ==
  /\ pc[t] = "claim"
  /\ Goto(t, "exit")
  /\ UNCHANGED <<boardVars, work, killed, spawns, skip, current, check, updates, disturbed>>

\* Mutant of LeaveLoop: an idle teammate finishes its tasks before it stops.
LeaveLoopWhenDone(t) ==
  /\ pc[t] = "idle"
  /\ t \in killed
  /\ \A k \in Tasks : owner[k] = t => ~Unfinished(k)
  /\ Goto(t, "exit")
  /\ UNCHANGED <<boardVars, work, killed, spawns, skip, current, check, updates, disturbed>>

LeaveLoop(t) ==
  /\ pc[t] = "idle"
  /\ t \in killed
  /\ Goto(t, "exit")
  /\ UNCHANGED <<boardVars, work, killed, spawns, skip, current, check, updates, disturbed>>

\* release_tasks: what the owner has not completed goes back to the board.
ReleaseTasks(t) ==
  LET back == {k \in Tasks : owner[k] = t /\ Unfinished(k)} IN
  /\ status' = [k \in Tasks |-> IF k \in back THEN "pending" ELSE status[k]]
  /\ owner' = [k \in Tasks |-> IF k \in back THEN Nobody ELSE owner[k]]

\* Mutant of Kill: the tasks are released with the label, not at the exit.
KillReleases(t) ==
  /\ pc[t] # "out"
  /\ t \notin killed
  /\ killed' = killed \cup {t}
  /\ ReleaseTasks(t)
  /\ Written
  /\ UNCHANGED <<blockedBy, pc, work, spawns, skip, check, updates, disturbed>>

\* TaskStop, or the user's interrupt of the agent.
Kill(t) ==
  /\ pc[t] # "out"
  /\ t \notin killed
  /\ killed' = killed \cup {t}
  /\ UNCHANGED <<boardVars, pc, work, spawns, skip, current, check, updates, disturbed>>

\* Mutant of Exit: the tasks of the teammate stay with its name.
ExitKeepsTasks(t) ==
  /\ pc[t] = "exit"
  /\ Goto(t, "out")
  /\ killed' = killed \ {t}
  /\ skip' = [skip EXCEPT ![t] = FALSE]
  /\ UNCHANGED <<boardVars, work, spawns, current, check, updates, disturbed>>

\* The finally block: the tasks go back and the member is removed, under one
\* hold of the lock; its local state ends with it.
Exit(t) ==
  /\ pc[t] = "exit"
  /\ ReleaseTasks(t)
  /\ Written
  /\ Goto(t, "out")
  /\ killed' = killed \ {t}
  /\ skip' = [skip EXCEPT ![t] = FALSE]
  /\ UNCHANGED <<blockedBy, work, spawns, check, updates, disturbed>>

-----------------------------------------------------------------------------
Board(t) == ReadVersion(t) \/ Recheck(t) \/ Claim(t) \/ ClaimNothing(t)

Next ==
  \/ \E c \in Callers, k \in Tasks : TaskCreate(c, k) \/ TaskUpdate(c, k)
  \/ \E c \in Callers : VetoCompletion(c) \/ ApplyCompletion(c)
  \/ \E t \in Teammates : Spawn(t) \/ EndTurn(t) \/ Wake(t) \/ Board(t)
                            \/ ClaimFails(t) \/ LeaveLoop(t) \/ Kill(t) \/ Exit(t)

Spec == Init /\ [][Next]_vars

\* The loop of a teammate wakes every 50 ms, a tool call that has begun returns,
\* and an aborted turn ends after finitely many of them. A turn that nobody aborts
\* owes nothing.
AbortedTurnEnds(t) == t \in killed /\ EndTurn(t)
CallReturns(c) == VetoCompletion(c) \/ ApplyCompletion(c)

Fairness ==
  /\ \A t \in Teammates : /\ WF_vars(Board(t))
                          /\ WF_vars(LeaveLoop(t)) /\ WF_vars(Exit(t))
                          /\ SF_vars(AbortedTurnEnds(t))
  /\ \A c \in Callers : WF_vars(CallReturns(c))

FairSpec == Spec /\ Fairness

-----------------------------------------------------------------------------
(* Properties.                                                             *)

\* Two teammates never work on the same claimed task, through kills, exits and
\* respawns, unless somebody took the task out of its owner's hands.
ExclusiveWork ==
  \A t, u \in Teammates :
    work[t] = work[u] /\ work[t] # Nobody => t = u \/ work[t] \in disturbed

\* "Return unfinished work to the board when its teammate exits": no task stays
\* in progress in the name of a teammate that is gone.
InProgressIsOwned ==
  \A k \in Tasks : status[k] = "in_progress" /\ k \notin disturbed
                     => owner[k] \in Teammates /\ pc[owner[k]] # "out"

\* A completion whose hooks took their time brings no deleted task back.
DeletedStaysDeleted ==
  [][\A k \in Tasks : status[k] = "deleted" => status'[k] = "deleted"]_vars

\* What the board promises the team (see TeamWork): a claim hands out an open
\* task nobody works on, once its dependencies are completed; a task is open
\* again only when its worker has stopped; a late completion revives nothing.
Promise == INSTANCE TeamWork WITH meddled <- disturbed
TeamSpec == Promise!Spec

\* An idle teammate does not sit for ever beside a task it could claim, although
\* it skips a board whose version looks the same.
NoTaskOverlooked ==
  \A t \in Teammates : \A k \in Tasks :
    []<>~(pc[t] \in {"idle", "claim"} /\ Claimable(t, k))

\* A killed teammate gives its unfinished work back.
KilledGivesBack ==
  \A t \in Teammates : \A k \in Tasks :
    (pc[t] # "out" /\ t \in killed /\ owner[k] = t /\ status[k] = "in_progress")
      ~> ~(owner[k] = t /\ status[k] = "in_progress")
=============================================================================
