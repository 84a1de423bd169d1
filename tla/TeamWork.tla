------------------------------ MODULE TeamWork ------------------------------
(***************************************************************************)
(* What the task board promises a team, however the claims, the updates,   *)
(* the delayed completions, the kills and the exits of its members         *)
(* interleave. A task is handed out while it is open, its dependencies are *)
(* completed and nobody works on it; it is open again only when its worker *)
(* has stopped; a completion completes a task that is on the board; a      *)
(* deleted task is gone for good. A member that edits a task another one   *)
(* holds meddles with it, and gives up the promise for that task alone.    *)
(* TaskBoard is shown to implement it.                                     *)
(***************************************************************************)
CONSTANTS Tasks, Teammates, Nobody

VARIABLES status,     \* of a task, or "uncreated" / "deleted"
          blockedBy,  \* the tasks it waits for
          work,       \* the task a teammate was handed, while it works on it
          meddled     \* the tasks somebody meddled with

vars == <<status, blockedBy, work, meddled>>

OnBoard(k) == status[k] \in {"pending", "in_progress", "completed"}
\* The one who is handed the task next works on it alone.
Idle(k) == k \in meddled \/ \A t \in Teammates : work[t] # k

Init ==
  /\ status = [k \in Tasks |-> "uncreated"]
  /\ blockedBy = [k \in Tasks |-> {}]
  /\ work = [t \in Teammates |-> Nobody]
  /\ meddled = {}

Create(k) ==
  /\ status[k] = "uncreated"
  /\ status' = [status EXCEPT ![k] = "pending"]
  /\ UNCHANGED <<blockedBy, work, meddled>>

\* A claim.
HandOut(t, k) ==
  /\ work[t] = Nobody
  /\ status[k] = "pending" /\ Idle(k)
  /\ \A d \in blockedBy[k] : status[d] = "completed"
  /\ status' = [status EXCEPT ![k] = "in_progress"]
  /\ work' = [work EXCEPT ![t] = k]
  /\ UNCHANGED <<blockedBy, meddled>>

\* An edit: new dependencies, and a status other than "completed". It takes an
\* open task that nobody works on, or it meddles with the task.
Edit(k, s, D) ==
  /\ OnBoard(k) /\ k \notin D
  /\ s # "completed" \/ s = status[k]
  /\ meddled' \in {meddled, meddled \cup {k}}
  /\ s # status[k] /\ k \notin meddled' => status[k] = "pending" /\ Idle(k)
  /\ status' = [status EXCEPT ![k] = s]
  /\ blockedBy' = [blockedBy EXCEPT ![k] = @ \cup D]
  /\ UNCHANGED work

Complete(k) ==
  /\ OnBoard(k)
  /\ status' = [status EXCEPT ![k] = "completed"]
  /\ UNCHANGED <<blockedBy, work, meddled>>

\* The links to a deleted task go with it.
Delete(k) ==
  /\ OnBoard(k)
  /\ status' = [status EXCEPT ![k] = "deleted"]
  /\ blockedBy' = [x \in Tasks |-> IF x = k THEN {} ELSE blockedBy[x] \ {k}]
  /\ UNCHANGED <<work, meddled>>

\* The turn on a task ends; the task stays as it is.
PutDown(t) ==
  /\ work' = [work EXCEPT ![t] = Nobody]
  /\ UNCHANGED <<status, blockedBy, meddled>>

\* What a teammate left unfinished is open again: nobody works on it any more.
GiveBack(K) ==
  /\ \A k \in K : status[k] = "in_progress" /\ Idle(k)
  /\ status' = [k \in Tasks |-> IF k \in K THEN "pending" ELSE status[k]]
  /\ UNCHANGED <<blockedBy, work, meddled>>

Next ==
  \/ \E k \in Tasks : Create(k) \/ Complete(k) \/ Delete(k)
  \/ \E k \in Tasks, s \in {"pending", "in_progress", "completed"}, D \in SUBSET Tasks : Edit(k, s, D)
  \/ \E t \in Teammates : PutDown(t) \/ \E k \in Tasks : HandOut(t, k)
  \/ \E K \in SUBSET Tasks : GiveBack(K)

Spec == Init /\ [][Next]_vars
=============================================================================
