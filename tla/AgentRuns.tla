----------------------------- MODULE AgentRuns -----------------------------
(***************************************************************************)
(* What the session promises about the runs of its background agents,      *)
(* however launches, kills, resumes, notices and evictions interleave. An  *)
(* agent is run generation after generation. A generation starts at most   *)
(* once and alone; how it ended is decided once, by its own worker or by a *)
(* kill; only a killed run is aborted; what the parent is told of a run is *)
(* how that run ended. LocalAgent is shown to implement it.                *)
(***************************************************************************)
EXTENDS Naturals, Sequences

CONSTANTS Agents,    \* agent ids
          MaxGen,    \* bound: generations per agent
          Evicting   \* a sweeper may evict the entry a run reports to

VARIABLES phase,     \* of a run: "new", "registered", "alive", "gone"
          outcome,   \* how a run ended, "none" while that is open
          aborted,   \* the runs whose abort controller fired
          told       \* what the parent was told of a run, in order

vars == <<phase, outcome, aborted, told>>
Runs == Agents \X (1..MaxGen)

\* Every generation after this one is new: it is the agent's current one.
Latest(r) == \A q \in Runs : q[1] = r[1] /\ q[2] > r[2] => phase[q] = "new"
\* No generation of its agent is at work.
Alone(r) == \A q \in Runs : q[1] = r[1] => phase[q] # "alive"
Enter(r, p) == phase' = [phase EXCEPT ![r] = p]

Init ==
  /\ phase = [r \in Runs |-> "new"]
  /\ outcome = [r \in Runs |-> "none"]
  /\ aborted = {}
  /\ told = [r \in Runs |-> <<>>]

Register(r) ==
  /\ phase[r] = "new" /\ Latest(r) /\ Alone(r)
  /\ Enter(r, "registered")
  /\ UNCHANGED <<outcome, aborted, told>>

Start(r) ==
  /\ phase[r] = "registered" /\ Latest(r) /\ Alone(r)
  /\ Enter(r, "alive")
  /\ UNCHANGED <<outcome, aborted, told>>

\* A run completes or fails: only while it is alive, and not after a kill.
End(r, st) ==
  /\ phase[r] = "alive" /\ outcome[r] = "none"
  /\ outcome' = [outcome EXCEPT ![r] = st]
  /\ UNCHANGED <<phase, aborted, told>>

\* A kill: of the current generation, which may not have started yet.
Kill(r) ==
  /\ phase[r] \in {"registered", "alive"} /\ Latest(r)
  /\ outcome[r] = "none"
  /\ outcome' = [outcome EXCEPT ![r] = "killed"]
  /\ UNCHANGED <<phase, aborted, told>>

Abort(r) ==
  /\ outcome[r] = "killed"
  /\ aborted' = aborted \cup {r}
  /\ UNCHANGED <<phase, outcome, told>>

Announce(r) ==
  /\ outcome[r] # "none"
  /\ told' = [told EXCEPT ![r] = Append(@, outcome[r])]
  /\ UNCHANGED <<phase, outcome, aborted>>

\* A worker is gone only once the outcome of its run is on record.
Exit(r) ==
  /\ phase[r] = "alive"
  /\ outcome[r] # "none" \/ Evicting
  /\ Enter(r, "gone")
  /\ UNCHANGED <<outcome, aborted, told>>

Next ==
  \E r \in Runs : \/ Register(r) \/ Start(r) \/ Exit(r)
                  \/ End(r, "completed") \/ End(r, "failed")
                  \/ Kill(r) \/ Abort(r) \/ Announce(r)

Spec == Init /\ [][Next]_vars
=============================================================================
