------------------------------ MODULE SlotPool ------------------------------
(***************************************************************************)
(* What the session promises about its workers, whatever admits and        *)
(* releases them: at most Capacity workers are busy, and a worker starts   *)
(* only when it is not busy already. AgentSupervisor and LocalAgent are    *)
(* shown to implement it.                                                  *)
(***************************************************************************)
EXTENDS Naturals, FiniteSets

CONSTANTS Workers,   \* worker ids
          Capacity   \* how many may be busy at once

VARIABLE busy        \* the ids whose worker is at work

Init == busy = {}

\* A worker starts: a slot is free and no worker of that id is at work.
Start(w) ==
  /\ w \notin busy
  /\ Cardinality(busy) < Capacity
  /\ busy' = busy \cup {w}

\* A worker is gone.
Stop(w) ==
  /\ w \in busy
  /\ busy' = busy \ {w}

Next == \E w \in Workers : Start(w) \/ Stop(w)

Spec == Init /\ [][Next]_busy
=============================================================================
