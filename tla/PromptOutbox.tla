---------------------------- MODULE PromptOutbox ----------------------------
(***************************************************************************)
(* What the queue of the composer promises the user who leaves prompts in  *)
(* it, whoever drains it and wherever the user has gone meanwhile. A       *)
(* prompt waits until it is sent or withdrawn; one prompt of a session is  *)
(* under way at a time; an attempt that fails leaves the prompt where it   *)
(* was; a prompt is run once, in the session it was left for, and leaves   *)
(* the queue when that is known. A prompt that is withdrawn while it is    *)
(* under way may still run. ComposerQueue is shown to implement it.        *)
(***************************************************************************)
EXTENDS Sequences

CONSTANTS Prompts, Sessions,
          Home       \* the session a prompt is left for

VARIABLES known,     \* the prompts the user has left so far
          waiting,   \* the prompts that are in a queue
          underway,  \* the prompts somebody is sending
          served     \* what each session was given to run, in order

vars == <<known, waiting, underway, served>>

Ran == {p \in Prompts : \E i \in DOMAIN served[Home[p]] : served[Home[p]][i] = p}

Init ==
  /\ known = {} /\ waiting = {} /\ underway = {}
  /\ served = [s \in Sessions |-> <<>>]

Leave(p) ==
  /\ p \notin known
  /\ known' = known \cup {p}
  /\ waiting' = waiting \cup {p}
  /\ UNCHANGED <<underway, served>>

\* Sending starts with a prompt that waits, and not beside another one.
Send(p) ==
  /\ p \in waiting \ Ran
  /\ \A q \in underway : Home[q] # Home[p]
  /\ underway' = underway \cup {p}
  /\ UNCHANGED <<known, waiting, served>>

Run(p) ==
  /\ p \in underway \ Ran
  /\ served' = [served EXCEPT ![Home[p]] = Append(@, p)]
  /\ UNCHANGED <<known, waiting, underway>>

\* The session has answered: only now the prompt leaves the queue.
Answer(p) ==
  /\ p \in underway \cap Ran
  /\ waiting' = waiting \ {p}
  /\ underway' = underway \ {p}
  /\ UNCHANGED <<known, served>>

\* Attempts are given up (all of them, when the application is loaded again):
\* none whose prompt may have been run.
GiveUp(P) ==
  /\ UNCHANGED <<served, known, waiting>>
  /\ underway' = underway \ P
  /\ \A p \in P : p \notin Ran

Withdraw(p) ==
  /\ waiting' = waiting \ {p}
  /\ UNCHANGED <<known, underway, served>>

Next == \/ \E P \in SUBSET underway : GiveUp(P)
        \/ \E p \in Prompts : \/ Leave(p) \/ Send(p) \/ Run(p)
                              \/ Answer(p) \/ Withdraw(p)

Spec == Init /\ [][Next]_vars
=============================================================================
