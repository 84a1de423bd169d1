----------------------------- MODULE GatewayBoot -----------------------------
(***************************************************************************)
(* Who dials the desktop's primary gateway, and when: the first boot, the  *)
(* reconnect loop and the change of backend                                *)
(* (ui-desktop/src/app/gateway/hooks/use-gateway-boot.ts), and a request   *)
(* that finds the connection gone (use-gateway-request.ts).                *)
(*                                                                         *)
(* Each of the four is a job: it asks main for the backend in use, mints a *)
(* URL, calls connect() and, once connected, refreshes what it shows.      *)
(* Nothing but the flags of `boot' keeps one job out of another's way.     *)
(***************************************************************************)
EXTENDS JsonRpcGateway

CONSTANTS MaxSwitches,   \* changes of backend (bound)
          Interleaved,   \* a switch, or a request's dial, meets another job
          LossInSync     \* a socket is lost while boot or switch refreshes

Jobs == {"boot", "attempt", "switch", "ask"}

ASSUME BootAssumption == /\ MaxSwitches \in Nat
                         /\ Interleaved \in BOOLEAN
                         /\ LossInSync \in BOOLEAN
                         /\ Dialers = Jobs

VARIABLES pc,       \* where each job stands
          aim,      \* the backend main named to each job
          target,   \* the backend main has in use
          boot      \* the flags of the effect, $gatewaySwitching, the overlay

bootVars == <<pc, aim, target, boot>>
vars == <<clientVars, bootVars>>

JobSteps == {"idle", "conn", "mint", "dial", "sync"}

Flags == [done: BOOLEAN,           \* bootCompleted
          reconnecting: BOOLEAN,
          timer: BOOLEAN,          \* reconnectTimer !== null
          switching: BOOLEAN,      \* $gatewaySwitching
          failing: BOOLEAN,        \* reconnectFailingSince !== null
          escalated: BOOLEAN,
          overlay: {"booting", "failed", "none"}]   \* $desktopBoot

TypeOK == /\ phase \in [Sockets -> {"connecting", "open", "closing", "closed"}]
          /\ waiter \in [Sockets -> Jobs \cup {None}]
          /\ backend \in [Sockets -> 0..MaxSwitches]
          /\ socket \in Sockets \cup {None}
          /\ state \in {"idle", "connecting", "open", "closed", "error"}
          /\ call \in [Calls -> CallStates]
          /\ via \in [Calls -> Sockets \cup {None}]
          /\ pc \in [Jobs -> JobSteps]
          /\ aim \in [Jobs -> 0..MaxSwitches]
          /\ target \in 0..MaxSwitches
          /\ boot \in Flags

Init == /\ ClientInit
        /\ pc = [j \in Jobs |-> IF j = "boot" THEN "conn" ELSE "idle"]
        /\ aim = [j \in Jobs |-> 0]
        /\ target = 0
        /\ boot = [done |-> FALSE, reconnecting |-> FALSE, timer |-> FALSE,
                   switching |-> FALSE, failing |-> FALSE,
                   escalated |-> FALSE, overlay |-> "booting"]

(***************************************************************************)
(* What the flags become.  The state reported is an argument: within one   *)
(* task it changes more than once.                                         *)
(***************************************************************************)
(* scheduleReconnect                                                       *)
Schedule(b, st) ==
  IF b.reconnecting \/ b.timer \/ b.switching \/ st = "open"
    THEN b
    ELSE [b EXCEPT !.timer = TRUE]

(* The onState handler, called when the reported state changes.            *)
OnState(b, st) ==
  CASE st = "open" ->
         [b EXCEPT !.timer = FALSE, !.failing = FALSE, !.escalated = FALSE,
                   !.overlay = IF b.done THEN "none" ELSE @]
    [] st \in {"closed", "error"} /\ b.done /\ ~b.switching -> Schedule(b, st)
    [] OTHER -> b

(* setState                                                                *)
Changed(b, old, new) == IF old = new THEN b ELSE OnState(b, new)

\* Mutant of AttemptEnds: the retry is scheduled before the attempt is over.
AttemptEndsTooLate(b, st, late) ==
  LET tried == IF st = "open" THEN b ELSE Schedule([b EXCEPT !.failing = TRUE], st)
  IN  [tried EXCEPT !.reconnecting = FALSE]

\* Mutant of AttemptEnds: the flag of the attempt is left set.
AttemptNeverEnds(b, st, late) ==
  IF st = "open" \/ b.switching THEN b ELSE [b EXCEPT !.failing = TRUE]

(* The finally of attemptReconnect.  "late" is a failure that has lasted   *)
(* past the escalation threshold, which the first one never has.           *)
AttemptEnds(b, st, late) ==
  LET free == [b EXCEPT !.reconnecting = FALSE] IN
  IF st = "open" \/ b.switching
    THEN free
    ELSE Schedule([free EXCEPT !.failing = TRUE,
                               !.escalated = @ \/ late,
                               !.overlay = IF late /\ ~b.escalated THEN "failed"
                                                                   ELSE @], st)

(* A job whose getConnection, mint or connect() was rejected, or whose     *)
(* refresh was.                                                            *)
JobFails(j, b, st, late) ==
  CASE j = "attempt" -> AttemptEnds(b, st, late)
    [] j = "boot"    -> [b EXCEPT !.overlay = "failed"]
    [] j = "switch"  -> [b EXCEPT !.overlay = "failed", !.switching = FALSE]
    [] j = "ask"     -> b

(* connect() returned to the job: the attempt forgets its failures.        *)
Connected(j, b) == IF j = "attempt" THEN [b EXCEPT !.failing = FALSE] ELSE b

Next1(j) == IF j = "ask" THEN "idle" ELSE "sync"

Lateness == {FALSE} \cup {boot.failing}

(***************************************************************************)
(* The calls that wait for the dial of "ask", whose result they share:     *)
(* each is repeated once it has ended, on the current socket.              *)
(***************************************************************************)
\* Mutant of Repeat: the calls are left waiting when the dial has failed.
RepeatIfUsable(calls, usable) ==
  [r \in Calls |-> IF calls[r] = "asking" /\ usable THEN "resent" ELSE calls[r]]


Repeat(calls, usable) ==
  [r \in Calls |-> IF calls[r] = "asking"
                     THEN IF usable THEN "resent" ELSE "failed"
                     ELSE calls[r]]

CallsAfter(j, calls, usable) == IF j = "ask" THEN Repeat(calls, usable) ELSE calls

ViaAfter(j, s) == [r \in Calls |-> IF j = "ask" /\ call[r] = "asking" THEN s
                                                                      ELSE via[r]]

(***************************************************************************)
(* The steps of a job                                                      *)
(***************************************************************************)
GotConnection(j) == /\ pc[j] = "conn"
                    /\ pc' = [pc EXCEPT ![j] = "mint"]
                    /\ aim' = [aim EXCEPT ![j] = target]
                    /\ UNCHANGED <<clientVars, target, boot>>

NoConnection(j) == \E late \in Lateness :
  /\ pc[j] \in {"conn", "mint"}
  /\ pc' = [pc EXCEPT ![j] = "idle"]
  /\ boot' = JobFails(j, boot, state, late)
  /\ call' = CallsAfter(j, call, FALSE)
  /\ UNCHANGED <<phase, waiter, backend, socket, state, via, aim, target>>

(* connect() with nothing to do: the job goes on as if it had connected.   *)
AlreadyConnecting(j) ==
  /\ pc[j] = "mint"
  /\ ConnectReturnsEarly
  /\ pc' = [pc EXCEPT ![j] = Next1(j)]
  /\ boot' = Connected(j, boot)
  /\ call' = CallsAfter(j, call, Usable)
  /\ via' = ViaAfter(j, socket)
  /\ UNCHANGED <<phase, waiter, backend, socket, state, aim, target>>

Connect(j) == /\ pc[j] = "mint"
              /\ ~ConnectReturnsEarly
              /\ \E s \in Sockets : Dial(s, j, aim[j])
              /\ pc' = [pc EXCEPT ![j] = "dial"]
              /\ boot' = Changed(boot, state, "connecting")
              /\ UNCHANGED <<call, via, aim, target>>

(* The refresh ends.                                                       *)
Synced(j) == \E late \in Lateness :
  /\ pc[j] = "sync"
  /\ pc' = [pc EXCEPT ![j] = "idle"]
  /\ boot' = IF j = "attempt"
               THEN AttemptEnds(boot, state, late)
               ELSE [boot EXCEPT !.done = TRUE, !.overlay = "none",
                                 !.switching = @ /\ j # "switch"]
  /\ UNCHANGED <<clientVars, aim, target>>

(* Only the seed of the working directory can fail boot and switch here.   *)
SyncFails(j) == /\ j \in {"boot", "switch"}
                /\ pc[j] = "sync"
                /\ pc' = [pc EXCEPT ![j] = "idle"]
                /\ boot' = JobFails(j, boot, state, FALSE)
                /\ UNCHANGED <<clientVars, aim, target>>

(***************************************************************************)
(* What starts a job                                                       *)
(***************************************************************************)
(* attemptReconnect on flags b.                                            *)
Attempt(b) ==
  IF b.reconnecting \/ b.switching \/ state = "open"
    THEN boot' = b /\ UNCHANGED pc
    ELSE /\ boot' = [b EXCEPT !.reconnecting = TRUE]
         /\ pc' = [pc EXCEPT !["attempt"] = "conn"]

TimerFires == /\ boot.timer
              /\ Attempt([boot EXCEPT !.timer = FALSE])
              /\ UNCHANGED <<clientVars, aim, target>>

(* reconnectNow: power resume, network online, the window visible again.   *)
Wake == /\ boot.done
        /\ ~boot.switching
        /\ Attempt([boot EXCEPT !.timer = FALSE, !.failing = FALSE,
                                !.escalated = FALSE])
        /\ UNCHANGED <<clientVars, aim, target>>

(* Main has changed the backend in use and says so: softSwitch, up to its  *)
(* first await.                                                            *)
SoftSwitch ==
  /\ target < MaxSwitches
  /\ target' = target + 1
  /\ pc["switch"] = "idle"
  /\ Interleaved \/ \A j \in Jobs : pc[j] = "idle"
  /\ pc' = [pc EXCEPT !["switch"] = "conn"]
  /\ boot' = [boot EXCEPT !.switching = TRUE, !.timer = FALSE,
                          !.failing = FALSE, !.escalated = FALSE]
  /\ HangUp
  /\ call' = IF socket = None THEN call ELSE RejectAll(call)
  /\ UNCHANGED <<waiter, backend, via, aim>>

(***************************************************************************)
(* What the network does to a socket.  A dial that awaits it settles, and  *)
(* the caller goes on, in the same task.                                   *)
(***************************************************************************)
(* The step of the job whose dial of s has settled.                        *)
Settle(s, step) == pc' = IF waiter[s] = None THEN pc
                                             ELSE [pc EXCEPT ![waiter[s]] = step]

SocketOpens(s) ==
  /\ HandshakeDone(s)
  /\ IF socket = s /\ waiter[s] # None
       THEN LET j == waiter[s] IN
            /\ Settle(s, Next1(j))
            /\ boot' = Connected(j, Changed(boot, state, "open"))
            /\ call' = CallsAfter(j, call, TRUE)
            /\ via' = ViaAfter(j, s)
       ELSE UNCHANGED <<pc, boot, call, via>>
  /\ UNCHANGED <<aim, target>>

(* A handshake fails: the error is reported, the job sees its dial fail,   *)
(* and then the close is reported.                                         *)
SocketFails(s) == \E late \in Lateness :
  /\ phase[s] = "connecting"
  /\ Drop(s)
  /\ IF socket = s
       THEN LET j == waiter[s]
                seen == Changed(boot, state, "error")
            IN  /\ Settle(s, "idle")
                /\ boot' = OnState(JobFails(j, seen, "error", late), "closed")
                /\ call' = RejectAll(CallsAfter(j, call, FALSE))
       ELSE UNCHANGED <<pc, boot, call>>
  /\ UNCHANGED <<via, aim, target>>

Syncing == pc["boot"] = "sync" \/ pc["switch"] = "sync"

(* The peer closes: readyState is CLOSING until the close is done.         *)
PeerCloses(s) == /\ phase[s] = "open"
                 /\ LossInSync \/ socket # s \/ ~Syncing
                 /\ phase' = [phase EXCEPT ![s] = "closing"]
                 /\ UNCHANGED <<waiter, backend, socket, state, call, via, bootVars>>

SocketCloses(s) ==
  /\ phase[s] \in {"open", "closing"}
  /\ LossInSync \/ socket # s \/ ~Syncing
  /\ Drop(s)
  /\ IF socket = s
       THEN /\ boot' = Changed(boot, state, "closed")
            /\ call' = RejectAll(call)
       ELSE UNCHANGED <<boot, call>>
  /\ UNCHANGED <<via, pc, aim, target>>

(* The timer of connect().                                                 *)
ConnectTimesOut(s) == \E late \in Lateness :
  /\ GiveUp(s)
  /\ Settle(s, "idle")
  /\ LET j == waiter[s]
         seen == Changed(boot, state, state')
     IN  /\ boot' = JobFails(j, seen, state', late)
         /\ call' = CallsAfter(j, call, FALSE)
  /\ UNCHANGED <<via, aim, target>>

(***************************************************************************)
(* requestGateway                                                          *)
(***************************************************************************)
Request(r) == Send(r) /\ UNCHANGED <<phase, waiter, backend, socket, state, bootVars>>

(* The catch of a rejected call.  What ensureGatewayOpen reads of the state *)
(* is a copy that lags behind by a render: it may hold "open" for longer   *)
(* than the client, or not yet.                                            *)
RepeatAtOnce(r) ==
  /\ call[r] = "rejected"
  /\ call' = [call EXCEPT ![r] = IF Usable THEN "resent" ELSE "failed"]
  /\ via' = [via EXCEPT ![r] = socket]
  /\ UNCHANGED <<phase, waiter, backend, socket, state, bootVars>>

AskToReconnect(r) ==
  /\ call[r] = "rejected"
  /\ Interleaved \/ (pc["boot"] = "idle" /\ pc["switch"] = "idle")
  /\ call' = [call EXCEPT ![r] = "asking"]
  /\ pc' = IF pc["ask"] = "idle" THEN [pc EXCEPT !["ask"] = "conn"] ELSE pc
  /\ UNCHANGED <<phase, waiter, backend, socket, state, via, aim, target, boot>>

Answer(r) == Answered(r) /\ UNCHANGED <<phase, waiter, backend, socket, state, bootVars>>

CallTimesOut(r) ==
  CallGivesUp(r) /\ UNCHANGED <<phase, waiter, backend, socket, state, bootVars>>

(* The caller has its result and may call again.                           *)
CallAgain(r) == /\ call[r] \in {"ok", "failed"}
                /\ call' = [call EXCEPT ![r] = "idle"]
                /\ via' = [via EXCEPT ![r] = None]
                /\ UNCHANGED <<phase, waiter, backend, socket, state, bootVars>>

Next == \/ \E j \in Jobs : \/ GotConnection(j) \/ NoConnection(j)
                           \/ AlreadyConnecting(j) \/ Connect(j)
                           \/ Synced(j) \/ SyncFails(j)
        \/ TimerFires
        \/ Wake
        \/ SoftSwitch
        \/ \E s \in Sockets : \/ SocketOpens(s) \/ SocketFails(s) \/ PeerCloses(s)
                              \/ SocketCloses(s) \/ ConnectTimesOut(s)
        \/ \E r \in Calls : \/ Request(r) \/ RepeatAtOnce(r) \/ AskToReconnect(r)
                            \/ Answer(r) \/ CallTimesOut(r) \/ CallAgain(r)

Spec == Init /\ [][Next]_vars

(***************************************************************************)
(* Fairness.  A task that is due runs (the timers, and what a job does     *)
(* next); a call to main and a refresh end one way or the other; a browser *)
(* finishes a close it has begun.  What the network may refuse it grants   *)
(* in the end to whoever asks over and over: main names a backend, and a   *)
(* handshake is done.                                                      *)
(***************************************************************************)
JobStep(j) == \/ GotConnection(j) \/ NoConnection(j)
              \/ AlreadyConnecting(j) \/ Connect(j)
              \/ Synced(j) \/ SyncFails(j)

Fairness ==
  /\ \A j \in Jobs : WF_vars(JobStep(j))
  /\ SF_vars(GotConnection("attempt"))
  /\ SF_vars(Connect("attempt") \/ AlreadyConnecting("attempt"))
  /\ SF_vars(\E s \in Sockets : SocketOpens(s))
  /\ \A s \in Sockets : /\ WF_vars(phase[s] = "closing" /\ SocketCloses(s))
                        /\ WF_vars(ConnectTimesOut(s))
  /\ WF_vars(TimerFires)
  /\ \A r \in Calls : /\ WF_vars(CallTimesOut(r))
                      /\ WF_vars(RepeatAtOnce(r) \/ AskToReconnect(r))

FairSpec == Spec /\ Fairness

(***************************************************************************)
(* Properties                                                              *)
(***************************************************************************)
(* What the client reports is what its socket is: "open" and "connecting"  *)
(* only with a socket that is so (or that its peer is closing), and never  *)
(* a dead connection over a socket that is in fact usable, which connect() *)
(* would refuse to replace.                                                *)
StateTruthful ==
  /\ state = "open" => socket # None /\ phase[socket] \in {"open", "closing"}
  /\ state = "connecting" => /\ socket # None
                             /\ phase[socket] = "connecting"
                             /\ waiter[socket] # None
  /\ state \in {"idle", "closed", "error"} => ~Usable

(* Once booted, the application is never without a connection and without  *)
(* anybody who will see to it: a dial is under way or due, or the user has *)
(* been told.                                                              *)
NeverStranded ==
  boot.done /\ state # "open" =>
    \/ boot.timer \/ boot.reconnecting \/ boot.switching
    \/ boot.overlay = "failed"
    \/ state = "connecting"

(* However many callers dial, at most one socket is live: none is left     *)
(* behind open, with a server that goes on streaming into nothing.         *)
OneLiveSocket ==
  \A s, t \in Sockets :
    {phase[s], phase[t]} \subseteq {"connecting", "open"} => s = t

(* A connection that is gone takes its callers with it: nobody is left to  *)
(* wait two minutes for an answer that cannot come.                        *)
LossTellsCallers == state = "closed" => \A r \in Calls : call[r] \notin Pending

(* A lost connection is re-opened, or the user is told.                    *)
Recovers == boot.done /\ state # "open" ~> state = "open" \/ boot.overlay = "failed"

(* Every caller gets an answer or an error, whatever happens to the socket *)
(* and to the dial it waits for.                                           *)
EveryCallSettles ==
  \A r \in Calls : call[r] \in Pending \cup {"rejected", "asking"}
                     ~> call[r] \in {"ok", "failed"}
=============================================================================
