------------------------- MODULE GatewayBoot_proofs -------------------------
(***************************************************************************)
(* What holds of GatewayBoot for every number of sockets, calls and        *)
(* switches.  First what needs no assumption on the interleaving; then     *)
(* what holds as long as neither a switch nor the dial of a request meets  *)
(* another job; then what also needs that no socket is lost while boot or  *)
(* switch refreshes.                                                       *)
(***************************************************************************)
EXTENDS GatewayBoot, TLAPS

(***************************************************************************)
(* The flags                                                               *)
(***************************************************************************)
(* scheduleReconnect arms the timer or finds that somebody else will do.   *)
LEMMA ScheduleLemma ==
  ASSUME NEW b \in Flags, NEW st
  PROVE  LET c == Schedule(b, st) IN
         /\ c \in Flags
         /\ c.done = b.done /\ c.reconnecting = b.reconnecting
         /\ c.switching = b.switching /\ c.overlay = b.overlay
         /\ c.timer => b.timer \/ (~b.reconnecting /\ ~b.switching)
         /\ st # "open" => c.timer \/ b.reconnecting \/ b.switching
BY DEF Schedule, Flags

(* The handler of a report changes neither who is at work nor, unless the  *)
(* report is "open", what the user sees.                                   *)
LEMMA OnStateLemma ==
  ASSUME NEW b \in Flags, NEW st
  PROVE  LET c == OnState(b, st) IN
         /\ c \in Flags
         /\ c.done = b.done /\ c.reconnecting = b.reconnecting
         /\ c.switching = b.switching
         /\ c.timer => b.timer \/ (b.done /\ ~b.reconnecting /\ ~b.switching)
         /\ b.timer /\ st # "open" => c.timer
         /\ st # "open" => c.overlay = b.overlay
         /\ st \in {"closed", "error"} /\ b.done
              => c.timer \/ b.reconnecting \/ b.switching
         /\ st \notin {"open", "closed", "error"} => c = b
<1>1. CASE st = "open"
  BY <1>1 DEF OnState, Flags
<1>2. CASE st # "open" /\ st \in {"closed", "error"} /\ b.done /\ ~b.switching
  BY <1>2 DEF OnState, Schedule, Flags
<1>3. CASE st # "open" /\ ~(st \in {"closed", "error"} /\ b.done /\ ~b.switching)
  <2>1. OnState(b, st) = b
    BY <1>3 DEF OnState
  <2> QED
    BY <1>3, <2>1
<1> QED
  BY <1>1, <1>2, <1>3

(* setState calls the handler or leaves everything as it is.               *)
LEMMA ChangedLemma ==
  ASSUME NEW b \in Flags, NEW old, NEW new
  PROVE  LET c == Changed(b, old, new) IN
         /\ c \in Flags
         /\ c.done = b.done /\ c.reconnecting = b.reconnecting
         /\ c.switching = b.switching
         /\ c.timer => b.timer \/ (b.done /\ ~b.reconnecting /\ ~b.switching)
         /\ b.timer /\ new # "open" => c.timer
         /\ new # "open" => c.overlay = b.overlay
         /\ old # new /\ new \in {"closed", "error"} /\ b.done
              => c.timer \/ b.reconnecting \/ b.switching
         /\ new \notin {"open", "closed", "error"} => c = b
BY OnStateLemma DEF Changed

(* An attempt that ends without a connection leaves a timer behind.        *)
LEMMA AttemptEndsLemma ==
  ASSUME NEW b \in Flags, NEW st, NEW late \in BOOLEAN
  PROVE  LET c == AttemptEnds(b, st, late) IN
         /\ c \in Flags
         /\ c.done = b.done /\ ~c.reconnecting /\ c.switching = b.switching
         /\ c.timer => b.timer \/ ~b.switching
         /\ st # "open" => c.timer \/ b.switching
         /\ c.overlay \in {b.overlay, "failed"}
<1> DEFINE f == [b EXCEPT !.reconnecting = FALSE]
           g == [f EXCEPT !.failing = TRUE, !.escalated = @ \/ late,
                          !.overlay = IF late /\ ~b.escalated THEN "failed" ELSE @]
<1>1. /\ f \in Flags /\ g \in Flags
      /\ f.done = b.done /\ ~f.reconnecting /\ f.switching = b.switching
      /\ f.timer = b.timer /\ f.overlay = b.overlay
      /\ g.done = b.done /\ ~g.reconnecting /\ g.switching = b.switching
      /\ g.timer = b.timer /\ g.overlay \in {b.overlay, "failed"}
  BY DEF Flags
<1>2. AttemptEnds(b, st, late) = IF st = "open" \/ b.switching THEN f
                                                               ELSE Schedule(g, st)
  BY DEF AttemptEnds
<1> HIDE DEF f, g
<1>3. CASE st = "open" \/ b.switching
  BY <1>1, <1>2, <1>3
<1>4. CASE ~(st = "open" \/ b.switching)
  BY <1>1, <1>2, <1>4, ScheduleLemma
<1> QED
  BY <1>3, <1>4

(* What a failed job leaves behind: an attempt a timer, boot and switch an *)
(* overlay, a request nothing.                                             *)
LEMMA JobFailsLemma ==
  ASSUME NEW j \in Jobs, NEW b \in Flags, NEW st, NEW late \in BOOLEAN
  PROVE  LET c == JobFails(j, b, st, late) IN
         /\ c \in Flags
         /\ c.done = b.done
         /\ c.reconnecting = (b.reconnecting /\ j # "attempt")
         /\ c.switching = (b.switching /\ j # "switch")
         /\ c.timer => b.timer \/ (j = "attempt" /\ ~b.switching)
         /\ j # "attempt" => c.timer = b.timer
         /\ j = "attempt" /\ st # "open" => c.timer \/ b.switching
         /\ j \in {"boot", "switch"} => c.overlay = "failed"
         /\ c.overlay \in {b.overlay, "failed"}
<1>1. CASE j = "attempt"
  <2>1. JobFails(j, b, st, late) = AttemptEnds(b, st, late)
    BY <1>1 DEF JobFails
  <2> QED
    BY <1>1, <2>1, AttemptEndsLemma DEF Flags
<1>2. CASE j = "boot"
  BY <1>2 DEF JobFails, Flags
<1>3. CASE j = "switch"
  BY <1>3 DEF JobFails, Flags
<1>4. CASE j = "ask"
  BY <1>4 DEF JobFails, Flags
<1> QED
  BY <1>1, <1>2, <1>3, <1>4 DEF Jobs

(* A job that fails leaves somebody to see to the connection, or the user  *)
(* told, if that was so before.                                            *)
Seen(b) == b.timer \/ b.reconnecting \/ b.switching \/ b.overlay = "failed"

LEMMA StillSeenLemma ==
  ASSUME NEW j \in Jobs, NEW b \in Flags, NEW st, NEW late \in BOOLEAN,
         st # "open", b.done => Seen(b)
  PROVE  LET c == JobFails(j, b, st, late) IN c.done => Seen(c)
<1> DEFINE c == JobFails(j, b, st, late)
<1>1. CASE j = "attempt"
  <2>1. c.timer \/ c.switching
    BY <1>1, JobFailsLemma
  <2> QED
    BY <2>1 DEF Seen
<1>2. CASE j \in {"boot", "switch"}
  <2>1. c.overlay = "failed"
    BY <1>2, JobFailsLemma
  <2> QED
    BY <2>1 DEF Seen
<1>3. CASE j = "ask"
  BY <1>3 DEF JobFails
<1> QED
  BY <1>1, <1>2, <1>3 DEF Jobs

(* A connection that an attempt has obtained changes no flag that guards   *)
(* another job.                                                            *)
LEMMA ConnectedLemma ==
  ASSUME NEW j \in Jobs, NEW b \in Flags
  PROVE  LET c == Connected(j, b) IN
         /\ c \in Flags
         /\ c.done = b.done /\ c.reconnecting = b.reconnecting
         /\ c.switching = b.switching /\ c.timer = b.timer
         /\ c.overlay = b.overlay
BY DEF Connected, Flags

(* attemptReconnect takes the place of a timer that has fired, unless the  *)
(* connection is there or somebody else sees to it.                        *)
LEMMA AttemptLemma ==
  ASSUME NEW b \in Flags, Attempt(b), pc \in [Jobs -> JobSteps]
  PROVE  /\ boot' \in Flags
         /\ pc' \in [Jobs -> JobSteps]
         /\ \A j \in Jobs \ {"attempt"} : pc'[j] = pc[j]
         /\ boot'.done = b.done /\ boot'.switching = b.switching
         /\ boot'.timer = b.timer /\ boot'.overlay = b.overlay
         /\ boot'.reconnecting
              = (b.reconnecting \/ (state # "open" /\ ~b.switching))
         /\ pc'["attempt"] = IF ~b.reconnecting /\ boot'.reconnecting
                               THEN "conn" ELSE pc["attempt"]
<1>1. CASE b.reconnecting \/ b.switching \/ state = "open"
  BY <1>1 DEF Attempt, Flags
<1>2. CASE ~(b.reconnecting \/ b.switching \/ state = "open")
  BY <1>2 DEF Attempt, Flags, Jobs, JobSteps
<1> QED
  BY <1>1, <1>2

(***************************************************************************)
(* The calls                                                               *)
(***************************************************************************)
(* After rejectAllPending nobody awaits an answer.                         *)
LEMMA RejectAllLemma ==
  ASSUME NEW calls \in [Calls -> CallStates]
  PROVE  /\ RejectAll(calls) \in [Calls -> CallStates]
         /\ \A r \in Calls : RejectAll(calls)[r] \notin Pending
BY DEF RejectAll, CallStates, Pending

(* The end of a dial sends calls only if there is a socket to send them on. *)
LEMMA CallsAfterLemma ==
  ASSUME NEW j \in Jobs, NEW calls \in [Calls -> CallStates], NEW usable \in BOOLEAN
  PROVE  /\ CallsAfter(j, calls, usable) \in [Calls -> CallStates]
         /\ ~usable => \A r \in Calls : CallsAfter(j, calls, usable)[r] \in Pending
                                          => calls[r] \in Pending
BY DEF CallsAfter, Repeat, CallStates, Pending

LEMMA ViaAfterLemma ==
  ASSUME NEW j \in Jobs, NEW s \in Sockets \cup {None},
         via \in [Calls -> Sockets \cup {None}]
  PROVE  ViaAfter(j, s) \in [Calls -> Sockets \cup {None}]
BY DEF ViaAfter

(***************************************************************************)
(* Without any assumption                                                  *)
(***************************************************************************)
(* A current socket still in its handshake is awaited by the dial that     *)
(* made it current.                                                        *)
Awaited == \A s \in Sockets :
             socket = s /\ phase[s] = "connecting" => waiter[s] # None

(* A client that reports a close holds no socket.                          *)
ClosedHoldsNone == state = "closed" => socket = None

BaseInv == TypeOK /\ Awaited /\ ClosedHoldsNone /\ LossTellsCallers

LEMMA BaseInit == Init => BaseInv
<1> SUFFICES ASSUME Init PROVE BaseInv
  OBVIOUS
<1>1. TypeOK
  BY BootAssumption DEF Init, ClientInit, TypeOK, Flags, Jobs, JobSteps, CallStates,
                        Pending
<1> QED
  BY <1>1, NoneAssumption
     DEF Init, ClientInit, BaseInv, Awaited, ClosedHoldsNone, LossTellsCallers

(* The jobs are the dialers, so None is not a job.                         *)
LEMMA JobsLemma == None \notin Jobs /\ None \notin Sockets
BY NoneAssumption, BootAssumption

LEMMA LatenessLemma == ASSUME TypeOK PROVE Lateness \subseteq BOOLEAN
BY DEF TypeOK, Flags, Lateness

LEMMA BaseStep == BaseInv /\ [Next]_vars => BaseInv'
<1> SUFFICES ASSUME BaseInv, [Next]_vars PROVE BaseInv'
  OBVIOUS
<1> USE JobsLemma
<1> USE DEF BaseInv
<1>1. ASSUME NEW j \in Jobs, GotConnection(j) PROVE BaseInv'
  BY <1>1 DEF GotConnection, clientVars, TypeOK, Awaited, ClosedHoldsNone,
              LossTellsCallers, JobSteps
<1>2. ASSUME NEW j \in Jobs, NoConnection(j) PROVE BaseInv'
  <2>1. PICK late \in BOOLEAN :
          /\ pc' = [pc EXCEPT ![j] = "idle"]
          /\ boot' = JobFails(j, boot, state, late)
          /\ call' = CallsAfter(j, call, FALSE)
          /\ UNCHANGED <<phase, waiter, backend, socket, state, via, aim, target>>
    BY <1>2, LatenessLemma DEF NoConnection
  <2>2. boot' \in Flags
    BY <2>1, JobFailsLemma DEF TypeOK
  <2>3. /\ call' \in [Calls -> CallStates]
        /\ \A r \in Calls : call'[r] \in Pending => call[r] \in Pending
    BY <2>1, CallsAfterLemma DEF TypeOK
  <2> QED
    BY <2>1, <2>2, <2>3
       DEF TypeOK, Awaited, ClosedHoldsNone, LossTellsCallers, JobSteps
<1>3. ASSUME NEW j \in Jobs, AlreadyConnecting(j) PROVE BaseInv'
  <2>1. boot' \in Flags
    BY <1>3, ConnectedLemma DEF AlreadyConnecting, TypeOK
  <2>2. /\ call' \in [Calls -> CallStates]
        /\ ~Usable => \A r \in Calls : call'[r] \in Pending => call[r] \in Pending
    BY <1>3, CallsAfterLemma DEF AlreadyConnecting, TypeOK, Usable
  <2>3. via' \in [Calls -> Sockets \cup {None}]
    BY <1>3, ViaAfterLemma DEF AlreadyConnecting, TypeOK
  <2>4. Next1(j) \in JobSteps
    BY DEF Next1, JobSteps
  <2> QED
    BY <1>3, <2>1, <2>2, <2>3, <2>4
       DEF AlreadyConnecting, Usable, TypeOK, Awaited, ClosedHoldsNone,
           LossTellsCallers
<1>4. ASSUME NEW j \in Jobs, Connect(j) PROVE BaseInv'
  <2>1. boot' \in Flags
    BY <1>4, ChangedLemma DEF Connect, TypeOK
  <2> QED
    BY <1>4, <2>1 DEF Connect, Dial, Gone, TypeOK, Awaited, ClosedHoldsNone,
                      LossTellsCallers, JobSteps
<1>5. ASSUME NEW j \in Jobs, Synced(j) PROVE BaseInv'
  <2>1. boot' \in Flags
    <3>1. CASE j = "attempt"
      BY <1>5, <3>1, AttemptEndsLemma, LatenessLemma DEF Synced, TypeOK
    <3>2. CASE j # "attempt"
      BY <1>5, <3>2 DEF Synced, TypeOK, Flags
    <3> QED
      BY <3>1, <3>2
  <2> QED
    BY <1>5, <2>1 DEF Synced, clientVars, TypeOK, Awaited, ClosedHoldsNone,
                      LossTellsCallers, JobSteps
<1>6. ASSUME NEW j \in Jobs, SyncFails(j) PROVE BaseInv'
  <2>1. boot' \in Flags
    BY <1>6, JobFailsLemma DEF SyncFails, TypeOK
  <2> QED
    BY <1>6, <2>1 DEF SyncFails, clientVars, TypeOK, Awaited, ClosedHoldsNone,
                      LossTellsCallers, JobSteps
<1>7. CASE TimerFires
  <2> DEFINE b == [boot EXCEPT !.timer = FALSE]
  <2>1. b \in Flags /\ Attempt(b) /\ UNCHANGED <<clientVars, aim, target>>
    BY <1>7 DEF TimerFires, TypeOK, Flags
  <2> HIDE DEF b
  <2>2. boot' \in Flags /\ pc' \in [Jobs -> JobSteps]
    BY <2>1, AttemptLemma DEF TypeOK
  <2> QED
    BY <2>1, <2>2 DEF clientVars, TypeOK, Awaited, ClosedHoldsNone, LossTellsCallers
<1>8. CASE Wake
  <2> DEFINE b == [boot EXCEPT !.timer = FALSE, !.failing = FALSE, !.escalated = FALSE]
  <2>1. b \in Flags /\ Attempt(b) /\ UNCHANGED <<clientVars, aim, target>>
    BY <1>8 DEF Wake, TypeOK, Flags
  <2> HIDE DEF b
  <2>2. boot' \in Flags /\ pc' \in [Jobs -> JobSteps]
    BY <2>1, AttemptLemma DEF TypeOK
  <2> QED
    BY <2>1, <2>2 DEF clientVars, TypeOK, Awaited, ClosedHoldsNone, LossTellsCallers
<1>9. CASE SoftSwitch
  <2>1. boot' \in Flags
    BY <1>9 DEF SoftSwitch, TypeOK, Flags
  <2>3. target' \in 0..MaxSwitches
    BY <1>9, BootAssumption DEF SoftSwitch, TypeOK
  <2>2. /\ call' \in [Calls -> CallStates]
        /\ socket # None => \A r \in Calls : call'[r] \notin Pending
        /\ socket = None => call' = call
    BY <1>9, RejectAllLemma DEF SoftSwitch, TypeOK
  <2> QED
    BY <1>9, <2>1, <2>2, <2>3 DEF SoftSwitch, HangUp, TypeOK, Awaited, ClosedHoldsNone,
                            LossTellsCallers, JobSteps, Jobs
<1>10. ASSUME NEW s \in Sockets, SocketOpens(s) PROVE BaseInv'
  <2>1. CASE socket = s /\ waiter[s] # None
    <3>0. /\ boot' = Connected(waiter[s], Changed(boot, state, "open"))
          /\ call' = CallsAfter(waiter[s], call, TRUE)
      BY <1>10, <2>1 DEF SocketOpens
    <3>1. waiter[s] \in Jobs
      BY <2>1 DEF TypeOK
    <3>2. boot' \in Flags
      <4>1. Changed(boot, state, "open") \in Flags
        BY ChangedLemma DEF TypeOK
      <4> QED
        BY <3>0, <3>1, <4>1, ConnectedLemma
    <3>3. call' \in [Calls -> CallStates]
      BY <3>0, <3>1, CallsAfterLemma DEF TypeOK
    <3>4. via' \in [Calls -> Sockets \cup {None}]
      BY <1>10, <2>1, <3>1, ViaAfterLemma DEF SocketOpens, TypeOK
    <3>5. pc' \in [Jobs -> JobSteps]
      BY <1>10, <2>1, <3>1 DEF SocketOpens, Settle, Next1, JobSteps, TypeOK
    <3> QED
      BY <1>10, <2>1, <3>2, <3>3, <3>4, <3>5
         DEF SocketOpens, HandshakeDone, TypeOK, Awaited, ClosedHoldsNone,
             LossTellsCallers
  <2>2. CASE ~(socket = s /\ waiter[s] # None)
    BY <1>10, <2>2 DEF SocketOpens, HandshakeDone, TypeOK, Awaited, ClosedHoldsNone,
                       LossTellsCallers
  <2> QED
    BY <2>1, <2>2
<1>11. ASSUME NEW s \in Sockets, SocketFails(s) PROVE BaseInv'
  <2>1. CASE socket = s
    <3> DEFINE j == waiter[s]
               seen == Changed(boot, state, "error")
    <3>1. PICK late \in BOOLEAN :
            /\ Drop(s)
            /\ Settle(s, "idle")
            /\ boot' = OnState(JobFails(j, seen, "error", late), "closed")
            /\ call' = RejectAll(CallsAfter(j, call, FALSE))
            /\ UNCHANGED <<via, aim, target>>
      BY <1>11, <2>1, LatenessLemma DEF SocketFails
    <3>2. j \in Jobs
      BY <1>11, <2>1 DEF SocketFails, Awaited, TypeOK
    <3>3. seen \in Flags
      BY ChangedLemma DEF TypeOK
    <3>4. JobFails(j, seen, "error", late) \in Flags
      BY <3>2, <3>3, JobFailsLemma
    <3>5. boot' \in Flags
      BY <3>1, <3>4, OnStateLemma
    <3>6. /\ call' \in [Calls -> CallStates]
          /\ \A r \in Calls : call'[r] \notin Pending
      BY <3>1, <3>2, CallsAfterLemma, RejectAllLemma DEF TypeOK
    <3>7. pc' \in [Jobs -> JobSteps]
      BY <3>1, <3>2 DEF Settle, JobSteps, TypeOK
    <3> HIDE DEF j, seen
    <3> QED
      BY <2>1, <3>1, <3>5, <3>6, <3>7
         DEF Drop, TypeOK, Awaited, ClosedHoldsNone, LossTellsCallers
  <2>2. CASE socket # s
    BY <1>11, <2>2 DEF SocketFails, Drop, TypeOK, Awaited, ClosedHoldsNone,
                       LossTellsCallers
  <2> QED
    BY <2>1, <2>2
<1>12. ASSUME NEW s \in Sockets, PeerCloses(s) PROVE BaseInv'
  BY <1>12 DEF PeerCloses, bootVars, TypeOK, Awaited, ClosedHoldsNone,
               LossTellsCallers
<1>13. ASSUME NEW s \in Sockets, SocketCloses(s) PROVE BaseInv'
  <2>1. boot' \in Flags
    BY <1>13, ChangedLemma DEF SocketCloses, TypeOK
  <2>2. /\ call' \in [Calls -> CallStates]
        /\ socket = s => \A r \in Calls : call'[r] \notin Pending
        /\ socket # s => call' = call
    BY <1>13, RejectAllLemma DEF SocketCloses, TypeOK
  <2> QED
    BY <1>13, <2>1, <2>2 DEF SocketCloses, Drop, TypeOK, Awaited, ClosedHoldsNone,
                             LossTellsCallers
<1>14. ASSUME NEW s \in Sockets, ConnectTimesOut(s) PROVE BaseInv'
  <2> DEFINE j == waiter[s]
             seen == Changed(boot, state, state')
  <2>1. PICK late \in BOOLEAN :
          /\ GiveUp(s)
          /\ Settle(s, "idle")
          /\ boot' = JobFails(j, seen, state', late)
          /\ call' = CallsAfter(j, call, FALSE)
          /\ UNCHANGED <<via, aim, target>>
    BY <1>14, LatenessLemma DEF ConnectTimesOut
  <2>2. j \in Jobs
    BY <2>1 DEF GiveUp, TypeOK
  <2>3. seen \in Flags
    BY ChangedLemma DEF TypeOK
  <2>4. boot' \in Flags
    BY <2>1, <2>2, <2>3, JobFailsLemma
  <2>5. call' \in [Calls -> CallStates]
    BY <2>1, <2>2, CallsAfterLemma DEF TypeOK
  <2>6. pc' \in [Jobs -> JobSteps]
    BY <2>1, <2>2 DEF Settle, JobSteps, TypeOK
  <2> HIDE DEF j, seen
  <2> QED
    BY <2>1, <2>4, <2>5, <2>6
       DEF GiveUp, TimeoutState, TypeOK, Awaited, ClosedHoldsNone, LossTellsCallers
<1>15. ASSUME NEW r \in Calls,
              Request(r) \/ RepeatAtOnce(r) \/ Answer(r) \/ CallTimesOut(r) \/ CallAgain(r)
       PROVE  BaseInv'
  <2>1. /\ call' \in [Calls -> CallStates]
        /\ via' \in [Calls -> Sockets \cup {None}]
    BY <1>15 DEF Request, Send, RepeatAtOnce, Answer, Answered, CallTimesOut,
                 CallGivesUp, CallAgain, CallStates, Pending, TypeOK
  <2>2. ~Usable => \A q \in Calls : call'[q] \in Pending => call[q] \in Pending
    BY <1>15 DEF Request, Send, RepeatAtOnce, Answer, Answered, CallTimesOut,
                 CallGivesUp, CallAgain, CallStates, Pending, TypeOK
  <2>3. UNCHANGED <<phase, waiter, backend, socket, state, bootVars>>
    BY <1>15 DEF Request, RepeatAtOnce, Answer, CallTimesOut, CallAgain
  <2> QED
    BY <2>1, <2>2, <2>3 DEF bootVars, Usable, TypeOK, Awaited, ClosedHoldsNone,
                            LossTellsCallers
<1>16. ASSUME NEW r \in Calls, AskToReconnect(r) PROVE BaseInv'
  BY <1>16 DEF AskToReconnect, TypeOK, Awaited, ClosedHoldsNone, LossTellsCallers,
               CallStates, Pending, JobSteps, Jobs
<1>17. CASE UNCHANGED vars
  BY <1>17 DEF vars, clientVars, bootVars, TypeOK, Awaited, ClosedHoldsNone,
               LossTellsCallers
<1> QED
  BY <1>1, <1>2, <1>3, <1>4, <1>5, <1>6, <1>7, <1>8, <1>9, <1>10, <1>11, <1>12,
     <1>13, <1>14, <1>15, <1>16, <1>17 DEF Next

(* Every variable keeps its type: no state is reported that is not a       *)
(* ConnectionState, and no job is left out of its steps.                   *)
THEOREM Typing == Spec => []TypeOK
<1>1. BaseInv => TypeOK
  BY DEF BaseInv
<1> QED
  BY BaseInit, BaseStep, <1>1, PTL DEF Spec

(* A client that reports a close has nobody waiting for an answer, however *)
(* the jobs and the switches interleave.                                   *)
THEOREM CallersTold == Spec => []LossTellsCallers
<1>1. BaseInv => LossTellsCallers
  BY DEF BaseInv
<1> QED
  BY BaseInit, BaseStep, <1>1, PTL DEF Spec

(***************************************************************************)
(* Where the application is left without anybody who sees to the           *)
(* connection, for every interleaving                                      *)
(***************************************************************************)
(* The refresh of boot or of a change of backend ends.                     *)
RefreshEnds == Synced("boot") \/ Synced("switch")

(* No other step strands the application: whoever loses the connection or  *)
(* fails to get one leaves a timer, a job or a message behind.             *)
LEMMA StrandStep ==
  ASSUME BaseInv, NeverStranded, pc["ask"] # "sync", [Next]_vars, ~RefreshEnds
  PROVE  NeverStranded'
<1> USE JobsLemma
<1>0. /\ TypeOK /\ boot \in Flags /\ Awaited /\ ClosedHoldsNone
      /\ Lateness \subseteq BOOLEAN
  BY LatenessLemma DEF BaseInv, TypeOK
<1>s. state \notin {"open", "connecting"} => (boot.done => Seen(boot))
  BY DEF NeverStranded, Seen
<1>n. (boot'.done => Seen(boot')) => NeverStranded'
  BY DEF NeverStranded, Seen
<1>1. ASSUME NEW j \in Jobs, GotConnection(j) \/ AlreadyConnecting(j) PROVE NeverStranded'
  <2>1. state' = state /\ (boot' = boot \/ boot' = Connected(j, boot))
    BY <1>1 DEF GotConnection, AlreadyConnecting, clientVars
  <2> QED
    BY <1>0, <2>1, ConnectedLemma DEF NeverStranded
<1>2. ASSUME NEW j \in Jobs, NoConnection(j) PROVE NeverStranded'
  <2>1. PICK late \in BOOLEAN : boot' = JobFails(j, boot, state, late) /\ state' = state
    BY <1>0, <1>2 DEF NoConnection
  <2>2. CASE state \in {"open", "connecting"}
    BY <2>1, <2>2 DEF NeverStranded
  <2>3. CASE state \notin {"open", "connecting"}
    <3>1. boot'.done => Seen(boot')
      BY <1>0, <1>s, <2>1, <2>3, StillSeenLemma
    <3> QED
      BY <3>1, <1>n
  <2> QED
    BY <2>2, <2>3
<1>3. ASSUME NEW j \in Jobs, Connect(j) PROVE NeverStranded'
  <2>1. state' = "connecting"
    BY <1>3 DEF Connect, Dial
  <2> QED
    BY <2>1 DEF NeverStranded
<1>4. ASSUME NEW j \in Jobs, Synced(j) PROVE NeverStranded'
  <2>1. j = "attempt"
    BY <1>4 DEF RefreshEnds, Synced, Jobs
  <2>2. PICK late \in BOOLEAN : boot' = AttemptEnds(boot, state, late) /\ state' = state
    BY <1>0, <1>4, <2>1 DEF Synced, clientVars
  <2> QED
    BY <1>0, <2>2, AttemptEndsLemma DEF NeverStranded
<1>5. ASSUME NEW j \in Jobs, SyncFails(j) PROVE NeverStranded'
  <2>1. boot'.overlay = "failed"
    BY <1>0, <1>5 DEF SyncFails, JobFails, Flags
  <2> QED
    BY <2>1 DEF NeverStranded
<1>6. ASSUME NEW b \in Flags, Attempt(b), UNCHANGED clientVars,
             b.reconnecting = boot.reconnecting, b.switching = boot.switching
      PROVE  NeverStranded'
  <2>1. /\ boot'.switching = b.switching
        /\ boot'.reconnecting = (b.reconnecting \/ (state # "open" /\ ~b.switching))
    BY <1>0, <1>6, AttemptLemma DEF TypeOK
  <2> QED
    BY <1>6, <2>1 DEF clientVars, NeverStranded
<1>7. CASE TimerFires
  <2> DEFINE b == [boot EXCEPT !.timer = FALSE]
  <2>1. /\ b \in Flags /\ Attempt(b) /\ UNCHANGED clientVars
        /\ b.reconnecting = boot.reconnecting /\ b.switching = boot.switching
    BY <1>0, <1>7 DEF TimerFires, Flags
  <2> HIDE DEF b
  <2> QED
    BY <1>6, <2>1
<1>8. CASE Wake
  <2> DEFINE b == [boot EXCEPT !.timer = FALSE, !.failing = FALSE, !.escalated = FALSE]
  <2>1. /\ b \in Flags /\ Attempt(b) /\ UNCHANGED clientVars
        /\ b.reconnecting = boot.reconnecting /\ b.switching = boot.switching
    BY <1>0, <1>8 DEF Wake, Flags
  <2> HIDE DEF b
  <2> QED
    BY <1>6, <2>1
<1>9. CASE SoftSwitch
  <2>1. boot'.switching
    BY <1>0, <1>9 DEF SoftSwitch, Flags
  <2> QED
    BY <2>1 DEF NeverStranded
<1>10. ASSUME NEW s \in Sockets, SocketOpens(s) PROVE NeverStranded'
  <2>1. state' = "open" \/ UNCHANGED <<state, boot>>
    BY <1>10 DEF SocketOpens, HandshakeDone
  <2> QED
    BY <2>1 DEF NeverStranded
<1>11. ASSUME NEW s \in Sockets, SocketFails(s) PROVE NeverStranded'
  <2>1. CASE socket # s
    BY <1>11, <2>1 DEF SocketFails, Drop, NeverStranded
  <2>2. CASE socket = s
    <3> DEFINE j == waiter[s]
               seen == Changed(boot, state, "error")
    <3>1. PICK late \in BOOLEAN :
            boot' = OnState(JobFails(j, seen, "error", late), "closed")
      BY <1>0, <1>11, <2>2 DEF SocketFails
    <3>2. j \in Jobs
      BY <1>0, <1>11, <2>2 DEF SocketFails, Awaited, TypeOK
    <3>3. seen \in Flags
      BY <1>0, ChangedLemma
    <3> DEFINE over == JobFails(j, seen, "error", late)
    <3>4. over \in Flags /\ boot' = OnState(over, "closed")
      BY <3>1, <3>2, <3>3, JobFailsLemma
    <3> HIDE DEF over
    <3>5. boot'.done => boot'.timer \/ boot'.reconnecting \/ boot'.switching
      BY <3>4, OnStateLemma
    <3> QED
      BY <3>5 DEF NeverStranded
  <2> QED
    BY <2>1, <2>2
<1>12. ASSUME NEW s \in Sockets, PeerCloses(s) PROVE NeverStranded'
  BY <1>12 DEF PeerCloses, bootVars, NeverStranded
<1>13. ASSUME NEW s \in Sockets, SocketCloses(s) PROVE NeverStranded'
  <2>1. CASE socket = s
    <3>1. state # "closed" /\ boot' = Changed(boot, state, "closed")
      BY <1>0, <1>13, <2>1 DEF SocketCloses, ClosedHoldsNone
    <3>2. boot'.done => boot'.timer \/ boot'.reconnecting \/ boot'.switching
      BY <1>0, <3>1, ChangedLemma
    <3> QED
      BY <3>2 DEF NeverStranded
  <2>2. CASE socket # s
    BY <1>13, <2>2 DEF SocketCloses, Drop, NeverStranded
  <2> QED
    BY <2>1, <2>2
<1>14. ASSUME NEW s \in Sockets, ConnectTimesOut(s) PROVE NeverStranded'
  <2> DEFINE j == waiter[s]
             seen == Changed(boot, state, "error")
  <2>1. PICK late \in BOOLEAN : boot' = JobFails(j, seen, "error", late)
    BY <1>0, <1>14 DEF ConnectTimesOut, GiveUp, TimeoutState
  <2>2. j \in Jobs
    BY <1>0, <1>14 DEF ConnectTimesOut, GiveUp, TypeOK
  <2>3. seen \in Flags
    BY <1>0, ChangedLemma
  <2>4. seen.done => Seen(seen)
    <3>1. CASE state = "error"
      BY <1>s, <3>1 DEF Changed
    <3>2. CASE state # "error"
      BY <1>0, <3>2, ChangedLemma DEF Seen
    <3> QED
      BY <3>1, <3>2
  <2> HIDE DEF j, seen
  <2>5. boot'.done => Seen(boot')
    BY <2>1, <2>2, <2>3, <2>4, StillSeenLemma
  <2> QED
    BY <2>5, <1>n
<1>15. ASSUME NEW r \in Calls,
              \/ Request(r) \/ RepeatAtOnce(r) \/ AskToReconnect(r)
              \/ Answer(r) \/ CallTimesOut(r) \/ CallAgain(r)
       PROVE  NeverStranded'
  <2>1. UNCHANGED <<state, boot>>
    BY <1>15 DEF Request, RepeatAtOnce, AskToReconnect, Answer, CallTimesOut, CallAgain,
                 bootVars
  <2> QED
    BY <2>1 DEF NeverStranded
<1>16. CASE UNCHANGED vars
  BY <1>16 DEF vars, clientVars, bootVars, NeverStranded
<1> QED
  BY <1>1, <1>2, <1>3, <1>4, <1>5, <1>7, <1>8, <1>9, <1>10, <1>11, <1>12, <1>13,
     <1>14, <1>15, <1>16 DEF Next

(***************************************************************************)
(* As long as neither a switch nor the dial of a request meets another job *)
(***************************************************************************)
(* Only the current socket is awaited, by a job that dials: no dial is     *)
(* left behind whose timer could fire over another socket.                 *)
Dialing == \A s \in Sockets : waiter[s] # None =>
             /\ socket = s
             /\ state = "connecting"
             /\ pc[waiter[s]] = "dial"

(* The reported state is that of the current socket, and every other       *)
(* socket is on its way out.                                               *)
Current ==
  /\ state \in {"connecting", "open"} <=> socket # None
  /\ state = "connecting" => phase[socket] = "connecting" /\ waiter[socket] # None
  /\ state = "open" => phase[socket] \in {"open", "closing"}
  /\ \A s \in Sockets : s # socket => phase[s] \in {"closing", "closed"}

(* The flags say which job is at work, and they keep out all but an        *)
(* attempt and the dial of a request.                                      *)
OneJob ==
  /\ pc["attempt"] # "idle" <=> boot.reconnecting
  /\ pc["switch"] # "idle" <=> boot.switching
  /\ pc["boot"] # "idle" => ~boot.done /\ ~boot.switching /\ pc["ask"] = "idle"
  /\ boot.switching => ~boot.reconnecting /\ ~boot.timer /\ pc["ask"] = "idle"
  /\ boot.reconnecting \/ boot.timer => boot.done
  /\ ~(boot.reconnecting /\ boot.timer)
  /\ pc["ask"] # "sync"

ConnInv == Dialing /\ Current /\ OneJob

LEMMA ConnInit == Init => ConnInv
BY NoneAssumption, BootAssumption
   DEF Init, ClientInit, ConnInv, Dialing, Current, OneJob, Jobs

LEMMA ConnStep ==
  ASSUME ~Interleaved
  PROVE  BaseInv /\ ConnInv /\ [Next]_vars => ConnInv'
<1> SUFFICES ASSUME BaseInv, ConnInv, [Next]_vars PROVE ConnInv'
  OBVIOUS
<1> USE JobsLemma
<1> USE DEF ConnInv
<1>0. TypeOK
  BY DEF BaseInv
<1>1. ASSUME NEW j \in Jobs, GotConnection(j) PROVE ConnInv'
  BY <1>0, <1>1 DEF GotConnection, clientVars, TypeOK, Dialing, Current, OneJob,
                    Jobs
<1>2. ASSUME NEW j \in Jobs, NoConnection(j) PROVE ConnInv'
  <2>1. PICK late \in BOOLEAN :
          /\ pc[j] \in {"conn", "mint"}
          /\ pc' = [pc EXCEPT ![j] = "idle"]
          /\ boot' = JobFails(j, boot, state, late)
          /\ UNCHANGED <<phase, waiter, backend, socket, state, aim, target>>
    BY <1>0, <1>2, LatenessLemma DEF NoConnection
  <2>2. /\ boot'.done = boot.done
        /\ boot'.reconnecting = (boot.reconnecting /\ j # "attempt")
        /\ boot'.switching = (boot.switching /\ j # "switch")
        /\ boot'.timer => boot.timer \/ (j = "attempt" /\ ~boot.switching)
    BY <1>0, <2>1, JobFailsLemma DEF TypeOK
  <2>3. OneJob'
    BY <1>0, <2>1, <2>2 DEF OneJob, TypeOK, Jobs
  <2> QED
    BY <1>0, <2>1, <2>3 DEF TypeOK, Dialing, Current
<1>3. ASSUME NEW j \in Jobs, AlreadyConnecting(j) PROVE ConnInv'
  <2>1. /\ boot'.done = boot.done
        /\ boot'.reconnecting = boot.reconnecting
        /\ boot'.switching = boot.switching
        /\ boot'.timer = boot.timer
    BY <1>0, <1>3, ConnectedLemma DEF AlreadyConnecting, TypeOK
  <2>2. OneJob'
    BY <1>0, <1>3, <2>1 DEF AlreadyConnecting, Next1, OneJob, TypeOK, Jobs
  <2> QED
    BY <1>0, <1>3, <2>2 DEF AlreadyConnecting, Next1, TypeOK, Dialing, Current
<1>4. ASSUME NEW j \in Jobs, Connect(j) PROVE ConnInv'
  <2>1. PICK s \in Sockets :
          /\ Gone(s)
          /\ phase' = [phase EXCEPT ![s] = "connecting"]
          /\ waiter' = [waiter EXCEPT ![s] = j]
          /\ backend' = [backend EXCEPT ![s] = aim[j]]
          /\ socket' = s
          /\ state' = "connecting"
    BY <1>4 DEF Connect, Dial
  <2>2. /\ pc[j] = "mint" /\ ~Usable /\ state # "connecting"
        /\ pc' = [pc EXCEPT ![j] = "dial"]
        /\ UNCHANGED <<aim, target>>
    BY <1>4 DEF Connect, ConnectReturnsEarly
  <2>3. boot' = boot
    BY <1>0, <1>4, ChangedLemma DEF Connect, TypeOK
  <2>4. OneJob'
    BY <1>0, <2>2, <2>3 DEF OneJob, TypeOK, Jobs
  <2>5. \A t \in Sockets : waiter[t] = None
    BY <2>2 DEF Dialing
  <2>6. Dialing'
    BY <1>0, <2>1, <2>2, <2>5 DEF Dialing, TypeOK
  <2>7. \A t \in Sockets : phase[t] \in {"closing", "closed"}
    BY <1>0, <2>2 DEF Current, Usable, TypeOK
  <2>8. Current'
    BY <1>0, <2>1, <2>7 DEF Current, TypeOK
  <2> QED
    BY <2>4, <2>6, <2>8
<1>5. ASSUME NEW j \in Jobs, Synced(j) PROVE ConnInv'
  <2>1. PICK late \in BOOLEAN :
          /\ pc[j] = "sync"
          /\ pc' = [pc EXCEPT ![j] = "idle"]
          /\ boot' = IF j = "attempt"
                       THEN AttemptEnds(boot, state, late)
                       ELSE [boot EXCEPT !.done = TRUE, !.overlay = "none",
                                         !.switching = @ /\ j # "switch"]
          /\ UNCHANGED <<phase, waiter, backend, socket, state, aim, target>>
    BY <1>0, <1>5, LatenessLemma DEF Synced, clientVars
  <2>4. OneJob'
    <3>1. CASE j = "attempt"
      <4>1. /\ boot'.done = boot.done
            /\ ~boot'.reconnecting
            /\ boot'.switching = boot.switching
            /\ boot'.timer => boot.timer \/ ~boot.switching
        BY <1>0, <2>1, <3>1, AttemptEndsLemma DEF TypeOK
      <4> QED
        BY <1>0, <2>1, <3>1, <4>1 DEF OneJob, TypeOK, Jobs
    <3>2. CASE j \in {"boot", "switch"}
      <4>1. /\ boot'.done
            /\ boot'.reconnecting = boot.reconnecting
            /\ boot'.switching = (boot.switching /\ j # "switch")
            /\ boot'.timer = boot.timer
        BY <1>0, <2>1, <3>2 DEF TypeOK, Flags
      <4> QED
        BY <1>0, <2>1, <3>2, <4>1 DEF OneJob, TypeOK, Jobs
    <3> QED
      BY <2>1, <3>1, <3>2 DEF OneJob, Jobs
  <2> QED
    BY <1>0, <2>1, <2>4 DEF TypeOK, Dialing, Current
<1>6. ASSUME NEW j \in Jobs, SyncFails(j) PROVE ConnInv'
  <2>1. /\ j \in {"boot", "switch"} /\ pc[j] = "sync"
        /\ pc' = [pc EXCEPT ![j] = "idle"]
        /\ boot' = JobFails(j, boot, state, FALSE)
        /\ UNCHANGED <<phase, waiter, backend, socket, state, aim, target>>
    BY <1>6 DEF SyncFails, clientVars
  <2>2. /\ boot'.done = boot.done
        /\ boot'.reconnecting = boot.reconnecting
        /\ boot'.switching = (boot.switching /\ j # "switch")
        /\ boot'.timer = boot.timer
    BY <1>0, <2>1 DEF JobFails, TypeOK, Flags
  <2>3. OneJob'
    BY <1>0, <2>1, <2>2 DEF OneJob, TypeOK, Jobs
  <2> QED
    BY <1>0, <2>1, <2>3 DEF TypeOK, Dialing, Current
<1>7. ASSUME NEW b \in Flags, Attempt(b), UNCHANGED <<clientVars, aim, target>>,
             b.done = boot.done, b.reconnecting = boot.reconnecting,
             b.switching = boot.switching, ~b.timer, boot.done
      PROVE  ConnInv'
  <2>1. /\ pc' \in [Jobs -> JobSteps]
        /\ \A j \in Jobs \ {"attempt"} : pc'[j] = pc[j]
        /\ boot'.done = b.done /\ boot'.switching = b.switching
        /\ ~boot'.timer
        /\ boot'.reconnecting = (b.reconnecting \/ (state # "open" /\ ~b.switching))
        /\ pc'["attempt"] = IF ~b.reconnecting /\ boot'.reconnecting
                              THEN "conn" ELSE pc["attempt"]
    BY <1>0, <1>7, AttemptLemma DEF TypeOK
  <2>2. OneJob'
    BY <1>7, <2>1 DEF OneJob, Jobs
  <2>3. \A j \in Jobs : pc[j] = "dial" => pc'[j] = "dial"
    BY <1>7, <2>1 DEF OneJob, Jobs
  <2>4. Dialing'
    BY <1>0, <1>7, <2>3 DEF clientVars, Dialing, TypeOK
  <2> QED
    BY <1>7, <2>2, <2>4 DEF clientVars, Current
<1>8. CASE TimerFires
  <2> DEFINE b == [boot EXCEPT !.timer = FALSE]
  <2>1. /\ b \in Flags /\ Attempt(b) /\ UNCHANGED <<clientVars, aim, target>>
        /\ b.done = boot.done /\ b.reconnecting = boot.reconnecting
        /\ b.switching = boot.switching /\ ~b.timer /\ boot.timer
    BY <1>0, <1>8 DEF TimerFires, TypeOK, Flags
  <2>2. boot.done
    BY <2>1 DEF OneJob
  <2> HIDE DEF b
  <2> QED
    BY <1>7, <2>1, <2>2
<1>9. CASE Wake
  <2> DEFINE b == [boot EXCEPT !.timer = FALSE, !.failing = FALSE, !.escalated = FALSE]
  <2>1. /\ b \in Flags /\ Attempt(b) /\ UNCHANGED <<clientVars, aim, target>>
        /\ b.done = boot.done /\ b.reconnecting = boot.reconnecting
        /\ b.switching = boot.switching /\ ~b.timer /\ boot.done
    BY <1>0, <1>9 DEF Wake, TypeOK, Flags
  <2> HIDE DEF b
  <2> QED
    BY <1>7, <2>1
<1>10. CASE SoftSwitch
  <2>1. /\ \A j \in Jobs : pc[j] = "idle"
        /\ pc' = [pc EXCEPT !["switch"] = "conn"]
        /\ HangUp
        /\ UNCHANGED <<waiter, backend, aim>>
    BY <1>10 DEF SoftSwitch
  <2>2. /\ boot'.done = boot.done /\ boot'.reconnecting = boot.reconnecting
        /\ boot'.switching /\ ~boot'.timer
    BY <1>0, <1>10 DEF SoftSwitch, TypeOK, Flags
  <2>3. OneJob'
    BY <1>0, <2>1, <2>2 DEF OneJob, TypeOK, Jobs
  <2>4. \A s \in Sockets : waiter[s] = None
    BY <1>0, <2>1 DEF Dialing, TypeOK
  <2>5. Dialing'
    BY <2>1, <2>4 DEF Dialing
  <2>6. socket' = None
    BY <2>1 DEF HangUp
  <2>7. Current'
    BY <1>0, <2>1, <2>6 DEF HangUp, Current, TypeOK
  <2> QED
    BY <2>3, <2>5, <2>7
<1>11. ASSUME NEW s \in Sockets, SocketOpens(s) PROVE ConnInv'
  <2>1. phase[s] = "connecting" /\ socket = s /\ waiter[s] # None
    BY <1>0, <1>11 DEF SocketOpens, HandshakeDone, Current, TypeOK
  <2>2. /\ pc' = [pc EXCEPT ![waiter[s]] = Next1(waiter[s])]
        /\ boot' = Connected(waiter[s], Changed(boot, state, "open"))
        /\ phase' = [phase EXCEPT ![s] = "open"]
        /\ waiter' = [waiter EXCEPT ![s] = None]
        /\ state' = "open"
        /\ UNCHANGED <<backend, socket, aim, target>>
    BY <1>11, <2>1 DEF SocketOpens, HandshakeDone, Settle
  <2>3. waiter[s] \in Jobs /\ pc[waiter[s]] = "dial"
    BY <1>0, <2>1 DEF Dialing, TypeOK
  <2>4. /\ boot'.done = boot.done /\ boot'.reconnecting = boot.reconnecting
        /\ boot'.switching = boot.switching
        /\ boot'.timer => boot.timer \/ (boot.done /\ ~boot.reconnecting /\ ~boot.switching)
    <3>1. Changed(boot, state, "open") \in Flags
      BY <1>0, ChangedLemma DEF TypeOK
    <3> QED
      BY <1>0, <2>2, <2>3, <3>1, ChangedLemma, ConnectedLemma DEF TypeOK
  <2>5. OneJob'
    BY <1>0, <2>2, <2>3, <2>4 DEF OneJob, Next1, TypeOK, Jobs
  <2>6. Dialing'
    BY <1>0, <2>1, <2>2 DEF Dialing, TypeOK
  <2>7. Current'
    BY <1>0, <2>1, <2>2 DEF Current, TypeOK
  <2> QED
    BY <2>5, <2>6, <2>7
<1>12. ASSUME NEW s \in Sockets, SocketFails(s) PROVE ConnInv'
  <2>1. phase[s] = "connecting" /\ socket = s /\ waiter[s] # None
    BY <1>0, <1>12 DEF SocketFails, Current, TypeOK
  <2> DEFINE j == waiter[s]
             seen == Changed(boot, state, "error")
  <2>2. PICK late \in BOOLEAN :
          /\ pc' = [pc EXCEPT ![j] = "idle"]
          /\ boot' = OnState(JobFails(j, seen, "error", late), "closed")
          /\ phase' = [phase EXCEPT ![s] = "closed"]
          /\ waiter' = [waiter EXCEPT ![s] = None]
          /\ socket' = None
          /\ state' = "closed"
          /\ UNCHANGED <<backend, aim, target>>
    BY <1>0, <1>12, <2>1, LatenessLemma DEF SocketFails, Drop, Settle
  <2>3. j \in Jobs /\ pc[j] = "dial"
    BY <1>0, <2>1 DEF Dialing, TypeOK
  <2>4. /\ seen \in Flags
        /\ seen.done = boot.done /\ seen.reconnecting = boot.reconnecting
        /\ seen.switching = boot.switching
        /\ seen.timer => boot.timer \/ (boot.done /\ ~boot.reconnecting /\ ~boot.switching)
    BY <1>0, ChangedLemma DEF TypeOK
  <2> DEFINE over == JobFails(j, seen, "error", late)
  <2>5. /\ over \in Flags
        /\ over.done = boot.done
        /\ over.reconnecting = (boot.reconnecting /\ j # "attempt")
        /\ over.switching = (boot.switching /\ j # "switch")
        /\ over.timer => seen.timer \/ (j = "attempt" /\ ~boot.switching)
    BY <2>3, <2>4, JobFailsLemma
  <2>6. boot' = OnState(over, "closed")
    BY <2>2
  <2> HIDE DEF j, seen, over
  <2>7. /\ boot'.done = over.done /\ boot'.reconnecting = over.reconnecting
        /\ boot'.switching = over.switching
        /\ boot'.timer => over.timer
                          \/ (over.done /\ ~over.reconnecting /\ ~over.switching)
    BY <2>5, <2>6, OnStateLemma
  <2>8. OneJob'
    BY <1>0, <2>2, <2>3, <2>4, <2>5, <2>7 DEF OneJob, TypeOK, Jobs
  <2>9. \A t \in Sockets : waiter'[t] = None
    BY <1>0, <2>1, <2>2 DEF Dialing, TypeOK
  <2>10. Current'
    BY <1>0, <2>1, <2>2 DEF Current, TypeOK
  <2> QED
    BY <2>8, <2>9, <2>10 DEF Dialing
<1>13. ASSUME NEW s \in Sockets, PeerCloses(s) PROVE ConnInv'
  BY <1>0, <1>13 DEF PeerCloses, bootVars, TypeOK, Dialing, Current, OneJob
<1>14. ASSUME NEW s \in Sockets, SocketCloses(s) PROVE ConnInv'
  <2>1. /\ phase[s] \in {"open", "closing"}
        /\ phase' = [phase EXCEPT ![s] = "closed"]
        /\ socket' = IF socket = s THEN None ELSE socket
        /\ state' = IF socket = s THEN "closed" ELSE state
        /\ waiter' = IF socket = s THEN [waiter EXCEPT ![s] = None] ELSE waiter
        /\ UNCHANGED <<pc, aim, target, backend>>
    BY <1>14 DEF SocketCloses, Drop
  <2>2. /\ boot'.done = boot.done /\ boot'.reconnecting = boot.reconnecting
        /\ boot'.switching = boot.switching
        /\ boot'.timer => boot.timer \/ (boot.done /\ ~boot.reconnecting /\ ~boot.switching)
    BY <1>0, <1>14, ChangedLemma DEF SocketCloses, TypeOK
  <2>3. OneJob'
    BY <2>1, <2>2 DEF OneJob
  <2>4. waiter[s] = None
    BY <2>1 DEF Dialing, Current
  <2>5. socket = s => \A t \in Sockets : waiter[t] = None
    BY <2>4 DEF Dialing
  <2>6. Dialing'
    BY <1>0, <2>1, <2>5 DEF Dialing, TypeOK
  <2>7. Current'
    BY <1>0, <2>1 DEF Current, TypeOK
  <2> QED
    BY <2>3, <2>6, <2>7
<1>15. ASSUME NEW s \in Sockets, ConnectTimesOut(s) PROVE ConnInv'
  <2>1. /\ socket = s /\ state = "connecting" /\ waiter[s] # None
        /\ pc[waiter[s]] = "dial"
    BY <1>15 DEF ConnectTimesOut, GiveUp, Dialing
  <2> DEFINE j == waiter[s]
             seen == Changed(boot, state, "error")
  <2>2. PICK late \in BOOLEAN :
          /\ pc' = [pc EXCEPT ![j] = "idle"]
          /\ boot' = JobFails(j, seen, "error", late)
          /\ phase' = [phase EXCEPT ![s] = "closing"]
          /\ waiter' = [waiter EXCEPT ![s] = None]
          /\ socket' = None
          /\ state' = "error"
          /\ UNCHANGED <<backend, aim, target>>
    BY <1>0, <1>15, <2>1, LatenessLemma
       DEF ConnectTimesOut, GiveUp, TimeoutState, Settle
  <2>3. j \in Jobs
    BY <1>0, <2>1 DEF TypeOK
  <2>4. /\ seen \in Flags
        /\ seen.done = boot.done /\ seen.reconnecting = boot.reconnecting
        /\ seen.switching = boot.switching
        /\ seen.timer => boot.timer \/ (boot.done /\ ~boot.reconnecting /\ ~boot.switching)
    BY <1>0, ChangedLemma DEF TypeOK
  <2>5. /\ boot'.done = boot.done
        /\ boot'.reconnecting = (boot.reconnecting /\ j # "attempt")
        /\ boot'.switching = (boot.switching /\ j # "switch")
        /\ boot'.timer => seen.timer \/ (j = "attempt" /\ ~boot.switching)
    BY <2>2, <2>3, <2>4, JobFailsLemma
  <2>6. pc[j] = "dial"
    BY <2>1
  <2> HIDE DEF j, seen
  <2>7. OneJob'
    BY <1>0, <2>2, <2>3, <2>4, <2>5, <2>6 DEF OneJob, TypeOK, Jobs
  <2>8. \A t \in Sockets : waiter'[t] = None
    BY <1>0, <2>1, <2>2 DEF Dialing, TypeOK
  <2>9. Current'
    BY <1>0, <2>1, <2>2 DEF Current, TypeOK
  <2> QED
    BY <2>7, <2>8, <2>9 DEF Dialing
<1>16. ASSUME NEW r \in Calls,
              Request(r) \/ RepeatAtOnce(r) \/ Answer(r) \/ CallTimesOut(r) \/ CallAgain(r)
       PROVE  ConnInv'
  <2>1. UNCHANGED <<phase, waiter, backend, socket, state, bootVars>>
    BY <1>16 DEF Request, RepeatAtOnce, Answer, CallTimesOut, CallAgain
  <2> QED
    BY <2>1 DEF bootVars, Dialing, Current, OneJob
<1>17. ASSUME NEW r \in Calls, AskToReconnect(r) PROVE ConnInv'
  <2>1. /\ pc["boot"] = "idle" /\ pc["switch"] = "idle"
        /\ pc' = IF pc["ask"] = "idle" THEN [pc EXCEPT !["ask"] = "conn"] ELSE pc
        /\ UNCHANGED <<phase, waiter, backend, socket, state, aim, target, boot>>
    BY <1>17 DEF AskToReconnect
  <2>2. OneJob'
    BY <1>0, <2>1 DEF OneJob, TypeOK, Jobs
  <2> QED
    BY <1>0, <2>1, <2>2 DEF TypeOK, Dialing, Current, Jobs
<1>18. CASE UNCHANGED vars
  BY <1>18 DEF vars, clientVars, bootVars, Dialing, Current, OneJob
<1> QED
  BY <1>1, <1>2, <1>3, <1>4, <1>5, <1>6, <1>8, <1>9, <1>10, <1>11, <1>12, <1>13,
     <1>14, <1>15, <1>16, <1>17, <1>18 DEF Next

(* What the client reports is what its socket is.                          *)
THEOREM Truthful == ~Interleaved => (Spec => []StateTruthful)
<1> SUFFICES ASSUME ~Interleaved PROVE Spec => []StateTruthful
  OBVIOUS
<1>1. BaseInv /\ ConnInv => StateTruthful
  BY DEF ConnInv, Current, StateTruthful, Usable
<1> QED
  BY BaseInit, BaseStep, ConnInit, ConnStep, <1>1, PTL DEF Spec

(* However many sockets there are, at most one of them is live.            *)
THEOREM OneLive == ~Interleaved => (Spec => []OneLiveSocket)
<1> SUFFICES ASSUME ~Interleaved PROVE Spec => []OneLiveSocket
  OBVIOUS
<1>1. BaseInv /\ ConnInv => OneLiveSocket
  BY DEF ConnInv, Current, OneLiveSocket
<1> QED
  BY BaseInit, BaseStep, ConnInit, ConnStep, <1>1, PTL DEF Spec

(***************************************************************************)
(* As long as, moreover, no socket is lost while boot or switch refreshes  *)
(***************************************************************************)
(* A refresh of boot or switch runs on a connection: the job ends by       *)
(* declaring the application booted, whatever the connection is.           *)
Refreshing == Syncing => state = "open"

LiveInv == Refreshing /\ NeverStranded

LEMMA LiveInit == Init => LiveInv
BY DEF Init, ClientInit, LiveInv, Refreshing, Syncing, NeverStranded, Jobs

LEMMA LiveStep ==
  ASSUME ~Interleaved, ~LossInSync
  PROVE  BaseInv /\ ConnInv /\ LiveInv /\ [Next]_vars => LiveInv'
<1> SUFFICES ASSUME BaseInv, ConnInv, LiveInv, [Next]_vars PROVE LiveInv'
  OBVIOUS
<1> USE JobsLemma
<1>0. /\ TypeOK /\ OneJob /\ Dialing /\ Current /\ Refreshing /\ NeverStranded
      /\ boot \in Flags
  BY DEF BaseInv, ConnInv, LiveInv, TypeOK
<1>n. NeverStranded'
  <2>1. CASE RefreshEnds
    <3>1. Syncing /\ state' = state
      BY <2>1 DEF RefreshEnds, Synced, Syncing, clientVars
    <3> QED
      BY <1>0, <3>1 DEF Refreshing, NeverStranded
  <2>2. CASE ~RefreshEnds
    BY <1>0, <2>2, StrandStep DEF OneJob
  <2> QED
    BY <2>1, <2>2
<1>1. ASSUME NEW j \in Jobs, GotConnection(j) \/ NoConnection(j) PROVE Refreshing'
  <2>1. state' = state /\ \E step \in JobSteps \ {"sync"} : pc' = [pc EXCEPT ![j] = step]
    BY <1>1 DEF GotConnection, NoConnection, clientVars, JobSteps
  <2> QED
    BY <1>0, <2>1 DEF Refreshing, Syncing, TypeOK
<1>2. ASSUME NEW j \in Jobs, AlreadyConnecting(j) PROVE Refreshing'
  <2>1. /\ pc[j] = "mint"
        /\ Usable \/ state = "connecting"
        /\ pc' = [pc EXCEPT ![j] = Next1(j)]
        /\ state' = state
    BY <1>2 DEF AlreadyConnecting, ConnectReturnsEarly
  <2>2. CASE j \in {"boot", "switch"}
    <3>1. state # "connecting"
      <4> SUFFICES ASSUME state = "connecting" PROVE FALSE
        OBVIOUS
      <4>1. PICK k \in Jobs : pc[k] = "dial"
        BY <1>0 DEF Current, Dialing, TypeOK
      <4> QED
        BY <1>0, <2>1, <2>2, <4>1 DEF OneJob, Jobs
    <3>2. state = "open"
      BY <1>0, <2>1, <3>1 DEF Usable, Current, TypeOK
    <3> QED
      BY <2>1, <3>2 DEF Refreshing
  <2>3. CASE j \notin {"boot", "switch"}
    BY <1>0, <2>1, <2>3 DEF Refreshing, Syncing, TypeOK
  <2> QED
    BY <2>2, <2>3
<1>3. ASSUME NEW j \in Jobs, Connect(j) PROVE Refreshing'
  <2>1. pc[j] = "mint" /\ pc' = [pc EXCEPT ![j] = "dial"]
    BY <1>3 DEF Connect, Dial
  <2>2. ~Syncing'
    BY <1>0, <2>1 DEF OneJob, Syncing, TypeOK, Jobs
  <2> QED
    BY <2>2 DEF Refreshing
<1>4. ASSUME NEW j \in Jobs, Synced(j) \/ SyncFails(j) PROVE Refreshing'
  <2>1. pc' = [pc EXCEPT ![j] = "idle"] /\ state' = state
    BY <1>4 DEF Synced, SyncFails, clientVars
  <2> QED
    BY <1>0, <2>1 DEF Refreshing, Syncing, TypeOK
<1>5. ASSUME TimerFires \/ Wake PROVE Refreshing'
  <2>1. PICK b \in Flags : Attempt(b) /\ UNCHANGED clientVars
    BY <1>0, <1>5 DEF TimerFires, Wake, Flags
  <2>2. \A j \in Jobs \ {"attempt"} : pc'[j] = pc[j]
    BY <1>0, <2>1, AttemptLemma DEF TypeOK
  <2> QED
    BY <1>0, <2>1, <2>2 DEF clientVars, Refreshing, Syncing, Jobs
<1>6. ASSUME SoftSwitch PROVE Refreshing'
  <2>1. (\A j \in Jobs : pc[j] = "idle") /\ pc' = [pc EXCEPT !["switch"] = "conn"]
    BY <1>6 DEF SoftSwitch
  <2> QED
    BY <1>0, <2>1 DEF Refreshing, Syncing, TypeOK, Jobs
<1>7. ASSUME NEW s \in Sockets, SocketOpens(s) PROVE Refreshing'
  <2>1. socket = s /\ waiter[s] # None
    BY <1>0, <1>7 DEF SocketOpens, HandshakeDone, Current, TypeOK
  <2>2. state' = "open"
    BY <1>7, <2>1 DEF SocketOpens, HandshakeDone
  <2> QED
    BY <2>2 DEF Refreshing
<1>8. ASSUME NEW s \in Sockets, SocketFails(s) \/ ConnectTimesOut(s) PROVE Refreshing'
  <2>1. socket = s /\ waiter[s] # None
    BY <1>0, <1>8 DEF SocketFails, ConnectTimesOut, GiveUp, Current, Dialing, TypeOK
  <2>2. state = "connecting" /\ pc' = [pc EXCEPT ![waiter[s]] = "idle"]
    BY <1>0, <1>8, <2>1 DEF SocketFails, ConnectTimesOut, Settle, Dialing
  <2>3. ~Syncing'
    BY <1>0, <2>2 DEF Refreshing, Syncing, TypeOK
  <2> QED
    BY <2>3 DEF Refreshing
<1>9. ASSUME NEW s \in Sockets, PeerCloses(s) \/ SocketCloses(s) PROVE Refreshing'
  <2>1. pc' = pc /\ (Syncing => state' = state)
    BY <1>9 DEF PeerCloses, SocketCloses, Drop, bootVars
  <2> QED
    BY <1>0, <2>1 DEF Refreshing, Syncing
<1>10. ASSUME NEW r \in Calls,
              \/ Request(r) \/ RepeatAtOnce(r) \/ AskToReconnect(r)
              \/ Answer(r) \/ CallTimesOut(r) \/ CallAgain(r)
       PROVE  Refreshing'
  <2>1. state' = state /\ \A j \in Jobs \ {"ask"} : pc'[j] = pc[j]
    BY <1>0, <1>10 DEF Request, RepeatAtOnce, AskToReconnect, Answer, CallTimesOut,
                       CallAgain, bootVars, TypeOK
  <2> QED
    BY <1>0, <2>1 DEF Refreshing, Syncing, Jobs
<1>11. ASSUME UNCHANGED vars PROVE Refreshing'
  BY <1>0, <1>11 DEF vars, clientVars, bootVars, Refreshing, Syncing
<1>12. Refreshing'
  BY <1>1, <1>2, <1>3, <1>4, <1>5, <1>6, <1>7, <1>8, <1>9, <1>10, <1>11 DEF Next
<1> QED
  BY <1>n, <1>12 DEF LiveInv

(* Once booted, the application never sits without a connection and        *)
(* without anybody who will see to it, if no socket is lost while boot or  *)
(* switch refreshes, and if neither a switch nor the dial of a request      *)
(* meets another job. It is false without either of the two.               *)
THEOREM NotStranded ==
  ~Interleaved /\ ~LossInSync => (Spec => []NeverStranded)
<1> SUFFICES ASSUME ~Interleaved, ~LossInSync PROVE Spec => []NeverStranded
  OBVIOUS
<1>1. LiveInv => NeverStranded
  BY DEF LiveInv
<1> QED
  BY BaseInit, BaseStep, ConnInit, ConnStep, LiveInit, LiveStep, <1>1, PTL DEF Spec

(***************************************************************************)
(* Who waits, waits for something (the part of EveryCallSettles and        *)
(* Recovers that is a matter of safety), for every interleaving.           *)
(***************************************************************************)
(* A job that awaits a handshake awaits one socket, whose timer is armed,  *)
(* even when somebody else has hung up on it or dialed over it; and no     *)
(* timer is armed for a job that has gone on.                              *)
DialTimed ==
  /\ \A j \in Jobs : pc[j] = "dial" <=> \E s \in Sockets : waiter[s] = j
  /\ \A s, t \in Sockets : waiter[s] = waiter[t] /\ waiter[s] # None => s = t

(* The socket in use is awaited only during its handshake: a close that is *)
(* seen then cannot take a dial with it unsettled.                         *)
UnsettledConnects ==
  \A s \in Sockets : socket = s /\ waiter[s] # None => phase[s] = "connecting"

(* A call that asked for a new connection waits for a dial under way.      *)
AskersServed ==
  /\ pc["ask"] # "sync"
  /\ \A r \in Calls : call[r] = "asking" => pc["ask"] # "idle"

(* The flag that keeps a second attempt out is set exactly during one.     *)
AttemptFlagged == pc["attempt"] # "idle" <=> boot.reconnecting

NobodyForgotten == DialTimed /\ UnsettledConnects /\ AskersServed /\ AttemptFlagged

LEMMA ForgottenInit == Init => NobodyForgotten
BY JobsLemma DEF Init, ClientInit, NobodyForgotten, DialTimed, UnsettledConnects,
                  AskersServed, AttemptFlagged, Jobs

(* The three ways of a job and its dial: nothing happens to dials, one     *)
(* begins on a socket nobody awaits, one settles.                          *)
LEMMA DialKept ==
  ASSUME TypeOK, DialTimed,
         \/ /\ waiter' = waiter
            /\ \A j \in Jobs : pc'[j] = "dial" <=> pc[j] = "dial"
         \/ \E s \in Sockets, j \in Jobs :
              /\ waiter[s] = None /\ pc[j] # "dial"
              /\ waiter' = [waiter EXCEPT ![s] = j]
              /\ pc' = [pc EXCEPT ![j] = "dial"]
         \/ \E s \in Sockets, step \in JobSteps \ {"dial"} :
              /\ waiter[s] # None
              /\ waiter' = [waiter EXCEPT ![s] = None]
              /\ pc' = [pc EXCEPT ![waiter[s]] = step]
  PROVE  DialTimed'
<1> USE JobsLemma
<1>1. CASE /\ waiter' = waiter
           /\ \A j \in Jobs : pc'[j] = "dial" <=> pc[j] = "dial"
  BY <1>1 DEF DialTimed
<1>2. ASSUME NEW s \in Sockets, NEW j \in Jobs,
             waiter[s] = None, pc[j] # "dial",
             waiter' = [waiter EXCEPT ![s] = j], pc' = [pc EXCEPT ![j] = "dial"]
      PROVE  DialTimed'
  <2>1. \A t \in Sockets : waiter'[t] = IF t = s THEN j ELSE waiter[t]
    BY <1>2 DEF TypeOK
  <2>2. \A i \in Jobs : pc'[i] = IF i = j THEN "dial" ELSE pc[i]
    BY <1>2 DEF TypeOK
  <2>3. \A t \in Sockets : waiter[t] # j
    BY <1>2 DEF DialTimed
  <2>4. ASSUME NEW i \in Jobs PROVE pc'[i] = "dial" <=> \E t \in Sockets : waiter'[t] = i
    BY <1>2, <2>1, <2>2, <2>3 DEF DialTimed
  <2> QED
    BY <2>1, <2>3, <2>4 DEF DialTimed
<1>3. ASSUME NEW s \in Sockets, NEW step \in JobSteps \ {"dial"},
             waiter[s] # None, waiter' = [waiter EXCEPT ![s] = None],
             pc' = [pc EXCEPT ![waiter[s]] = step]
      PROVE  DialTimed'
  <2>1. waiter[s] \in Jobs /\ pc[waiter[s]] = "dial"
    BY <1>3 DEF TypeOK, DialTimed
  <2>2. \A t \in Sockets : waiter'[t] = IF t = s THEN None ELSE waiter[t]
    BY <1>3 DEF TypeOK
  <2>3. \A i \in Jobs : pc'[i] = IF i = waiter[s] THEN step ELSE pc[i]
    BY <1>3, <2>1 DEF TypeOK
  <2>4. ASSUME NEW i \in Jobs PROVE pc'[i] = "dial" <=> \E t \in Sockets : waiter'[t] = i
    <3>1. CASE i = waiter[s]
      BY <1>3, <2>2, <2>3, <3>1 DEF DialTimed
    <3>2. CASE i # waiter[s]
      BY <2>2, <2>3, <3>2 DEF DialTimed
    <3> QED
      BY <3>1, <3>2
  <2> QED
    BY <2>2, <2>4 DEF DialTimed
<1> QED
  BY <1>1, <1>2, <1>3

(* What the end of a job does to the calls that wait for it.               *)
LEMMA AfterAsk ==
  ASSUME NEW j \in Jobs, NEW calls \in [Calls -> CallStates],
         NEW usable \in BOOLEAN
  PROVE  \A r \in Calls : CallsAfter(j, calls, usable)[r] = "asking"
                            => calls[r] = "asking" /\ j # "ask"
BY DEF CallsAfter, Repeat

LEMMA RejectAsks ==
  ASSUME NEW calls \in [Calls -> CallStates]
  PROVE  \A r \in Calls : RejectAll(calls)[r] = "asking" => calls[r] = "asking"
BY DEF RejectAll

(* A step of one job, seen from the flag of the attempt.                   *)
LEMMA FlagKept ==
  ASSUME TypeOK, TypeOK', AttemptFlagged, NEW j \in Jobs, NEW step \in JobSteps,
         pc' = [pc EXCEPT ![j] = step],
         j # "attempt" => boot'.reconnecting = boot.reconnecting,
         j = "attempt" => (boot'.reconnecting <=> step # "idle")
  PROVE  AttemptFlagged'
BY DEF AttemptFlagged, TypeOK, Flags, Jobs

(* The calls that ask wait for the job "ask" alone.                        *)
Asking == {r \in Calls : call[r] = "asking"}

LEMMA AsksKept ==
  ASSUME pc \in [Jobs -> JobSteps], AskersServed, NEW j \in Jobs, NEW step \in JobSteps,
         j = "ask" => step # "sync", pc' = [pc EXCEPT ![j] = step],
         Asking' \subseteq Asking, j = "ask" /\ step = "idle" => Asking' = {}
  PROVE  AskersServed'
BY DEF AskersServed, Asking, Jobs

LEMMA UnsettledStep ==
  TypeOK /\ UnsettledConnects /\ [Next]_vars => UnsettledConnects'
<1> SUFFICES ASSUME TypeOK, UnsettledConnects, [Next]_vars PROVE UnsettledConnects'
  OBVIOUS
<1> USE JobsLemma
<1>1. CASE UNCHANGED <<phase, waiter, socket>>
  BY <1>1 DEF UnsettledConnects
<1>2. ASSUME NEW j \in Jobs, Connect(j) PROVE UnsettledConnects'
  BY <1>2 DEF Connect, Dial, TypeOK, UnsettledConnects
<1>3. CASE SoftSwitch
  BY <1>3 DEF SoftSwitch, HangUp, TypeOK, UnsettledConnects
<1>4. ASSUME NEW s \in Sockets, SocketOpens(s) PROVE UnsettledConnects'
  BY <1>4 DEF SocketOpens, HandshakeDone, TypeOK, UnsettledConnects
<1>5. ASSUME NEW s \in Sockets, SocketFails(s) \/ SocketCloses(s) PROVE UnsettledConnects'
  <2>1. Drop(s)
    BY <1>5 DEF SocketFails, SocketCloses
  <2> QED
    BY <2>1 DEF Drop, TypeOK, UnsettledConnects
<1>6. ASSUME NEW s \in Sockets, PeerCloses(s) PROVE UnsettledConnects'
  BY <1>6 DEF PeerCloses, TypeOK, UnsettledConnects
<1>7. ASSUME NEW s \in Sockets, ConnectTimesOut(s) PROVE UnsettledConnects'
  <2>1. GiveUp(s)
    BY <1>7 DEF ConnectTimesOut
  <2> QED
    BY <2>1 DEF GiveUp, TypeOK, UnsettledConnects
<1>8. ASSUME NEW j \in Jobs, GotConnection(j) \/ NoConnection(j) \/ AlreadyConnecting(j)
                              \/ Synced(j) \/ SyncFails(j)
      PROVE  UNCHANGED <<phase, waiter, socket>>
  BY <1>8 DEF GotConnection, NoConnection, AlreadyConnecting, Synced, SyncFails, clientVars
<1>9. ASSUME NEW r \in Calls, Request(r) \/ RepeatAtOnce(r) \/ AskToReconnect(r)
                               \/ Answer(r) \/ CallTimesOut(r) \/ CallAgain(r)
      PROVE  UNCHANGED <<phase, waiter, socket>>
  BY <1>9 DEF Request, RepeatAtOnce, AskToReconnect, Answer, CallTimesOut, CallAgain
<1>10. TimerFires \/ Wake \/ UNCHANGED vars => UNCHANGED <<phase, waiter, socket>>
  BY DEF TimerFires, Wake, vars, clientVars
<1> QED
  BY <1>1, <1>2, <1>3, <1>4, <1>5, <1>6, <1>7, <1>8, <1>9, <1>10 DEF Next

LEMMA ForgottenStep == BaseInv /\ NobodyForgotten /\ [Next]_vars => NobodyForgotten'
<1> SUFFICES ASSUME BaseInv, NobodyForgotten, [Next]_vars PROVE NobodyForgotten'
  OBVIOUS
<1> USE JobsLemma DEF NobodyForgotten
<1>0. /\ TypeOK /\ TypeOK' /\ DialTimed /\ AskersServed /\ AttemptFlagged /\ Awaited
      /\ pc \in [Jobs -> JobSteps]
      /\ waiter \in [Sockets -> Jobs \cup {None}]
  <2>1. BaseInv'
    BY BaseStep
  <2> QED
    BY <2>1 DEF BaseInv, TypeOK
<1>u. UnsettledConnects /\ UnsettledConnects'
  BY <1>0, UnsettledStep
<1>c. call \in [Calls -> CallStates] /\ Usable \in BOOLEAN
  BY <1>0 DEF TypeOK, Usable
<1>f. boot \in Flags /\ boot' \in Flags /\ Lateness \subseteq BOOLEAN
  BY <1>0, LatenessLemma DEF TypeOK
<1>s. /\ {"idle", "conn", "mint", "dial", "sync"} \subseteq JobSteps
      /\ {"boot", "attempt", "switch", "ask"} \subseteq Jobs
  BY DEF JobSteps, Jobs
\* A job moves on without a dial of its own beginning or ending.
<1>a. ASSUME NEW j \in Jobs, NEW step \in JobSteps,
             pc[j] # "dial", step # "dial", pc' = [pc EXCEPT ![j] = step],
             waiter' = waiter
      PROVE  DialTimed'
  <2>1. \A i \in Jobs : pc'[i] = "dial" <=> pc[i] = "dial"
    BY <1>0, <1>a
  <2> QED
    BY <1>0, <1>a, <2>1, DialKept
<1>1. ASSUME NEW j \in Jobs, GotConnection(j) PROVE NobodyForgotten'
  <2>1. /\ pc' = [pc EXCEPT ![j] = "mint"] /\ pc[j] = "conn"
        /\ waiter' = waiter /\ call' = call /\ boot' = boot
    BY <1>1 DEF GotConnection, clientVars
  <2>2. j = "attempt" => boot.reconnecting
    BY <1>0, <1>s, <2>1 DEF AttemptFlagged
  <2> QED
    BY <1>u, <1>0, <1>s, <1>a, AsksKept, <2>1, <2>2, FlagKept DEF Asking
<1>2. ASSUME NEW j \in Jobs, NoConnection(j) PROVE NobodyForgotten'
  <2>1. PICK late \in BOOLEAN :
          /\ pc' = [pc EXCEPT ![j] = "idle"] /\ pc[j] \in {"conn", "mint"}
          /\ boot' = JobFails(j, boot, state, late)
          /\ waiter' = waiter /\ call' = CallsAfter(j, call, FALSE)
    BY <1>f, <1>2 DEF NoConnection
  <2>a. boot'.reconnecting = (boot.reconnecting /\ j # "attempt")
    BY <1>f, <2>1, JobFailsLemma
  <2>2. /\ j # "attempt" => boot'.reconnecting = boot.reconnecting
        /\ j = "attempt" => ~boot'.reconnecting
    BY <1>f, <2>a DEF Flags
  <2>b. Asking' \subseteq Asking /\ (j = "ask" => Asking' = {})
    BY <1>c, <2>1, AfterAsk DEF Asking
  <2>3. DialTimed'
    BY <1>0, <1>s, <1>a, <2>1
  <2>4. AskersServed'
    BY <1>0, <1>s, AsksKept, <2>1, <2>b
  <2>5. AttemptFlagged'
    BY <1>0, <1>s, <2>1, <2>2, FlagKept
  <2> QED
    BY <1>u, <2>3, <2>4, <2>5
<1>3. ASSUME NEW j \in Jobs, AlreadyConnecting(j) PROVE NobodyForgotten'
  <2>1. /\ pc' = [pc EXCEPT ![j] = Next1(j)] /\ pc[j] = "mint"
        /\ boot' = Connected(j, boot)
        /\ waiter' = waiter /\ call' = CallsAfter(j, call, Usable)
    BY <1>3 DEF AlreadyConnecting
  <2>2. boot'.reconnecting = boot.reconnecting
    BY <1>f, <2>1, ConnectedLemma
  <2>b. Asking' \subseteq Asking /\ (j = "ask" => Asking' = {})
    BY <1>c, <2>1, AfterAsk DEF Asking
  <2>c. Next1(j) \in JobSteps \ {"dial"} /\ (Next1(j) = "sync" => j # "ask")
    BY <1>s DEF Next1
  <2>3. DialTimed'
    BY <1>0, <1>s, <1>a, <2>1, <2>c
  <2>4. AskersServed'
    BY <1>0, <1>s, AsksKept, <2>1, <2>b, <2>c
  <2>5. j = "attempt" => boot.reconnecting /\ Next1(j) # "idle"
    BY <1>0, <1>s, <2>1 DEF AttemptFlagged, Next1
  <2>6. AttemptFlagged'
    BY <1>0, <1>s, <2>1, <2>2, <2>5, FlagKept DEF Next1
  <2> QED
    BY <1>u, <2>3, <2>4, <2>6
<1>4. ASSUME NEW j \in Jobs, Connect(j) PROVE NobodyForgotten'
  <2>1. PICK s \in Sockets : Dial(s, j, aim[j])
    BY <1>4 DEF Connect
  <2>2. /\ pc' = [pc EXCEPT ![j] = "dial"] /\ pc[j] = "mint" /\ call' = call
        /\ waiter[s] = None /\ waiter' = [waiter EXCEPT ![s] = j]
        /\ boot' = Changed(boot, state, "connecting")
    BY <1>4, <2>1 DEF Connect, Dial, Gone
  <2>3. DialTimed'
    BY <1>0, <1>s, <2>2, DialKept
  <2>4. AskersServed'
    BY <1>0, <1>s, AsksKept, <2>2 DEF Asking
  <2>5. boot'.reconnecting = boot.reconnecting
    BY <1>f, <2>2, ChangedLemma
  <2>6. AttemptFlagged'
    BY <1>0, <1>s, <2>2, <2>5, FlagKept DEF AttemptFlagged
  <2> QED
    BY <1>u, <2>3, <2>4, <2>6
<1>5. ASSUME NEW j \in Jobs, Synced(j) \/ SyncFails(j) PROVE NobodyForgotten'
  <2>1. /\ pc' = [pc EXCEPT ![j] = "idle"] /\ pc[j] = "sync"
        /\ waiter' = waiter /\ call' = call
    BY <1>5 DEF Synced, SyncFails, clientVars
  <2>2. /\ j # "attempt" => boot'.reconnecting = boot.reconnecting
        /\ j = "attempt" => ~boot'.reconnecting
    <3>1. CASE j = "attempt" /\ Synced(j)
      <4>1. PICK late \in BOOLEAN : boot' = AttemptEnds(boot, state, late)
        BY <1>f, <3>1 DEF Synced
      <4> QED
        BY <1>f, <3>1, <4>1, AttemptEndsLemma
    <3>2. CASE j # "attempt" /\ Synced(j)
      BY <1>f, <3>2 DEF Synced, Flags
    <3>3. CASE SyncFails(j)
      <4>1. boot' = JobFails(j, boot, state, FALSE) /\ j # "attempt"
        BY <3>3 DEF SyncFails
      <4>2. boot'.reconnecting = (boot.reconnecting /\ j # "attempt")
        BY <1>f, <4>1, JobFailsLemma
      <4> QED
        BY <1>f, <4>1, <4>2 DEF Flags
    <3> QED
      BY <1>u, <1>5, <3>1, <3>2, <3>3
  <2>3. j # "ask"
    BY <2>1, <1>0, <1>s DEF AskersServed
  <2>4. DialTimed'
    BY <1>0, <1>s, <1>a, <2>1
  <2>5. AskersServed'
    BY <1>0, <1>s, AsksKept, <2>1, <2>3 DEF Asking
  <2>6. AttemptFlagged'
    BY <1>0, <1>s, <2>1, <2>2, FlagKept
  <2> QED
    BY <1>u, <2>4, <2>5, <2>6
<1>6. CASE TimerFires \/ Wake
  <2>1. PICK b : Attempt(b) /\ b.reconnecting = boot.reconnecting /\ b \in Flags
                 /\ waiter' = waiter /\ call' = call
    BY <1>f, <1>6 DEF TimerFires, Wake, clientVars, Flags
  <2>2. CASE b.reconnecting \/ b.switching \/ state = "open"
    <3>1. pc' = pc /\ boot' = b
      BY <2>1, <2>2 DEF Attempt
    <3> QED
      BY <1>u, <1>0, <1>s, <2>1, <3>1, DialKept DEF AskersServed, AttemptFlagged
  <2>3. CASE ~(b.reconnecting \/ b.switching \/ state = "open")
    <3>1. /\ pc' = [pc EXCEPT !["attempt"] = "conn"]
          /\ boot' = [b EXCEPT !.reconnecting = TRUE]
      BY <2>1, <2>3 DEF Attempt
    <3>2. pc["attempt"] = "idle" /\ boot'.reconnecting
      BY <2>1, <2>3, <3>1, <1>0, <1>s DEF AttemptFlagged, Flags
    <3> QED
      BY <1>u, <1>0, <1>s, <1>a, AsksKept, <2>1, <3>1, <3>2, FlagKept DEF Asking
  <2> QED
    BY <1>u, <2>2, <2>3
<1>7. CASE SoftSwitch
  <2>1. /\ pc' = [pc EXCEPT !["switch"] = "conn"] /\ pc["switch"] = "idle"
        /\ waiter' = waiter /\ call' \in {call, RejectAll(call)}
        /\ boot'.reconnecting = boot.reconnecting
    BY <1>f, <1>7 DEF SoftSwitch, Flags
  <2>b. Asking' \subseteq Asking
    BY <1>c, <2>1, RejectAsks DEF Asking
  <2>2. AskersServed'
    BY <1>0, <1>s, AsksKept, <2>1, <2>b
  <2> QED
    BY <1>u, <1>0, <1>s, <1>a, <2>1, <2>2, FlagKept
<1>8. ASSUME NEW s \in Sockets, SocketOpens(s) PROVE NobodyForgotten'
  <2>1. CASE socket = s /\ waiter[s] # None
    <3> DEFINE j == waiter[s]
    <3>1. /\ j \in Jobs /\ pc[j] = "dial"
          /\ pc' = [pc EXCEPT ![j] = Next1(j)]
          /\ waiter' = [waiter EXCEPT ![s] = None]
          /\ boot' = Connected(j, Changed(boot, state, "open"))
          /\ call' = CallsAfter(j, call, TRUE)
      BY <1>0, <1>s, <1>8, <2>1 DEF SocketOpens, HandshakeDone, Settle, DialTimed
    <3>2. Next1(j) \in JobSteps \ {"dial"} /\ (Next1(j) = "sync" <=> j # "ask")
      BY <1>0, <1>s DEF Next1
    <3>3. boot'.reconnecting = boot.reconnecting
      BY <1>f, <3>1, ChangedLemma, ConnectedLemma
    <3>4. DialTimed'
      BY <1>0, <1>s, <2>1, <3>1, <3>2, DialKept
    <3> HIDE DEF j
    <3>b. Asking' \subseteq Asking /\ (j = "ask" => Asking' = {})
      BY <1>c, <3>1, AfterAsk DEF Asking
    <3>5. AskersServed'
      BY <1>0, <1>s, AsksKept, <3>1, <3>2, <3>b
    <3>6. AttemptFlagged'
      BY <1>0, <1>s, <3>1, <3>2, <3>3, FlagKept DEF AttemptFlagged
    <3> QED
      BY <1>u, <3>4, <3>5, <3>6
  <2>2. CASE ~(socket = s /\ waiter[s] # None)
    <3>1. UNCHANGED <<pc, boot, call, waiter>>
      BY <1>8, <2>2 DEF SocketOpens, HandshakeDone
    <3> QED
      BY <1>u, <1>0, <1>s, <3>1, DialKept DEF AskersServed, AttemptFlagged
  <2> QED
    BY <1>u, <2>1, <2>2
<1>9. ASSUME NEW s \in Sockets, SocketFails(s) PROVE NobodyForgotten'
  <2>0. PICK late \in BOOLEAN :
          /\ phase[s] = "connecting" /\ Drop(s)
          /\ IF socket = s
               THEN LET j == waiter[s]
                        seen == Changed(boot, state, "error")
                    IN  /\ Settle(s, "idle")
                        /\ boot' = OnState(JobFails(j, seen, "error", late), "closed")
                        /\ call' = RejectAll(CallsAfter(j, call, FALSE))
               ELSE UNCHANGED <<pc, boot, call>>
    BY <1>f, <1>9 DEF SocketFails
  <2>1. CASE socket = s
    <3> DEFINE j == waiter[s]
               seen == Changed(boot, state, "error")
               after == JobFails(j, seen, "error", late)
               calls == CallsAfter(j, call, FALSE)
    <3>1. /\ waiter[s] # None /\ j \in Jobs /\ pc[j] = "dial"
          /\ pc' = [pc EXCEPT ![j] = "idle"]
          /\ waiter' = [waiter EXCEPT ![s] = None]
          /\ boot' = OnState(after, "closed")
          /\ call' = RejectAll(calls)
      BY <1>0, <1>s, <2>0, <2>1 DEF Drop, Settle, DialTimed, Awaited
    <3>2. calls \in [Calls -> CallStates]
      BY <1>c, <3>1, CallsAfterLemma
    <3>3. DialTimed'
      BY <1>0, <1>s, <3>1, DialKept
    <3>4. seen \in Flags /\ seen.reconnecting = boot.reconnecting
      BY <1>f, ChangedLemma
    <3>5. \A r \in Calls : calls[r] = "asking" => call[r] = "asking" /\ j # "ask"
      BY <1>c, <3>1, AfterAsk DEF Asking
    <3> HIDE DEF j, seen, calls
    <3>6. after \in Flags /\ after.reconnecting = (boot.reconnecting /\ j # "attempt")
      BY <3>1, <3>4, JobFailsLemma
    <3> HIDE DEF after
    <3>7. boot'.reconnecting = (boot.reconnecting /\ j # "attempt")
      BY <3>1, <3>6, OnStateLemma
    <3>b. Asking' \subseteq Asking /\ (j = "ask" => Asking' = {})
      BY <3>1, <3>2, <3>5, RejectAsks DEF Asking
    <3>8. AskersServed'
      BY <1>0, <1>s, AsksKept, <3>1, <3>b
    <3>c. /\ j # "attempt" => boot'.reconnecting = boot.reconnecting
          /\ j = "attempt" => ~boot'.reconnecting
      BY <1>f, <3>7 DEF Flags
    <3>9. AttemptFlagged'
      BY <1>0, <1>s, <3>1, <3>c, FlagKept
    <3> QED
      BY <1>u, <3>3, <3>8, <3>9
  <2>2. CASE socket # s
    <3>1. UNCHANGED <<pc, boot, call, waiter>>
      BY <2>0, <2>2 DEF Drop
    <3> QED
      BY <1>u, <1>0, <1>s, <3>1, DialKept DEF AskersServed, AttemptFlagged
  <2> QED
    BY <1>u, <2>1, <2>2
<1>10. ASSUME NEW s \in Sockets, PeerCloses(s) PROVE NobodyForgotten'
  <2>1. UNCHANGED <<pc, boot, call, waiter>>
    BY <1>10 DEF PeerCloses, bootVars
  <2> QED
    BY <1>u, <1>0, <1>s, <2>1, DialKept DEF AskersServed, AttemptFlagged
<1>11. ASSUME NEW s \in Sockets, SocketCloses(s) PROVE NobodyForgotten'
  <2>1. /\ pc' = pc /\ call' \in {call, RejectAll(call)}
        /\ boot' \in {boot, Changed(boot, state, "closed")}
    BY <1>11 DEF SocketCloses
  <2>2. boot'.reconnecting = boot.reconnecting
    BY <1>f, <2>1, ChangedLemma
  <2>3. Asking' \subseteq Asking
    BY <1>c, <2>1, RejectAsks DEF Asking
  <2>4. AskersServed' /\ AttemptFlagged'
    BY <1>0, <2>1, <2>2, <2>3 DEF AskersServed, Asking, AttemptFlagged
  \* No dial awaits a socket that has left its handshake while it is current.
  <2>5. waiter' = waiter
    BY <1>0, <1>11 DEF SocketCloses, Drop, UnsettledConnects, TypeOK
  <2>6. DialTimed'
    BY <1>0, <2>1, <2>5, DialKept
  <2> QED
    BY <1>u, <2>4, <2>6
<1>12. ASSUME NEW s \in Sockets, ConnectTimesOut(s) PROVE NobodyForgotten'
  <2> DEFINE j == waiter[s]
             seen == Changed(boot, state, state')
  <2>1. PICK late \in BOOLEAN :
          /\ GiveUp(s) /\ Settle(s, "idle")
          /\ boot' = JobFails(j, seen, state', late)
          /\ call' = CallsAfter(j, call, FALSE)
    BY <1>f, <1>12 DEF ConnectTimesOut
  <2>2. /\ waiter[s] # None /\ j \in Jobs /\ pc[j] = "dial"
        /\ pc' = [pc EXCEPT ![j] = "idle"]
        /\ waiter' = [waiter EXCEPT ![s] = None]
    BY <1>0, <2>1 DEF GiveUp, Settle, DialTimed
  <2>3. DialTimed'
    BY <1>0, <1>s, <2>2, DialKept
  <2>4. seen \in Flags /\ seen.reconnecting = boot.reconnecting
    BY <1>f, ChangedLemma
  <2> HIDE DEF j, seen
  <2>5. boot'.reconnecting = (boot.reconnecting /\ j # "attempt")
    BY <2>1, <2>2, <2>4, JobFailsLemma
  <2>6. /\ j # "attempt" => boot'.reconnecting = boot.reconnecting
        /\ j = "attempt" => ~boot'.reconnecting
    BY <1>f, <2>5 DEF Flags
  <2>7. Asking' \subseteq Asking /\ (j = "ask" => Asking' = {})
    BY <1>c, <2>1, <2>2, AfterAsk DEF Asking
  <2>8. AskersServed'
    BY <1>0, <1>s, AsksKept, <2>2, <2>7
  <2>9. AttemptFlagged'
    BY <1>0, <1>s, <2>2, <2>6, FlagKept
  <2> QED
    BY <1>u, <2>3, <2>8, <2>9
<1>13. ASSUME NEW r \in Calls,
              Request(r) \/ RepeatAtOnce(r) \/ Answer(r) \/ CallTimesOut(r) \/ CallAgain(r)
       PROVE  NobodyForgotten'
  <2>1. UNCHANGED <<waiter, pc, boot>>
    BY <1>13 DEF Request, RepeatAtOnce, Answer, CallTimesOut, CallAgain, bootVars
  <2>2. Asking' \subseteq Asking
    BY <1>c, <1>13 DEF Request, Send, RepeatAtOnce, Answer, Answered, CallTimesOut,
                       CallGivesUp, CallAgain, Asking
  <2> QED
    BY <1>u, <1>0, <2>1, <2>2, DialKept DEF AskersServed, Asking, AttemptFlagged
<1>14. ASSUME NEW r \in Calls, AskToReconnect(r) PROVE NobodyForgotten'
  <2>1. /\ UNCHANGED <<waiter, boot>>
        /\ pc' = [pc EXCEPT !["ask"] = IF pc["ask"] = "idle" THEN "conn" ELSE @]
    BY <1>0, <1>14 DEF AskToReconnect
  <2>2. pc'["ask"] \notin {"idle", "sync"} /\ (\A i \in Jobs : i # "ask" => pc'[i] = pc[i])
        /\ (pc'["ask"] = "dial" <=> pc["ask"] = "dial")
    BY <1>0, <1>s, <2>1 DEF AskersServed
  <2>3. DialTimed'
    BY <1>0, <2>1, <2>2, DialKept
  <2> QED
    BY <1>u, <1>0, <1>s, <2>1, <2>2, <2>3 DEF AskersServed, AttemptFlagged
<1>15. CASE UNCHANGED vars
  BY <1>u, <1>0, <1>15, DialKept DEF vars, clientVars, bootVars, AskersServed, AttemptFlagged
<1> QED
  BY <1>1, <1>2, <1>3, <1>4, <1>5, <1>6, <1>7, <1>8, <1>9, <1>10, <1>11, <1>12,
     <1>13, <1>14, <1>15 DEF Next

(* For every interleaving, also of a switch with any job: whoever waits    *)
(* for a connection waits for a step that is still to come.  A dial has a  *)
(* socket whose timer is armed until it settles; a call that asked for a   *)
(* new connection has a dial under way; the flag that keeps other attempts *)
(* out is cleared when the attempt ends.                                   *)
THEOREM NobodyWaitsInVain == Spec => []NobodyForgotten
<1> QED
  BY BaseInit, BaseStep, ForgottenInit, ForgottenStep, PTL DEF Spec

(* The application is left without a connection and without anybody who    *)
(* sees to it in one place only: where the refresh of boot or of a change  *)
(* of backend ends, after its connection was lost under it or was never    *)
(* there (connect() had returned early on the dial of another job).        *)
StrandedOnlyByRefresh == [][NeverStranded /\ ~NeverStranded' => RefreshEnds]_vars

(* For every interleaving of switches, dials and losses: no failed or      *)
(* overtaken dial, no attempt, timer, wake-up or close strands the         *)
(* application.                                                            *)
THEOREM StrandedOnlyThere == Spec => StrandedOnlyByRefresh
<1>1. BaseInv /\ NobodyForgotten /\ [Next]_vars =>
        [NeverStranded /\ ~NeverStranded' => RefreshEnds]_vars
  BY StrandStep DEF NobodyForgotten, AskersServed
<1> QED
  BY <1>1, BaseInit, BaseStep, ForgottenInit, ForgottenStep, PTL
     DEF Spec, StrandedOnlyByRefresh
=============================================================================
