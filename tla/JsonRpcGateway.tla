--------------------------- MODULE JsonRpcGateway ---------------------------
(***************************************************************************)
(* The WebSocket client of the desktop application                         *)
(* (ui-desktop/packages/shared/src/json-rpc-gateway.ts): its current       *)
(* socket, the connection state it reports, the dials that await a socket  *)
(* and the calls that await an answer.                                     *)
(*                                                                         *)
(* JavaScript runs one task at a time, so an operation below is what one   *)
(* task does to the client.  The listeners of the reported state belong to *)
(* whoever uses the client: GatewayBoot composes these operations with     *)
(* them, in the order in which the task runs them.                         *)
(*                                                                         *)
(* A socket outlives its being current: the browser goes on with its       *)
(* handshake or its close, and the promise of connect() with its timer.    *)
(***************************************************************************)
EXTENDS Integers, FiniteSets

CONSTANTS Sockets,   \* sockets that can exist at once (bound)
          Dialers,   \* the callers of connect()
          Calls,     \* the callers of request(): each has one call at a time
          None

ASSUME NoneAssumption == None \notin Sockets \cup Dialers

VARIABLES phase,     \* readyState of each socket, as the browser has it
          waiter,    \* whose connect() awaits the socket, its timer armed
          backend,   \* the backend a socket dials
          socket,    \* this.socket
          state,     \* this.state, what connectionState reports
          call,      \* where the call of each caller stands
          via        \* the socket a call was sent on

clientVars == <<phase, waiter, backend, socket, state, call, via>>

Pending == {"sent", "resent"}

CallStates == Pending \cup {"idle", "rejected", "asking", "ok", "failed"}

(* readyState === OPEN of the current socket.                              *)
Usable == socket # None /\ phase[socket] = "open"

(* A socket the browser is done with and nobody awaits may stand for a new *)
(* one.                                                                    *)
Gone(s) == phase[s] = "closed" /\ waiter[s] = None /\ socket # s

ClientInit == /\ phase = [s \in Sockets |-> "closed"]
              /\ waiter = [s \in Sockets |-> None]
              /\ backend = [s \in Sockets |-> 0]
              /\ socket = None
              /\ state = "idle"
              /\ call = [r \in Calls |-> "idle"]
              /\ via = [r \in Calls |-> None]

(***************************************************************************)
(* connect()                                                               *)
(***************************************************************************)
(* The early return: no socket is opened and the caller goes on.           *)
ConnectReturnsEarly == Usable \/ state = "connecting"

(* A new socket becomes the current one, whatever the last one is up to.   *)
Dial(s, d, target) == /\ Gone(s)
                      /\ phase' = [phase EXCEPT ![s] = "connecting"]
                      /\ waiter' = [waiter EXCEPT ![s] = d]
                      /\ backend' = [backend EXCEPT ![s] = target]
                      /\ socket' = s
                      /\ state' = "connecting"

(* onOpen: nothing is settled for a socket that is no longer current.      *)
HandshakeDone(s) == /\ phase[s] = "connecting"
                    /\ phase' = [phase EXCEPT ![s] = "open"]
                    /\ IF socket = s /\ waiter[s] # None
                         THEN /\ waiter' = [waiter EXCEPT ![s] = None]
                              /\ state' = "open"
                         ELSE UNCHANGED <<waiter, state>>
                    /\ UNCHANGED <<backend, socket>>

\* Mutant of Drop: the close listener drops the socket and forgets to say so.
DropSilently(s) == /\ phase' = [phase EXCEPT ![s] = "closed"]
                   /\ IF socket = s
                        THEN /\ waiter' = [waiter EXCEPT ![s] = None]
                             /\ socket' = None
                        ELSE UNCHANGED <<waiter, socket>>
                   /\ UNCHANGED <<backend, state>>

(* The browser reports an error and then a close, in one task: onError     *)
(* settles the dial and the close listener drops the socket.  Both ignore  *)
(* a socket that is not current, whose dial is left to its timer.          *)
Drop(s) == /\ phase' = [phase EXCEPT ![s] = "closed"]
           /\ IF socket = s
                THEN /\ waiter' = [waiter EXCEPT ![s] = None]
                     /\ socket' = None
                     /\ state' = "closed"
                ELSE UNCHANGED <<waiter, socket, state>>
           /\ UNCHANGED backend

\* Mutant of TimeoutState: a state that is no ConnectionState.
TimeoutStateUnknown(s) == "timeout"

(* The timer of a dial: it reports an error whether or not the socket it   *)
(* gives up is still the current one.                                      *)
TimeoutState(s) == "error"

GiveUp(s) == /\ waiter[s] # None
             /\ waiter' = [waiter EXCEPT ![s] = None]
             /\ IF socket = s
                  THEN /\ socket' = None
                       /\ phase' = [phase EXCEPT ![s] = "closing"]
                  ELSE UNCHANGED <<socket, phase>>
             /\ state' = TimeoutState(s)
             /\ UNCHANGED backend

\* Mutant of HangUp: the socket is forgotten without being closed.
HangUpLeavesSocket == IF socket = None
                        THEN UNCHANGED <<phase, socket, state>>
                        ELSE /\ socket' = None
                             /\ state' = "closed"
                             /\ UNCHANGED phase

(* close(): a client without a socket reports what it reported before.  A  *)
(* dial that awaits the socket stays unsettled.                            *)
HangUp == IF socket = None
            THEN UNCHANGED <<phase, socket, state>>
            ELSE /\ phase' = [phase EXCEPT ![socket] = "closing"]
                 /\ socket' = None
                 /\ state' = "closed"

(***************************************************************************)
(* request()                                                               *)
(***************************************************************************)
\* Mutant of RejectAll: only calls that may be repeated are rejected.
RejectFirstAttempts(calls) ==
  [r \in Calls |-> IF calls[r] = "sent" THEN "rejected" ELSE calls[r]]

(* rejectAllPending: every call that awaits an answer fails, whichever     *)
(* socket it went out on.  The first attempt of a call may be repeated.    *)
RejectAll(calls) == [r \in Calls |-> CASE calls[r] = "sent"   -> "rejected"
                                       [] calls[r] = "resent" -> "failed"
                                       [] OTHER               -> calls[r]]

(* A call is sent on an open current socket, or rejected at once.          *)
Send(r) == /\ call[r] = "idle"
           /\ call' = [call EXCEPT ![r] = IF Usable THEN "sent" ELSE "rejected"]
           /\ via' = [via EXCEPT ![r] = socket]

(* An answer counts only on the current socket.                            *)
Answered(r) == /\ call[r] \in Pending
               /\ via[r] = socket
               /\ phase[socket] \in {"open", "closing"}
               /\ call' = [call EXCEPT ![r] = "ok"]
               /\ UNCHANGED via

(* The call's own timer, or its AbortSignal.                               *)
CallGivesUp(r) == /\ call[r] \in Pending
                  /\ call' = [call EXCEPT ![r] = "failed"]
                  /\ UNCHANGED via
=============================================================================
