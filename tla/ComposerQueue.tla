---------------------------- MODULE ComposerQueue ----------------------------
(***************************************************************************)
(* Prompts queued behind a running turn of the desktop application         *)
(* (ui-desktop/src/store/composer-queue.ts), the two drainers that send    *)
(* them on, of the composer on screen (use-composer-queue.ts) and of every *)
(* other session (use-background-queue-drain.ts), the submit pipeline they *)
(* share (use-prompt-actions/submit.ts), and the inbox of the server.      *)
(*                                                                         *)
(* A drainer is an effect: it runs when what it depends on has changed,    *)
(* and nobody runs it otherwise.                                           *)
(***************************************************************************)
EXTENDS Integers, SequencesExt

CONSTANTS Sessions, Composer, None,
          MaxPrompts,       \* prompts that are ever queued (bound)
          Home,             \* the session the user queues each of them for
          MaxTries,         \* MAX_AUTO_DRAIN_ATTEMPTS
          MaxFailures,      \* once the drainers have counted so many failures
                            \* the user stays on a session (bound)
          SlowMiddleware,   \* a contributed middleware takes its time
          AcksLost          \* a prompt arrives and its answer does not

Prompts == 1..MaxPrompts
Drainers == {Composer} \cup Sessions

ASSUME QueueAssumption ==
  /\ Composer \notin Sessions /\ None \notin Sessions
  /\ MaxPrompts \in Nat /\ Home \in [Prompts -> Sessions]
  /\ MaxTries \in Nat \ {0} /\ MaxFailures \in Nat
  /\ {SlowMiddleware, AcksLost} \subseteq BOOLEAN

VARIABLES queue,      \* $queuedPromptsBySession, kept in local storage
          parked,     \* $parkedQueueSessions
          route,      \* the session of the composer's queue key
          view,       \* the session selected and resumed, a moment behind it
          busy,       \* $sessionStates[..].busy
          interrupted,   \* .interrupted: the user has stopped the turn
          awaiting,   \* .awaitingResponse, and nothing of the answer yet
          lock,       \* _submitInFlight
          job,        \* what each drainer is sending
          fails,      \* drainFailuresRef of each drainer
          due,        \* the effect of the background drainer is to run
          retry,      \* a timer of retryTimersRef is set; several count as one
          pending,    \* prompts in the inbox of the server or in its turn
          active,     \* turn_active of the server
          served,     \* history: the prompts the server was given
          last,       \* the prompt queued last
          held        \* history: prompts that were waiting when the user
                      \* stopped their queue and has not asked for since

uiVars == <<route, view>>
queueVars == <<queue, parked, last, held>>
turnVars == <<busy, interrupted, awaiting>>
sendVars == <<lock, job, fails, retry>>
serverVars == <<pending, active, served>>
vars == <<uiVars, queueVars, turnVars, sendVars, serverVars, due>>

Idle == [step |-> "idle", prompt |-> 0, to |-> None, rt |-> None,
         here |-> FALSE, auto |-> FALSE]

Steps == {"idle", "asked", "resume", "attach", "sent", "again", "last", "done"}

Jobs == [step: Steps,
         prompt: 0..MaxPrompts,
         to: Sessions \cup {None},     \* storedSessionId
         rt: Sessions \cup {None},     \* sessionId, by the session it runs
         here: BOOLEAN,                \* targetStartedInCurrentView
         auto: BOOLEAN]                \* its failures count

TypeOK == /\ queue \in [Sessions -> Seq(Prompts)]
          /\ parked \in [Sessions -> BOOLEAN]
          /\ route \in Sessions /\ view \in Sessions
          /\ busy \in [Sessions -> BOOLEAN]
          /\ interrupted \subseteq Sessions /\ awaiting \subseteq Sessions
          /\ lock \subseteq Sessions
          /\ job \in [Drainers -> Jobs]
          /\ fails \in [Drainers -> [Prompts -> 0..MaxTries]]
          /\ due \in BOOLEAN
          /\ retry \in BOOLEAN
          /\ pending \in [Sessions -> Nat]
          /\ active \subseteq Sessions
          /\ served \in [Sessions -> Seq(Prompts)]
          /\ last \in 0..MaxPrompts
          /\ held \in [Sessions -> SUBSET Prompts]

(* Any session may be in the middle of a turn.                             *)
Init == /\ queue = [s \in Sessions |-> <<>>]
        /\ parked = [s \in Sessions |-> FALSE]
        /\ route \in Sessions
        /\ view = route
        /\ pending \in [Sessions -> {0, 1}]
        /\ active = {s \in Sessions : pending[s] > 0}
        /\ busy = [s \in Sessions |-> s \in active]
        /\ interrupted = {} /\ awaiting = {}
        /\ lock = {}
        /\ job = [d \in Drainers |-> Idle]
        /\ fails = [d \in Drainers |-> [p \in Prompts |-> 0]]
        /\ due = TRUE
        /\ retry = FALSE
        /\ served = [s \in Sessions |-> <<>>]
        /\ last = 0
        /\ held = [s \in Sessions |-> {}]

(***************************************************************************)
(* The queue                                                               *)
(***************************************************************************)
Elements(q) == {q[i] : i \in DOMAIN q}

(* removeQueuedPrompt                                                      *)
Without(q, p) == IF p \in Elements(q)
                   THEN RemoveAt(q, CHOOSE i \in DOMAIN q : q[i] = p)
                   ELSE q

(* promoteQueuedPrompt                                                     *)
Promoted(q, p) == IF p \in Elements(q) THEN <<p>> \o Without(q, p) ELSE q

(* writeSession and setParked: an empty queue is not parked.               *)
Write(s, q, park) ==
  /\ queue' = [queue EXCEPT ![s] = q]
  /\ parked' = [parked EXCEPT ![s] = park /\ q # <<>>]

(***************************************************************************)
(* The effect of the background drainer is due once what it depends on has *)
(* changed, or its timer has fired.                                        *)
(***************************************************************************)
Deps == <<queue, parked, view, busy>>

Changed == Deps' # Deps \/ (retry /\ ~retry')

Noted == due' = (due \/ Changed)

(* No microtask of a drainer is waiting: the next task of the browser may  *)
(* run.  The composer awaits its middleware, which answers in a microtask  *)
(* unless a contributed one takes its time.                                *)
Quiet == \A d \in Drainers :
           job[d].step \in {"asked", "done"} => d = Composer /\ SlowMiddleware

(***************************************************************************)
(* The submit pipeline, of a drainer d that sends job j                    *)
(***************************************************************************)
(* Mutant of Runtimes: the runtime id of the view is taken on trust.       *)
RuntimesUnchecked(j) == {IF j.rt = None THEN j.to ELSE j.rt, None}

(* The runtime the prompt is to run in.  A runtime id that does not belong *)
(* to the stored session is not used: the composer has its queue key from  *)
(* the route and its runtime id from the view.                             *)
Runtimes(j) == {j.to, None}

(* seedOptimistic, dropOptimistic and releaseBusy act on the session that  *)
(* runs the prompt, or on what is on screen while there is none.           *)
Shown(j) == IF j.rt # None THEN {j.rt} ELSE IF j.here THEN {j.to} ELSE {}

SetBusy(j, b) == busy' = [s \in Sessions |-> IF s \in Shown(j) THEN b ELSE busy[s]]

Seed(j) == /\ SetBusy(j, TRUE)
           /\ interrupted' = interrupted \ {j.rt}
           /\ awaiting' = awaiting \cup ({j.rt} \cap Sessions)

Unseed(j) == /\ SetBusy(j, FALSE)
             /\ awaiting' = awaiting \ {j.rt}
             /\ UNCHANGED interrupted

(* Mutant of Counted: nobody sets the timer.                               *)
CountedNoTimer(d, j) ==
  IF j.auto
    THEN /\ fails' = [fails EXCEPT ![d][j.prompt] = IF @ < MaxTries THEN @ + 1 ELSE @]
         /\ UNCHANGED retry
    ELSE UNCHANGED <<fails, retry>>

(* onFail: the background drainer tries again after a while.               *)
Counted(d, j) ==
  IF j.auto
    THEN /\ fails' = [fails EXCEPT ![d][j.prompt] =
                        IF @ < MaxTries THEN @ + 1 ELSE @]
         /\ retry' = (retry \/ (d # Composer /\ fails'[d][j.prompt] < MaxTries))
    ELSE UNCHANGED <<fails, retry>>

(* The finally of the background drainer comes a few microtasks after its  *)
(* submit has ended.                                                       *)
Ended(d) == IF d = Composer
              THEN Idle
              ELSE [Idle EXCEPT !.step = "done", !.prompt = job[d].prompt]

(* Mutant of Submit: the lock of the session is not looked at.             *)
SubmitUnlocked(d) ==
  \E rt \in Runtimes(job[d]) :
    LET k == [job[d] EXCEPT !.rt = rt, !.here = (view = job[d].to),
                            !.step = IF rt = None THEN "resume" ELSE "attach"]
    IN  /\ lock' = lock \cup {k.to}
        /\ job' = [job EXCEPT ![d] = k]
        /\ Seed(k)
        /\ UNCHANGED <<fails, retry>>

(* submitText, when the middleware or the microtask before it is done.     *)
Submit(d) ==
  LET j == job[d] IN
  IF j.to \in lock
    THEN /\ job' = [job EXCEPT ![d] = Ended(d)]
         /\ Counted(d, j)
         /\ UNCHANGED <<turnVars, lock>>
    ELSE \E rt \in Runtimes(j) :
           LET k == [j EXCEPT !.rt = rt, !.here = (view = j.to),
                              !.step = IF rt = None THEN "resume" ELSE "attach"]
           IN  /\ lock' = lock \cup {j.to}
               /\ job' = [job EXCEPT ![d] = k]
               /\ Seed(k)
               /\ UNCHANGED <<fails, retry>>

(* The background drainer looks the prompt up again before it sends it;    *)
(* the composer sends what it picked.                                      *)
Submits(d) ==
  /\ job[d].step = "asked"
  /\ IF d = Composer \/ job[d].prompt \in Elements(queue[d])
       THEN Submit(d)
       ELSE /\ job' = [job EXCEPT ![d] = Ended(d)]
            /\ UNCHANGED <<turnVars, lock, fails, retry>>
  /\ UNCHANGED <<uiVars, queueVars, serverVars>>
  /\ Noted

(* runDrain: the composer's drainer takes a prompt, its key and the runtime*)
(* on screen.                                                              *)
Drain(p, auto) ==
  /\ job[Composer].step = "idle"
  /\ job' = [job EXCEPT ![Composer] =
               [Idle EXCEPT !.step = "asked", !.prompt = p, !.to = route,
                            !.rt = view, !.auto = auto]]

(* sessionDriftReason: the user has left the session since.                *)
Drifted(j) == j.here /\ view # j.to

(* session.resume gives the stored session a runtime.                      *)
Resumed(d) == LET j == [job[d] EXCEPT !.rt = job[d].to, !.step = "attach"] IN
  /\ Quiet
  /\ job[d].step = "resume"
  /\ ~Drifted(job[d])
  /\ job' = [job EXCEPT ![d] = j]
  /\ Seed(j)
  /\ UNCHANGED <<uiVars, queueVars, lock, fails, retry, serverVars>>
  /\ Noted

(* prompt.submit arrives: prompt_submit puts the prompt into the inbox and *)
(* announces a turn, which the client ignores once the user has stopped it.*)
Delivered(d) == LET j == job[d] IN
  /\ Quiet
  /\ j.step \in {"attach", "again"}
  /\ ~Drifted(j)
  /\ served' = [served EXCEPT ![j.rt] = Append(@, j.prompt)]
  /\ pending' = [pending EXCEPT ![j.rt] = @ + 1]
  /\ active' = active \cup {j.rt}
  /\ job' = [job EXCEPT ![d].step = IF AcksLost /\ @ = "again" THEN "last" ELSE "sent"]
  /\ IF j.rt \in interrupted THEN UNCHANGED turnVars ELSE Seed(j)
  /\ UNCHANGED <<uiVars, queueVars, lock, fails, retry>>
  /\ Noted

(* withSessionNotFoundResume: the server does not know the runtime any more,*)
(* or its answer does not come.  The session is resumed and the prompt is   *)
(* submitted once more.                                                    *)
Recovers(d) == LET j == job[d] IN
  /\ Quiet
  /\ \/ j.step = "attach" /\ ~Drifted(j)
     \/ AcksLost /\ j.step = "sent"
  /\ job' = [job EXCEPT ![d].step = "again"]
  /\ UNCHANGED <<uiVars, queueVars, turnVars, lock, fails, retry, serverVars>>
  /\ Noted

(* Mutant of Accepted: the prompt at the head is taken for the one that was*)
(* sent.                                                                   *)
AcceptedHead(d) == LET j == job[d] IN
  /\ Quiet
  /\ j.step \in {"sent", "last"}
  /\ lock' = lock \ {j.to}
  /\ Write(j.to, IF queue[j.to] = <<>> THEN <<>> ELSE Tail(queue[j.to]),
           parked[j.to] /\ d # Composer)
  /\ fails' = [fails EXCEPT ![d][j.prompt] = 0]
  /\ job' = [job EXCEPT ![d] = Ended(d)]
  /\ held' = [held EXCEPT ![j.to] = IF d = Composer /\ ~j.auto THEN {} ELSE @]
  /\ UNCHANGED <<uiVars, last, turnVars, retry, serverVars>>
  /\ Noted

(* The submit was accepted: only now does the prompt leave the queue.  The *)
(* composer takes it as a sign that the queue flows again.                 *)
Accepted(d) == LET j == job[d]
                   rest == Without(queue[j.to], j.prompt) IN
  /\ Quiet
  /\ j.step \in {"sent", "last"}
  /\ lock' = lock \ {j.to}
  /\ Write(j.to, rest, parked[j.to] /\ d # Composer)
  /\ fails' = [fails EXCEPT ![d][j.prompt] = 0]
  /\ job' = [job EXCEPT ![d] = Ended(d)]
  /\ held' = [held EXCEPT ![j.to] = IF d = Composer /\ ~j.auto THEN {} ELSE @]
  /\ UNCHANGED <<uiVars, last, turnVars, retry, serverVars>>
  /\ Noted

(* A step of the pipeline is refused, times out or is overtaken by a       *)
(* change of session.                                                      *)
Fails(d) == LET j == job[d] IN
  /\ Quiet
  /\ \/ j.step \in {"resume", "attach", "again"}
     \/ AcksLost /\ j.step \in {"sent", "last"}
  /\ lock' = lock \ {j.to}
  /\ job' = [job EXCEPT ![d] = Ended(d)]
  /\ Unseed(j)
  /\ Counted(d, j)
  /\ UNCHANGED <<uiVars, queueVars, serverVars>>
  /\ Noted

Finishes(d) == /\ job[d].step = "done"
               /\ job' = [job EXCEPT ![d] = Idle]
               /\ UNCHANGED <<uiVars, queueVars, turnVars, lock, fails,
                              retry, serverVars>>
               /\ Noted

(***************************************************************************)
(* The two effects.  Each looks at the head of a queue and at nothing else.*)
(* That of the composer may run at any time: everything that renders the   *)
(* composer with a new callback runs it.                                   *)
(***************************************************************************)
(* Mutant of Gate: a queue is sent from whether it is parked or not.       *)
GateIgnoringPark(s, d, working) == /\ queue[s] # <<>>
                                   /\ ~working
                                   /\ job[d].step = "idle"
                                   /\ fails[d][Head(queue[s])] < MaxTries

(* shouldAutoDrain, the drainer's own flag and its count of failures.      *)
Gate(s, d, working) == /\ queue[s] # <<>>
                       /\ ~working /\ ~parked[s]
                       /\ job[d].step = "idle"
                       /\ fails[d][Head(queue[s])] < MaxTries

ComposerEffect ==
  /\ Gate(route, Composer, busy[view])
  /\ Drain(Head(queue[route]), TRUE)
  /\ UNCHANGED <<uiVars, queueVars, turnVars, lock, fails, retry, serverVars>>
  /\ Noted

BackgroundEffect ==
  /\ due
  /\ LET idle == {s \in Sessions \ {view} : Gate(s, s, busy[s])} IN
     job' = [d \in Drainers |->
               IF d \in idle THEN [Idle EXCEPT !.step = "asked", !.to = d,
                                     !.prompt = Head(queue[d]), !.auto = TRUE]
                             ELSE job[d]]
  /\ due' = FALSE
  /\ UNCHANGED <<uiVars, queueVars, turnVars, lock, fails, retry, serverVars>>

(* The retry timer, long after what set it.                                *)
RetryTimer == /\ Quiet
              /\ retry
              /\ retry' = FALSE
              /\ UNCHANGED <<uiVars, queueVars, turnVars, lock, job, fails,
                             serverVars>>
              /\ Noted

(***************************************************************************)
(* The user, at the composer of the session on screen                      *)
(***************************************************************************)
Enqueue == LET p == last + 1 IN
  /\ Quiet
  /\ p \in Prompts
  /\ Home[p] = route
  /\ busy[view]
  /\ last' = p
  /\ Write(route, Append(queue[route], p), FALSE)
  /\ held' = [held EXCEPT ![route] = {}]
  /\ UNCHANGED <<uiVars, turnVars, sendVars, serverVars>>
  /\ Noted

Delete(p) == LET rest == Without(queue[route], p) IN
  /\ Quiet
  /\ p \in Elements(queue[route])
  /\ Write(route, rest, parked[route])
  /\ held' = [held EXCEPT ![route] = @ \ {p}]
  /\ UNCHANGED <<uiVars, last, turnVars, sendVars, serverVars>>
  /\ Noted

(* cancelRun: the client is idle at once.  The server is asked to interrupt*)
(* the turn, whose end comes later (TurnEnds), and what it announces until *)
(* the next submit is ignored.                                             *)
CancelRun(s) == /\ busy' = [busy EXCEPT ![s] = FALSE]
                /\ interrupted' = interrupted \cup {s}
                /\ awaiting' = awaiting \ {s}

(* sendQueuedNow of a busy session.                                        *)
PromoteNow(p) ==
  /\ Quiet
  /\ p \in Elements(queue[route])
  /\ busy[view]
  /\ Write(route, Promoted(queue[route], p), FALSE)
  /\ CancelRun(view)
  /\ held' = [held EXCEPT ![route] = {}]
  /\ UNCHANGED <<uiVars, last, sendVars, serverVars>>
  /\ Noted

SendNow(p) ==
  /\ Quiet
  /\ p \in Elements(queue[route])
  /\ ~busy[view]
  /\ IF job[Composer].step = "idle"
       THEN /\ Drain(p, FALSE)
            /\ held' = [held EXCEPT ![route] = @ \ {p}]
       ELSE UNCHANGED <<job, held>>
  /\ fails' = [fails EXCEPT ![Composer][p] = 0]
  /\ UNCHANGED <<uiVars, queue, parked, last, turnVars, lock, retry, serverVars>>
  /\ Noted

(* Enter on an empty composer: drainNextQueued.                            *)
SendNext ==
  /\ Quiet
  /\ queue[route] # <<>>
  /\ ~busy[view]
  /\ Drain(Head(queue[route]), FALSE)
  /\ held' = [held EXCEPT ![route] = @ \ {Head(queue[route])}]
  /\ UNCHANGED <<uiVars, queue, parked, last, turnVars, lock, fails, retry,
                 serverVars>>
  /\ Noted

(* Resume on the queue panel.                                              *)
Resume ==
  /\ Quiet
  /\ queue[route] # <<>>
  /\ Write(route, queue[route], FALSE)
  /\ held' = [held EXCEPT ![route] = {}]
  /\ IF ~busy[view] /\ job[Composer].step = "idle"
       THEN Drain(Head(queue[route]), FALSE)
       ELSE UNCHANGED job
  /\ UNCHANGED <<uiVars, last, turnVars, lock, fails, retry, serverVars>>
  /\ Noted

(* The prompts of the session on screen nobody is sending.  None counts    *)
(* when the composer is sending one of them.                               *)
Waiting == IF job[Composer].to = route
             THEN {}
             ELSE Elements(queue[route]) \ {job[d].prompt : d \in Drainers}

(* haltRun: Stop or Esc, at any time of a turn, of the client or of a drain.*)
Halt ==
  /\ Quiet
  /\ busy[view]
  /\ Write(route, queue[route], TRUE)
  /\ CancelRun(view)
  /\ held' = [held EXCEPT ![route] = Waiting]
  /\ UNCHANGED <<uiVars, last, sendVars, serverVars>>
  /\ Noted

(* The failures the drainers have counted.                                 *)
Failures == LET Counts(d) == FoldFunction(+, 0, fails[d])
            IN  FoldFunction(+, 0, [d \in Drainers |-> Counts(d)])

(* The route changes first; the selection and its runtime id follow.       *)
Navigate(s) == /\ Quiet
               /\ s # route
               /\ Failures < MaxFailures
               /\ route' = s
               /\ UNCHANGED <<view, queueVars, turnVars, sendVars, serverVars>>
               /\ Noted

Arrive == /\ Quiet
          /\ view # route
          /\ view' = route
          /\ UNCHANGED <<route, queueVars, turnVars, sendVars, serverVars>>
          /\ Noted

(***************************************************************************)
(* The server and the application as a whole                               *)
(***************************************************************************)
(* Mutant of TurnEnds: an end is reported without a turn.                  *)
TurnEndsUnasked(s) == /\ Quiet
                      /\ pending' = [pending EXCEPT ![s] = @ - 1]
                      /\ active' = active \ {s}
                      /\ busy' = [busy EXCEPT ![s] = FALSE]
                      /\ awaiting' = awaiting \ {s}
                      /\ UNCHANGED <<uiVars, queueVars, interrupted, sendVars,
                                     served>>
                      /\ Noted

(* The worker is done with a turn, or it was interrupted: message.complete *)
(* settles the session, also when its inbox is not empty.                  *)
TurnEnds(s) == /\ Quiet
               /\ pending[s] > 0
               /\ pending' = [pending EXCEPT ![s] = @ - 1]
               /\ active' = active \ {s}
               /\ busy' = [busy EXCEPT ![s] = FALSE]
               /\ awaiting' = awaiting \ {s}
               /\ UNCHANGED <<uiVars, queueVars, interrupted, sendVars, served>>
               /\ Noted

(* message.complete is lost with the connection.                           *)
EndUnheard(s) == /\ Quiet
                 /\ pending[s] > 0
                 /\ pending' = [pending EXCEPT ![s] = @ - 1]
                 /\ active' = active \ {s}
                 /\ UNCHANGED <<uiVars, queueVars, turnVars, sendVars, served>>
                 /\ Noted

(* The first frames of a turn, which the client drops when it has been     *)
(* stopped.                                                                *)
AnswerStarts(s) == /\ Quiet
                   /\ pending[s] > 0
                   /\ active' = active \cup {s}
                   /\ awaiting' = awaiting \ ({s} \ interrupted)
                   /\ UNCHANGED <<uiVars, queueVars, busy, interrupted, sendVars,
                                  pending, served>>
                   /\ Noted

(* session.info, which the server publishes at the end of a turn, on every *)
(* resume and change of settings.                                          *)
ToldRunning(s) == /\ Quiet
                  /\ s \in active \ interrupted
                  /\ busy' = [busy EXCEPT ![s] = TRUE]
                  /\ UNCHANGED <<uiVars, queueVars, interrupted, awaiting, sendVars,
                                 serverVars>>
                  /\ Noted

ToldIdle(s) == /\ Quiet
               /\ s \notin active \cup awaiting
               /\ busy' = [busy EXCEPT ![s] = FALSE]
               /\ UNCHANGED <<uiVars, queueVars, interrupted, awaiting, sendVars,
                              serverVars>>
               /\ Noted

(* The application is loaded again: the queue is in local storage, parks   *)
(* and counts are not.                                                     *)
Restart ==
  /\ Quiet
  /\ AcksLost \/ \A d \in Drainers : job[d].step \notin {"sent", "last"}
  /\ parked' = [s \in Sessions |-> FALSE]
  /\ view' = route
  /\ \E shown \in SUBSET active :
       busy' = [s \in Sessions |-> s \in shown]
  /\ interrupted' = {} /\ awaiting' = {}
  /\ held' = [s \in Sessions |-> {}]
  /\ lock' = {}
  /\ job' = [d \in Drainers |-> Idle]
  /\ fails' = [d \in Drainers |-> [p \in Prompts |-> 0]]
  /\ retry' = FALSE
  /\ due' = TRUE
  /\ UNCHANGED <<route, queue, last, serverVars>>

SendStep(d) == \/ Submits(d) \/ Resumed(d) \/ Delivered(d) \/ Recovers(d)
               \/ Accepted(d) \/ Fails(d) \/ Finishes(d)

Next == \/ ComposerEffect \/ BackgroundEffect \/ RetryTimer
        \/ \E d \in Drainers : SendStep(d)
        \/ Enqueue \/ SendNext \/ Resume \/ Halt \/ Arrive
        \/ \E p \in Prompts : Delete(p) \/ PromoteNow(p) \/ SendNow(p)
        \/ \E s \in Sessions : \/ Navigate(s)
                              \/ TurnEnds(s) \/ EndUnheard(s) \/ AnswerStarts(s)
                              \/ ToldRunning(s) \/ ToldIdle(s)
        \/ Restart

Spec == Init /\ [][Next]_vars

(***************************************************************************)
(* Properties                                                              *)
(***************************************************************************)
(* A prompt is run at most once, whatever two drainers and the retries of  *)
(* each do with it, and in the session it was queued for, wherever the     *)
(* user has gone in the meantime.                                          *)
OnceAtHome == \A s \in Sessions : \A i \in DOMAIN served[s] :
                /\ Home[served[s][i]] = s
                /\ \A k \in DOMAIN served[s] : served[s][i] = served[s][k] => i = k

(* A prompt leaves a queue when the server has it or the user deletes it,  *)
(* whatever fails on the way.                                              *)
NothingLost == [][\A s \in Sessions :
                    \A p \in Elements(queue[s]) \ Elements(queue'[s]) :
                      p \in Elements(served[s]) \/ (s = route /\ Delete(p))]_vars

(* The lock of a session is held exactly while one drainer is submitting   *)
(* to it: no path forgets to give it back, no two submits overlap.         *)
Submitting(d) == job[d].step \in {"resume", "attach", "sent", "again", "last"}

LockIsASubmit ==
  /\ \A d \in Drainers : Submitting(d) => job[d].to \in lock
  /\ \A s \in lock : \E d \in Drainers : Submitting(d) /\ job[d].to = s
  /\ \A d, e \in Drainers :
       Submitting(d) /\ Submitting(e) /\ job[d].to = job[e].to => d = e

(* A queue the user has stopped stays so until the user asks for more of   *)
(* it: queues another prompt, resumes it, or sends from it by hand.        *)
HaltHolds == [][\A s \in Sessions :
  parked[s] /\ ~parked'[s] /\ queue'[s] # <<>> =>
    \/ s = route /\ (Enqueue \/ Resume \/ \E p \in Prompts : PromoteNow(p))
    \/ job[Composer].to = s /\ ~job[Composer].auto
    \/ Restart]_vars

(* What was waiting when the user stopped a queue is sent by nobody, from  *)
(* whatever session the user goes to and whatever fails meanwhile, until   *)
(* the user asks for it.  Only a Stop in the middle of the composer's own  *)
(* drain of that queue promises nothing: see HaltHolds.                    *)
StoppedWait == \A s \in Sessions, d \in Drainers :
                 job[d].to = s => job[d].prompt \notin held[s]

(* A session in the background sleeps on a prompt it could send: nobody is *)
(* sending it, and neither the effect nor a timer will.                    *)
Asleep(s) == /\ s # view
             /\ Gate(s, s, busy[s])
             /\ ~due /\ ~retry
             /\ \A p \in Prompts : fails[s][p] < MaxTries

(* The wake-up of a background queue is lost in one place only: where the  *)
(* flag of its own drainer comes down behind a prompt that is done with.   *)
(* No failure, no change of session, no Stop and no turn that ends late or *)
(* unheard puts a queue to sleep.                                          *)
WakeUpKept == [][\A s \in Sessions :
                   ~Asleep(s) /\ Asleep(s)' =>
                     Finishes(s) /\ job[s].prompt \notin Elements(queue[s])]_vars

(* What the queue promises the user (see PromptOutbox): a prompt is run    *)
(* once, at home, one at a time per session, and stays queued until the    *)
(* session has answered, whichever drainer sends it and fails on the way.  *)
Queued == UNION {Elements(queue[s]) : s \in Sessions}
UnderWay == {job[d].prompt : d \in {e \in Drainers : Submitting(e)}}
Outbox == INSTANCE PromptOutbox WITH
            known <- 1..last, waiting <- Queued, underway <- UnderWay
OutboxSpec == Outbox!Spec
=============================================================================
