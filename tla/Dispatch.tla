------------------------------ MODULE Dispatch ------------------------------
(***************************************************************************)
(* The webhook dispatcher of dispatch/: one goroutine per endpoint that    *)
(* drains the endpoint's queue (loop.go), the callers that fill, resume    *)
(* and disturb the queue (endpoint.go), and Close (dispatch.go).           *)
(*                                                                         *)
(* One action is one critical section of Dispatcher.mu, or one step taken  *)
(* outside it: the wake-up sent after the unlock, the HTTP request, its    *)
(* response, a select.  A call the code refuses (unknown or duplicate      *)
(* endpoint, closed dispatcher) changes nothing and has no action.         *)
(***************************************************************************)
EXTENDS Integers, Sequences, FiniteSets, Progress

CONSTANTS Endpoints,         \* names endpoints may be registered under
          Events,            \* ids of events
          Configs,           \* URL and signing header of an endpoint
          None,              \* no attempt under way, no configuration
          FailureThreshold,  \* Options.FailureThreshold after defaulting
          MaxAccepted,       \* bound: events enqueued per endpoint
          MaxCallers,        \* bound: callers between unlock and wake
          MaxFaults,         \* bound: requests the network or receiver fails
          MaxLate,           \* bound: first attempts whose request may come late
          MaxSynthetic       \* bound: failures asked of InjectFailures

ASSUME DispatchAssumption ==
  /\ IsFiniteSet(Endpoints)
  /\ None \notin Configs
  /\ FailureThreshold \in Nat \ {0}
  /\ MaxAccepted \in Nat
  /\ MaxCallers \in Nat
  /\ MaxFaults \in Nat
  /\ MaxLate \in Nat
  /\ MaxSynthetic \in Nat

VARIABLES
  \* Dispatcher
  closed,               \* d.closed
  cancelled,            \* d.ctx is done
  wg,                   \* the counter of d.wg
  waited,               \* d.wg.Wait has returned in the first Close
  closeReturned,        \* some call of Close has returned
  \* endpointState
  config, pending, consecutiveFailures, interrupted, syntheticFailures,
  wake,                 \* the one-slot channel holds a signal
  waking,               \* callers that left the lock and have yet to signal
  \* run: where each loop is, and the locals of its current iteration
  pc,
  current,              \* ev, cfg and synthetic, or None
  success,
  \* what has been observed
  log,                  \* log[ep]: the entries of d.log that name ep
  accepted,             \* history: events enqueued
  delivered,            \* history: events whose attempt succeeded
  abandoned,            \* requests given up that the receiver may still take up
  receipts,             \* history: requests the receiver took up
  reactivatedAt,        \* history: attempts finished at the last Reactivate
  faults, injected      \* how much of MaxFaults and MaxSynthetic is used

lifecycle == <<closed, cancelled, wg, waited, closeReturned>>
failureState == <<consecutiveFailures, interrupted>>
signals == <<wake, waking>>
loop == <<pc, current, success>>
history == <<log, accepted, delivered, abandoned, receipts, reactivatedAt>>
budgets == <<faults, injected>>
vars == <<lifecycle, config, pending, failureState, syntheticFailures,
          signals, loop, history, budgets>>

Attempts == [event : Events, config : Configs, synthetic : BOOLEAN]
LogEntries == [event : Events, success : BOOLEAN]

\* A request: its event's place in the queue, and which attempt it belongs to.
Requests == [event : Events, at : Nat, attempt : Nat \ {0}]

\* Where a loop can be: not registered, `go d.run` not yet scheduled, about
\* to call nextDelivery, in the idle select, about to send, waiting for the
\* response, about to record, about to finish, in the retry select, returned.
Places == {"absent", "spawn", "next", "idle", "deliver", "await", "record",
           "finish", "retry", "done"}
Attempting == {"deliver", "await", "record", "finish"}
-----------------------------------------------------------------------------
Init ==
  /\ closed = FALSE /\ cancelled = FALSE
  /\ wg = 0
  /\ waited = FALSE /\ closeReturned = FALSE
  /\ config = [ep \in Endpoints |-> None]
  /\ pending = [ep \in Endpoints |-> <<>>]
  /\ consecutiveFailures = [ep \in Endpoints |-> 0]
  /\ interrupted = [ep \in Endpoints |-> FALSE]
  /\ syntheticFailures = [ep \in Endpoints |-> 0]
  /\ wake = [ep \in Endpoints |-> FALSE]
  /\ waking = [ep \in Endpoints |-> 0]
  /\ pc = [ep \in Endpoints |-> "absent"]
  /\ current = [ep \in Endpoints |-> None]
  /\ success = [ep \in Endpoints |-> FALSE]
  /\ log = [ep \in Endpoints |-> <<>>]
  /\ accepted = [ep \in Endpoints |-> <<>>]
  /\ delivered = [ep \in Endpoints |-> <<>>]
  /\ abandoned = [ep \in Endpoints |-> {}]
  /\ receipts = [ep \in Endpoints |-> <<>>]
  /\ reactivatedAt = [ep \in Endpoints |-> 0]
  /\ faults = 0 /\ injected = 0

Registered(ep) == pc[ep] # "absent"
Goto(ep, place) == pc' = [pc EXCEPT ![ep] = place]

\* Attempts whose outcome has been applied to the queue: the one between
\* recordAttempt and finishAttempt is in the log already.
Finished(ep) == Len(log[ep]) - (IF pc[ep] = "finish" THEN 1 ELSE 0)
-----------------------------------------------------------------------------
(* Callers *)

MayRegister(ep) == ~closed /\ ~Registered(ep)

\* The closed check, the map entry and wg.Add are one critical section.
RegisterEndpoint(ep, cfg) ==
  /\ MayRegister(ep)
  /\ config' = [config EXCEPT ![ep] = cfg]
  /\ wg' = wg + 1
  /\ Goto(ep, "spawn")
  /\ UNCHANGED <<closed, cancelled, waited, closeReturned, pending,
                 failureState, syntheticFailures, signals, current, success,
                 history, budgets>>

\* Waking the loop only when the queue was empty: no use to Reactivate.
WakeIfEmpty(ep) ==
  /\ waking[ep] < MaxCallers
  /\ waking' = [waking EXCEPT ![ep] = IF pending[ep] = <<>> THEN @ + 1 ELSE @]

\* A caller that still has to call wake, after its unlock.
LeaveLockToWake(ep) ==
  /\ waking[ep] < MaxCallers
  /\ waking' = [waking EXCEPT ![ep] = @ + 1]

QueuedInFront(q, ev) == <<ev>> \o q
Queued(q, ev) == Append(q, ev)

Enqueue(ep, ev) ==
  /\ ~closed /\ Registered(ep)
  /\ Len(accepted[ep]) < MaxAccepted
  /\ pending' = [pending EXCEPT ![ep] = Queued(@, ev)]
  /\ accepted' = [accepted EXCEPT ![ep] = Append(@, ev)]
  /\ LeaveLockToWake(ep)
  /\ UNCHANGED <<lifecycle, config, failureState, syntheticFailures, wake,
                 loop, log, delivered, abandoned, receipts, reactivatedAt,
                 budgets>>

\* The non-blocking send: a second signal is dropped while one is buffered.
SignalWake(ep) ==
  /\ waking[ep] > 0
  /\ waking' = [waking EXCEPT ![ep] = @ - 1]
  /\ wake' = [wake EXCEPT ![ep] = TRUE]
  /\ UNCHANGED <<lifecycle, config, pending, failureState, syntheticFailures,
                 loop, history, budgets>>

UpdateEndpoint(ep, cfg) ==
  /\ ~closed /\ Registered(ep)
  /\ config' = [config EXCEPT ![ep] = cfg]
  /\ UNCHANGED <<lifecycle, pending, failureState, syntheticFailures,
                 signals, loop, history, budgets>>

Reactivate(ep) ==
  /\ ~closed /\ Registered(ep)
  /\ interrupted' = [interrupted EXCEPT ![ep] = FALSE]
  /\ consecutiveFailures' = [consecutiveFailures EXCEPT ![ep] = 0]
  /\ reactivatedAt' = [reactivatedAt EXCEPT ![ep] = Finished(ep)]
  /\ LeaveLockToWake(ep)
  /\ UNCHANGED <<lifecycle, config, pending, syntheticFailures, wake, loop,
                 log, accepted, delivered, abandoned, receipts, budgets>>

\* Replaces the count, whatever was left of it.
InjectFailures(ep, n) ==
  /\ ~closed /\ Registered(ep)
  /\ injected + n <= MaxSynthetic
  /\ injected' = injected + n
  /\ syntheticFailures' = [syntheticFailures EXCEPT ![ep] = n]
  /\ UNCHANGED <<lifecycle, config, pending, failureState, signals, loop,
                 history, faults>>
-----------------------------------------------------------------------------
(* The delivery loop *)

StartLoop(ep) ==
  /\ pc[ep] = "spawn"
  /\ Goto(ep, "next")
  /\ UNCHANGED <<lifecycle, config, pending, failureState, syntheticFailures,
                 signals, current, success, history, budgets>>

Deliverable(ep) == ~interrupted[ep] /\ pending[ep] # <<>>

NothingToDeliver(ep) ==
  /\ pc[ep] = "next" /\ ~Deliverable(ep)
  /\ Goto(ep, "idle")
  /\ UNCHANGED <<lifecycle, config, pending, failureState, syntheticFailures,
                 signals, current, success, history, budgets>>

OwesFailureOffByOne(ep) == syntheticFailures[ep] >= 0
OwesFailure(ep) == syntheticFailures[ep] > 0

\* The event stays at the head of the queue while it is attempted; whether
\* the attempt is synthetic is decided here, under the lock.  A synthetic
\* attempt skips deliver.
HandOut(ep) ==
  LET synthetic == OwesFailure(ep) IN
  /\ pc[ep] = "next" /\ Deliverable(ep)
  /\ current' = [current EXCEPT ![ep] = [event |-> Head(pending[ep]),
                                         config |-> config[ep],
                                         synthetic |-> synthetic]]
  /\ syntheticFailures' =
       [syntheticFailures EXCEPT ![ep] = IF synthetic THEN @ - 1 ELSE @]
  /\ success' = [success EXCEPT ![ep] = FALSE]
  /\ Goto(ep, IF synthetic THEN "record" ELSE "deliver")
  /\ UNCHANGED <<lifecycle, config, pending, failureState, signals, history,
                 budgets>>

\* select in the idle loop: a buffered signal, or the context, is ready.
IdleWake(ep) ==
  /\ pc[ep] = "idle" /\ wake[ep]
  /\ wake' = [wake EXCEPT ![ep] = FALSE]
  /\ Goto(ep, "next")
  /\ UNCHANGED <<lifecycle, config, pending, failureState, syntheticFailures,
                 waking, current, success, history, budgets>>

\* A request or a response is lost, late or not 2xx.  Each one costs a unit
\* of MaxFaults, except that a done context fails requests by itself.
Fault ==
  /\ cancelled \/ faults < MaxFaults
  /\ faults' = IF cancelled THEN faults ELSE faults + 1

Outcome(ep, ok) ==
  /\ success' = [success EXCEPT ![ep] = ok]
  /\ Goto(ep, "record")
  /\ UNCHANGED <<lifecycle, config, pending, failureState, syntheticFailures,
                 signals, current, log, accepted, delivered, reactivatedAt,
                 injected>>

Request(ep) == [event |-> current[ep].event, at |-> Len(delivered[ep]),
                attempt |-> Len(log[ep]) + 1]

\* The receiver takes the request up in time.  client.Do refuses to start on a
\* done context.
SendReaches(ep) ==
  /\ pc[ep] = "deliver" /\ ~cancelled
  /\ receipts' = [receipts EXCEPT ![ep] = Append(@, Request(ep))]
  /\ Goto(ep, "await")
  /\ UNCHANGED <<lifecycle, config, pending, failureState, syntheticFailures,
                 signals, current, success, log, accepted, delivered,
                 abandoned, reactivatedAt, budgets>>

SendUnchecked(ep) ==
  /\ pc[ep] = "deliver" /\ Fault /\ Outcome(ep, TRUE)
  /\ UNCHANGED <<abandoned, receipts>>

\* The client gives up, at the timeout or when the context is done, before the
\* receiver took the request up.  It may be lost, or on its way nevertheless.
SendFails(ep) ==
  /\ pc[ep] = "deliver" /\ Fault /\ Outcome(ep, FALSE)
  /\ abandoned' = [abandoned EXCEPT ![ep] = @ \cup {Request(ep)}]
  /\ UNCHANGED receipts

\* The receiver takes up a request that nobody waits for any more, at any time:
\* during the retry, when the next event has been delivered, or never.
TakeUpLate(ep) ==
  \E request \in abandoned[ep] :
    /\ request.attempt <= MaxLate
    /\ receipts' = [receipts EXCEPT ![ep] = Append(@, request)]
    /\ abandoned' = [abandoned EXCEPT ![ep] = @ \ {request}]
    /\ UNCHANGED <<lifecycle, config, pending, failureState, syntheticFailures,
                   signals, loop, log, accepted, delivered, reactivatedAt,
                   budgets>>

RespondOk(ep) ==
  /\ pc[ep] = "await" /\ Outcome(ep, TRUE)
  /\ UNCHANGED <<abandoned, receipts, faults>>

\* Also the timeout of a request the receiver did process.
RespondFails(ep) ==
  /\ pc[ep] = "await" /\ Fault /\ Outcome(ep, FALSE)
  /\ UNCHANGED <<abandoned, receipts>>

AnsweredEntry(ep) ==
  [event |-> current[ep].event, success |-> ~current[ep].synthetic]
LogEntry(ep) == [event |-> current[ep].event, success |-> success[ep]]

RecordAttempt(ep) ==
  /\ pc[ep] = "record"
  /\ log' = [log EXCEPT ![ep] = Append(@, LogEntry(ep))]
  /\ Goto(ep, "finish")
  /\ UNCHANGED <<lifecycle, config, pending, failureState, syntheticFailures,
                 signals, current, success, accepted, delivered, abandoned,
                 receipts, reactivatedAt, budgets>>

EndIteration(ep, place) ==
  /\ current' = [current EXCEPT ![ep] = None]
  /\ success' = [success EXCEPT ![ep] = FALSE]
  /\ Goto(ep, place)

NotPopped(q) == q
\* Drops whatever is at the head of the queue now.
Popped(q) == IF q = <<>> THEN q ELSE Tail(q)

StreakKept(streak) == streak
AfterSuccess(streak) == 0

FinishSuccess(ep) ==
  /\ pc[ep] = "finish" /\ success[ep]
  /\ pending' = [pending EXCEPT ![ep] = Popped(@)]
  /\ consecutiveFailures' =
       [consecutiveFailures EXCEPT ![ep] = AfterSuccess(@)]
  /\ delivered' = [delivered EXCEPT ![ep] = Append(@, current[ep].event)]
  /\ EndIteration(ep, "next")
  /\ UNCHANGED <<lifecycle, config, interrupted, syntheticFailures, signals,
                 log, accepted, abandoned, receipts, reactivatedAt, budgets>>

PassesThreshold(n) == n > FailureThreshold
ReachesThreshold(n) == n >= FailureThreshold

FinishFailure(ep) ==
  LET streak == consecutiveFailures[ep] + 1 IN
  /\ pc[ep] = "finish" /\ ~success[ep]
  /\ consecutiveFailures' = [consecutiveFailures EXCEPT ![ep] = streak]
  /\ interrupted' = IF ReachesThreshold(streak)
                    THEN [interrupted EXCEPT ![ep] = TRUE] ELSE interrupted
  /\ EndIteration(ep, IF ReachesThreshold(streak) THEN "next" ELSE "retry")
  /\ UNCHANGED <<lifecycle, config, pending, syntheticFailures, signals,
                 history, budgets>>

\* The timer may win the select even when the context is done as well.
RetryElapsed(ep) ==
  /\ pc[ep] = "retry"
  /\ Goto(ep, "next")
  /\ UNCHANGED <<lifecycle, config, pending, failureState, syntheticFailures,
                 signals, current, success, history, budgets>>

ExitsFromRetry(ep) == pc[ep] = "retry" /\ cancelled
MayExit(ep) == pc[ep] \in {"idle", "retry"} /\ cancelled

LoopExit(ep) ==
  /\ MayExit(ep)
  /\ Goto(ep, "done")
  /\ wg' = wg - 1
  /\ UNCHANGED <<closed, cancelled, waited, closeReturned, config, pending,
                 failureState, syntheticFailures, signals, current, success,
                 history, budgets>>

run(ep) ==
  \/ StartLoop(ep) \/ NothingToDeliver(ep) \/ HandOut(ep) \/ IdleWake(ep)
  \/ SendReaches(ep) \/ SendFails(ep) \/ RespondOk(ep) \/ RespondFails(ep)
  \/ RecordAttempt(ep) \/ FinishSuccess(ep) \/ FinishFailure(ep)
  \/ RetryElapsed(ep) \/ LoopExit(ep)
-----------------------------------------------------------------------------
(* Close: the first call closes, cancels and waits; a later one returns. *)

unchangedByClose == <<wg, config, pending, failureState, syntheticFailures,
                      signals, loop, history, budgets>>

BeginClose ==
  /\ ~closed
  /\ closed' = TRUE
  /\ UNCHANGED <<cancelled, waited, closeReturned, unchangedByClose>>

CancelContext ==
  /\ closed /\ ~cancelled
  /\ cancelled' = TRUE
  /\ UNCHANGED <<closed, waited, closeReturned, unchangedByClose>>

ReturnAtOnce ==
  /\ cancelled /\ ~waited
  /\ waited' = TRUE /\ closeReturned' = TRUE
  /\ UNCHANGED <<closed, cancelled, unchangedByClose>>

WaitForLoops ==
  /\ cancelled /\ ~waited /\ wg = 0
  /\ waited' = TRUE /\ closeReturned' = TRUE
  /\ UNCHANGED <<closed, cancelled, unchangedByClose>>

CloseAgain ==
  /\ closed
  /\ closeReturned' = TRUE
  /\ UNCHANGED <<closed, cancelled, waited, unchangedByClose>>

Close == BeginClose \/ CancelContext \/ WaitForLoops \/ CloseAgain
-----------------------------------------------------------------------------
Call(ep) ==
  \/ \E cfg \in Configs : RegisterEndpoint(ep, cfg) \/ UpdateEndpoint(ep, cfg)
  \/ \E ev \in Events : Enqueue(ep, ev)
  \/ SignalWake(ep)
  \/ Reactivate(ep)
  \/ \E n \in 0..MaxSynthetic : InjectFailures(ep, n)

Next == Close \/ \E ep \in Endpoints : Call(ep) \/ run(ep) \/ TakeUpLate(ep)

Spec == Init /\ [][Next]_vars

\* Every goroutine that can run is scheduled in the end; client.Timeout ends
\* every request and a timer ends every retry select.  Nobody is obliged to
\* call the dispatcher, but a call that left the lock sends its wake-up and
\* a Close that started goes on.
Fairness ==
  /\ \A ep \in Endpoints : WF_vars(run(ep)) /\ WF_vars(SignalWake(ep))
  /\ WF_vars(CancelContext) /\ WF_vars(WaitForLoops)

FairSpec == Spec /\ Fairness
-----------------------------------------------------------------------------
(* Invariants *)

ControlTypes ==
  /\ closed \in BOOLEAN /\ cancelled \in BOOLEAN
  /\ wg \in Int
  /\ waited \in BOOLEAN /\ closeReturned \in BOOLEAN
  /\ faults \in 0..MaxFaults /\ injected \in 0..MaxSynthetic

EndpointTypes ==
  /\ config \in [Endpoints -> Configs \cup {None}]
  /\ pending \in [Endpoints -> Seq(Events)]
  /\ consecutiveFailures \in [Endpoints -> Nat]
  /\ interrupted \in [Endpoints -> BOOLEAN]
  /\ syntheticFailures \in [Endpoints -> 0..MaxSynthetic]
  /\ wake \in [Endpoints -> BOOLEAN]
  /\ waking \in [Endpoints -> 0..MaxCallers]
  /\ \A ep \in Endpoints : Registered(ep) => config[ep] \in Configs

LoopTypes ==
  /\ pc \in [Endpoints -> Places]
  /\ current \in [Endpoints -> Attempts \cup {None}]
  /\ success \in [Endpoints -> BOOLEAN]
  /\ \A ep \in Endpoints : pc[ep] \in Attempting => current[ep] \in Attempts

HistoryTypes ==
  /\ log \in [Endpoints -> Seq(LogEntries)]
  /\ accepted \in [Endpoints -> Seq(Events)]
  /\ delivered \in [Endpoints -> Seq(Events)]
  /\ abandoned \in [Endpoints -> SUBSET Requests]
  /\ receipts \in [Endpoints -> Seq(Requests)]
  /\ reactivatedAt \in [Endpoints -> Int]

TypeOK == ControlTypes /\ EndpointTypes /\ LoopTypes /\ HistoryTypes

\* Nothing enqueued is ever lost, duplicated or reordered by the queue: what
\* was delivered, followed by what is pending, is what was enqueued, whatever
\* Enqueue appends while the head is being attempted (loop.go:72,86).
QueueConservation ==
  \A ep \in Endpoints : delivered[ep] \o pending[ep] = accepted[ep]

\* What nextDelivery found under the lock still holds during the whole attempt,
\* although the lock is released until finishAttempt, which looks at none of it
\* again: the queue is not interrupted, and its head is the event under
\* delivery (loop.go:65-72,83-87).
AttemptStaysValid ==
  \A ep \in Endpoints : pc[ep] \in Attempting =>
    /\ ~interrupted[ep]
    /\ pending[ep] # <<>> /\ Head(pending[ep]) = current[ep].event

\* A queue is interrupted exactly while its streak has reached the threshold,
\* with Reactivate at any moment, an attempt in flight included.
InterruptedIffThreshold ==
  \A ep \in Endpoints :
    interrupted[ep] <=> consecutiveFailures[ep] >= FailureThreshold

\* The streak is the number of failures at the end of the delivery log, as far
\* as it was applied, counted from the last Reactivate: the log and the streak
\* are written under two separate locks (loop.go:33,42).
StreakMatchesLog ==
  \A ep \in Endpoints :
    LET streak == consecutiveFailures[ep]
        since  == Finished(ep) - reactivatedAt[ep]
    IN /\ streak <= since
       /\ \A i \in 1..streak : ~log[ep][Finished(ep) + 1 - i].success
       /\ streak < since => log[ep][Finished(ep) - streak].success

\* Where the successes are among the first n log entries of ep.
SuccessesUpTo(ep, n) == {i \in 1..n : log[ep][i].success}

\* The delivery log accounts for the queue: its successes, as far as they were
\* applied, are the events that left the queue, in that order: the k-th success
\* names the k-th event delivered.
LogShowsDeliveries ==
  \A ep \in Endpoints :
    LET ok == SuccessesUpTo(ep, Finished(ep)) IN
    /\ Cardinality(ok) = Len(delivered[ep])
    /\ \A i \in ok :
         log[ep][i].event = delivered[ep][Cardinality(SuccessesUpTo(ep, i))]

\* The attempt is in the log as a failure.
GivenUp(ep, attempt) ==
  attempt \in 1..Len(log[ep]) /\ ~log[ep][attempt].success

\* The k-th event is delivered because the receiver got a request for it, and
\* the attempt that sent that one is the one that was answered.
Answers(ep, k, request) ==
  /\ request.at = k - 1
  /\ request.attempt \in 1..Finished(ep) /\ log[ep][request.attempt].success

\* Whatever requests time out and are taken up late, after the retry or after
\* later events: the receiver sees no event before all earlier ones; a request
\* that comes behind one of a later attempt is one that was given up, so that
\* without timeouts there is no return to an older event; attempts go through
\* the queue in its order; and no event is delivered whose answered attempt
\* did not reach it (dispatch.go:144-151, loop.go:72,85-88).
ReceiverSeesQueueOrder ==
  \A ep \in Endpoints :
    LET r == receipts[ep] IN
    /\ \A i \in 1..Len(r) :
         /\ r[i].event = accepted[ep][r[i].at + 1]
         /\ \A n \in 0..(r[i].at - 1) : \E j \in 1..(i - 1) : r[j].at = n
    /\ \A i, j \in 1..Len(r) : r[i].attempt < r[j].attempt =>
         /\ r[i].at <= r[j].at
         /\ j < i => GivenUp(ep, r[i].attempt)
    /\ \A k \in 1..Len(delivered[ep]) :
         \E i \in 1..Len(r) : Answers(ep, k, r[i])

\* A loop that sleeps although its queue could be drained is about to be
\* woken: the signal is in the channel, or a caller still has to send it
\* (endpoint.go:90-93, loop.go:14-18).
NoLostWakeup ==
  \A ep \in Endpoints :
    pc[ep] = "idle" /\ Deliverable(ep) => wake[ep] \/ waking[ep] > 0

\* The wait group counts the loops that have not returned, so that the first
\* Close returns when all of them have and not before.
WaitGroupCountsLoops ==
  /\ wg = Cardinality({ep \in Endpoints : pc[ep] \notin {"absent", "done"}})
  /\ waited => \A ep \in Endpoints : pc[ep] \in {"absent", "done"}

\* What the comment on Close says of every call (dispatch.go:113-114): when a
\* call of Close has returned, every delivery loop has.
CloseWaitsForLoops ==
  closeReturned => \A ep \in Endpoints : pc[ep] \in {"absent", "done"}
-----------------------------------------------------------------------------
(* Action and temporal properties *)

\* How far the loop of ep is from having nothing more to do: events to deliver,
\* failures until the queue is interrupted, signals to come, and the place.
PlacesLeft == [absent |-> 0, done |-> 0, idle |-> 1, finish |-> 2, record |-> 3,
               await |-> 4, deliver |-> 5, next |-> 6, retry |-> 7, spawn |-> 8]

ToDo(ep) == <<Len(pending[ep]),
              FailureThreshold - consecutiveFailures[ep],
              2 * waking[ep] + (IF wake[ep] THEN 1 ELSE 0),
              PlacesLeft[pc[ep]]>>

\* A loop never spins: left alone, whatever it does brings it nearer to rest,
\* retries, interruptions and wake-ups in vain included, so that a Close, after
\* which nobody calls any more, is not kept waiting (loop.go:11-48).
LoopsWindDown ==
  [][\A ep \in Endpoints :
       run(ep) \/ SignalWake(ep) =>
         ToDo(ep)' \in Measures(4) /\ Nearer(ToDo(ep)', ToDo(ep))]_vars

\* The dispatcher implements the queue it promises.
Queue == INSTANCE DeliveryQueue
           WITH streak <- consecutiveFailures, paused <- interrupted

RefinesDeliveryQueue == Queue!QueueSpec

\* An enqueued event does not wait for ever: it is delivered, or its queue is
\* interrupted, or the dispatcher is closed.
EventsSettle ==
  \A ep \in Endpoints : \A n \in 1..MaxAccepted :
    Len(accepted[ep]) >= n ~>
      Len(delivered[ep]) >= n \/ interrupted[ep] \/ closed

\* A Close that started ends: no loop keeps it waiting for ever.
CloseTerminates == closed ~> waited
=============================================================================
