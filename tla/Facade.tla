------------------------------- MODULE Facade -------------------------------
(***************************************************************************)
(* providers/asaas/: the HTTP handlers, as callers that go from the engine *)
(* to the webhook registry to the dispatcher to the last-event store, one  *)
(* lock after the other.  The engine is taken as Ledger, which Engine      *)
(* implements, and the endpoint queues as DeliveryQueue, which Dispatch    *)
(* implements; the process may stop anywhere and start again.              *)
(*                                                                         *)
(* A handler that was refused, or has yet to call its first component, has *)
(* changed nothing and is "idle".  Its response leaves the process when    *)
(* the handler returns (net/http buffers it), so writing it is no step.    *)
(* An event is told apart by its charge and its type: a charge takes each  *)
(* status once, so no two events of a process share both.                  *)
(***************************************************************************)
EXTENDS Integers, Sequences, FiniteSets, SequencesExt, Progress

CONSTANTS Callers,           \* requests in progress
          ChargeIds, Times,  \* of Ledger
          Hooks,             \* ids of webhooks, and names of their endpoints
          Targets,           \* URL and token of a webhook
          Entries,           \* webhooks clients ask for
          Updates,           \* updates clients ask for
          None,
          FailureThreshold,  \* of DeliveryQueue
          Persist,           \* the database is a file
          MaxReplays,        \* bound: duplicate-delivery requests
          MaxRestarts        \* bound: times the process is started again

Announced == {"confirmed", "received", "overdue"}
Statuses == Announced \cup {"created", "refunded"}

\* The type of an event, and the status in the copy of the charge it carries.
Events == [charge : ChargeIds, type : Announced, status : Statuses]

\* No type listed means every type.
EntryShape == [target : Targets, enabled : BOOLEAN, wants : SUBSET Announced]

\* A field the client left out is None.
UpdateShape == [target : Targets \cup {None}, enabled : BOOLEAN \cup {None},
                wants : SUBSET Announced \cup {None}, resume : BOOLEAN]

ASSUME FacadeAssumption ==
  /\ None \notin Callers \cup Targets \cup EntryShape
  /\ Entries \subseteq EntryShape
  /\ \A u \in Updates : /\ u.target \in Targets \cup {None}
                        /\ u.enabled = None \/ u.enabled \in BOOLEAN
                        /\ u.wants = None \/ u.wants \subseteq Announced
                        /\ u.resume \in BOOLEAN
  /\ IsFiniteSet(Hooks)
  /\ FailureThreshold \in Nat \ {0}
  /\ Persist \in BOOLEAN /\ MaxReplays \in Nat /\ MaxRestarts \in Nat

VARIABLES
  time, ledger,                         \* the engine
  accepted, delivered, streak, paused,  \* the dispatcher's queues
  routed,          \* the dispatcher's copy of each endpoint's configuration
  closed,          \* the dispatcher is closed
  registry,        \* webhookRegistry.entries
  registryLock,    \* the update that holds webhookRegistry.mu
  lastEvents,      \* lastEventStore.byCharge
  pc, work,        \* where each caller is, and its locals
  entitled,        \* history: webhooks that wanted a status when it was
                   \* committed and have not been updated since
  reversed,        \* history: charges out-of-order has moved twice
  replays, restarts

engine == <<time, ledger>>
queues == <<accepted, delivered, streak, paused>>
hooks == <<registry, registryLock>>
history == <<entitled, reversed>>
budgets == <<replays, restarts>>
vars == <<engine, queues, routed, closed, hooks, lastEvents, pc, work,
          history, budgets>>

Books == INSTANCE Ledger WITH Durable <- Persist
Queues == INSTANCE DeliveryQueue WITH Endpoints <- Hooks

\* Locals: charges to announce, events built and not yet recorded, webhooks
\* still to be sent to and sent to; the webhook at hand, its new entry, and
\* whether its queue is resumed; whether the events are to be reversed.
Idle == [todo |-> <<>>, events |-> <<>>, subs |-> {}, sent |-> {},
         hook |-> None, entry |-> None, resume |-> FALSE, reverse |-> FALSE]

Places == {"idle", "build", "second", "subscribers", "enqueue", "record",
           "replay", "add", "push", "resume"}
-----------------------------------------------------------------------------
Init ==
  /\ Books!LedgerInit
  /\ Queues!QueueInit
  /\ routed = [h \in Hooks |-> None]
  /\ closed = FALSE
  /\ registry = [h \in Hooks |-> None]
  /\ registryLock = None
  /\ lastEvents = [ch \in ChargeIds |-> None]
  /\ pc = [c \in Callers |-> "idle"]
  /\ work = [c \in Callers |-> Idle]
  /\ entitled = [t \in ChargeIds \X Announced |-> {}]
  /\ reversed = {}
  /\ replays = 0 /\ restarts = 0

\* The last step of a handler forgets its locals.
Goto(c, place, locals) ==
  /\ pc' = [pc EXCEPT ![c] = place]
  /\ work' = [work EXCEPT ![c] = IF place = "idle" THEN Idle ELSE locals]

Subscribers(type) ==
  {h \in Hooks : /\ registry[h] # None
                 /\ registry[h].enabled
                 /\ registry[h].wants = {} \/ type \in registry[h].wants}

\* The copy of the charge a transition returns.
Snapshot(ch, to) == [charge |-> ch, type |-> to, status |-> to]

\* TransitionCharge, which commits or is refused without a trace.
Transition(ch, to) ==
  /\ Books!Move(ch, to)
  /\ entitled' = [entitled EXCEPT ![<<ch, to>>] = Subscribers(to)]
-----------------------------------------------------------------------------
(* Requests that announce what they did to a charge *)

CreatePayment(c, ch, due) ==
  /\ pc[c] = "idle"
  /\ Books!Open(ch, due)
  /\ UNCHANGED <<queues, routed, closed, hooks, lastEvents, pc, work, history,
                 budgets>>

\* handleConfirmPayment, and handleTrigger for both its events.
Trigger(c, ch, to) ==
  /\ pc[c] = "idle" /\ to \in {"confirmed", "received"}
  /\ Transition(ch, to)
  /\ Goto(c, "build", [Idle EXCEPT !.todo = <<Snapshot(ch, to)>>])
  /\ UNCHANGED <<queues, routed, closed, hooks, lastEvents, reversed, budgets>>

FallsBefore(target) ==
  {ch \in DOMAIN ledger : ledger[ch].status = "created" /\ ledger[ch].due < target}

\* The transitions AdvanceClock returns.
FallDue(target) ==
  {ch \in DOMAIN ledger : ledger[ch].status = "created" /\ ledger[ch].due <= target}

ClockAdvance(c, target) ==
  LET due == FallDue(target) IN
  /\ pc[c] = "idle"
  /\ Books!Advance(target)
  /\ entitled' = [t \in DOMAIN entitled |->
                    IF /\ t[1] \in DOMAIN ledger /\ t[2] = "overdue"
                       /\ ledger[t[1]].status # ledger'[t[1]].status
                    THEN Subscribers("overdue") ELSE entitled[t]]
  /\ Goto(c, IF due = {} THEN "idle" ELSE "build",
          [Idle EXCEPT !.todo = SetToSeq({Snapshot(ch, "overdue") : ch \in due})])
  /\ UNCHANGED <<queues, routed, closed, hooks, lastEvents, reversed, budgets>>

\* Out-of-order: confirmed first, announced last.
OutOfOrder(c, ch) ==
  /\ pc[c] = "idle"
  /\ Transition(ch, "confirmed")
  /\ Goto(c, "build", [Idle EXCEPT !.todo = <<Snapshot(ch, "confirmed")>>,
                                   !.reverse = TRUE])
  /\ UNCHANGED <<queues, routed, closed, hooks, lastEvents, reversed, budgets>>

SecondTransition(c) ==
  LET ch == Head(work[c].events).charge IN
  /\ pc[c] = "second"
  /\ Transition(ch, "received")
  /\ reversed' = reversed \cup {ch}
  /\ Goto(c, "build", [work[c] EXCEPT !.todo = <<Snapshot(ch, "received")>>])
  /\ UNCHANGED <<queues, routed, closed, hooks, lastEvents, budgets>>

\* The error return without the first event.
SecondForgotten(c) ==
  /\ pc[c] = "second"
  /\ Goto(c, "idle", Idle)
  /\ UNCHANGED <<engine, queues, routed, closed, hooks, lastEvents, history,
                 budgets>>

\* Refused, or a storage error: the first event must not vanish.
SecondRefused(c) ==
  /\ pc[c] = "second"
  /\ Goto(c, "subscribers", work[c])
  /\ UNCHANGED <<engine, queues, routed, closed, hooks, lastEvents, history,
                 budgets>>
-----------------------------------------------------------------------------
(* fireStatusEvent, buildStatusEvent, enqueueEvent *)

\* Looks the charge up again instead of using the copy.
BuiltAfresh(s) == [s EXCEPT !.status = ledger[s.charge].status]
Built(s) == s

\* What was built last is announced first.
BuiltInOrder(events, ev) == Append(events, ev)
Announce(events, ev) == <<ev>> \o events

Build(c) ==
  LET w == work[c] IN
  /\ pc[c] = "build"
  /\ Goto(c, IF w.reverse /\ w.events = <<>> THEN "second" ELSE "subscribers",
          [w EXCEPT !.todo = Tail(@),
                    !.events = Announce(@, Built(Head(w.todo)))])
  /\ UNCHANGED <<engine, queues, routed, closed, hooks, lastEvents, history,
                 budgets>>

Unlocked == TRUE
RegistryFree == registryLock = None

ReadSubscribers(c) ==
  LET w    == work[c]
      subs == Subscribers(Head(w.events).type)
  IN /\ pc[c] = "subscribers" /\ RegistryFree
     /\ Goto(c, IF subs = {} THEN "record" ELSE "enqueue",
             [w EXCEPT !.subs = subs, !.sent = {}])
     /\ UNCHANGED <<engine, queues, routed, closed, hooks, lastEvents, history,
                    budgets>>

\* dispatch.Enqueue: an error (closed) is not reported further.
Accepts(h, ev) ==
  IF closed THEN UNCHANGED queues ELSE Queues!Accept(h, ev)

ReachedAnyway(sent, h) == sent \cup {h}
Reached(sent, h) == IF closed THEN sent ELSE sent \cup {h}

EnqueueTo(c, h) ==
  LET w    == work[c]
      left == w.subs \ {h}
  IN /\ pc[c] = "enqueue" /\ h \in w.subs
     /\ Accepts(h, Head(w.events))
     /\ Goto(c, IF left = {} THEN "record" ELSE "enqueue",
             [w EXCEPT !.subs = left, !.sent = Reached(@, h)])
     /\ UNCHANGED <<engine, routed, closed, hooks, lastEvents, history, budgets>>

RecordAlways(sent) == TRUE
Recordable(sent) == sent # {}

KeptUntilSent(w) == IF w.sent = {} THEN w.events ELSE Tail(w.events)
Others(w) == Tail(w.events)

\* lastEvents.set, then the next event, the next charge, or the return.
RecordLast(c) ==
  LET w    == work[c]
      ev   == Head(w.events)
      rest == Others(w)
  IN /\ pc[c] = "record"
     /\ lastEvents' = IF Recordable(w.sent)
                      THEN [lastEvents EXCEPT ![ev.charge] =
                              [event |-> ev, hooks |-> w.sent]]
                      ELSE lastEvents
     /\ Goto(c, IF rest # <<>> THEN "subscribers"
                ELSE IF w.todo # <<>> THEN "build" ELSE "idle",
             [w EXCEPT !.events = rest, !.sent = {}])
     /\ UNCHANGED <<engine, queues, routed, closed, hooks, history, budgets>>

\* Duplicate-delivery: the last event again, to the webhooks it went to.
Replay(c, ch) ==
  /\ pc[c] = "idle" /\ replays < MaxReplays
  /\ ch \in DOMAIN ledger /\ lastEvents[ch] # None
  /\ replays' = replays + 1
  /\ Goto(c, "replay", [Idle EXCEPT !.events = <<lastEvents[ch].event>>,
                                    !.subs = lastEvents[ch].hooks])
  /\ UNCHANGED <<engine, queues, routed, closed, hooks, lastEvents, history,
                 restarts>>

ReplayTo(c, h) ==
  LET left == work[c].subs \ {h} IN
  /\ pc[c] = "replay" /\ h \in work[c].subs
  /\ Accepts(h, Head(work[c].events))
  /\ Goto(c, IF left = {} THEN "idle" ELSE "replay",
          [work[c] EXCEPT !.subs = left])
  /\ UNCHANGED <<engine, routed, closed, hooks, lastEvents, history, budgets>>
-----------------------------------------------------------------------------
(* Webhooks *)

\* RegisterEndpoint under a name nobody has yet.
CreateWebhook(c, h, entry) ==
  /\ pc[c] = "idle" /\ ~closed /\ routed[h] = None
  /\ routed' = [routed EXCEPT ![h] = entry.target]
  /\ Goto(c, "add", [Idle EXCEPT !.hook = h, !.entry = entry])
  /\ UNCHANGED <<engine, queues, closed, hooks, lastEvents, history, budgets>>

AddToRegistry(c) ==
  /\ pc[c] = "add" /\ RegistryFree
  /\ registry' = [registry EXCEPT ![work[c].hook] = work[c].entry]
  /\ Goto(c, "idle", Idle)
  /\ UNCHANGED <<engine, queues, routed, closed, registryLock, lastEvents,
                 history, budgets>>

Or(new, old) == IF new = None THEN old ELSE new

Updated(entry, u) == [target  |-> Or(u.target, entry.target),
                      enabled |-> Or(u.enabled, entry.enabled),
                      wants   |-> Or(u.wants, entry.wants)]

\* webhooks.update up to the call of UpdateEndpoint, which is made, with the
\* registry still locked, only for a new URL or token.
UpdateWebhook(c, h, u) ==
  LET entry == Updated(registry[h], u)
      after == IF u.target # None THEN "push"
               ELSE IF u.resume THEN "resume" ELSE "idle"
  IN /\ pc[c] = "idle" /\ RegistryFree /\ registry[h] # None
     /\ registry' = [registry EXCEPT ![h] = entry]
     /\ registryLock' = IF after = "push" THEN c ELSE registryLock
     /\ entitled' = [t \in DOMAIN entitled |-> entitled[t] \ {h}]
     /\ Goto(c, after, [Idle EXCEPT !.hook = h, !.entry = entry,
                                    !.resume = u.resume])
     /\ UNCHANGED <<engine, queues, routed, closed, lastEvents, reversed,
                    budgets>>

KeptOnError == IF closed THEN registryLock ELSE None
Released == None

\* UpdateEndpoint, and the end of the locked section, error or not.
PushToDispatcher(c) ==
  LET w == work[c] IN
  /\ pc[c] = "push"
  /\ routed' = IF closed THEN routed
               ELSE [routed EXCEPT ![w.hook] = w.entry.target]
  /\ registryLock' = Released
  /\ Goto(c, IF w.resume /\ ~closed THEN "resume" ELSE "idle", w)
  /\ UNCHANGED <<engine, queues, closed, registry, lastEvents, history, budgets>>

ReactivateQueue(c) ==
  /\ pc[c] = "resume"
  /\ IF closed THEN UNCHANGED queues ELSE Queues!Resume(work[c].hook)
  /\ Goto(c, "idle", Idle)
  /\ UNCHANGED <<engine, routed, closed, hooks, lastEvents, history, budgets>>
-----------------------------------------------------------------------------
(* The dispatcher's own steps, and the process *)

Dispatching ==
  /\ \E h \in Hooks : Queues!Deliver(h) \/ Queues!Fail(h)
  /\ UNCHANGED <<engine, routed, closed, hooks, lastEvents, pc, work, history,
                 budgets>>

\* disp.Close, which does not wait for handlers that outlive Shutdown's
\* five seconds.
CloseDispatcher ==
  /\ ~closed /\ closed' = TRUE
  /\ UNCHANGED <<engine, queues, routed, hooks, lastEvents, pc, work, history,
                 budgets>>

\* Only the charges can be in a file; the rest was in memory.
Restart ==
  /\ restarts < MaxRestarts
  /\ restarts' = restarts + 1
  /\ Books!Reopen
  /\ accepted' = [h \in Hooks |-> <<>>] /\ delivered' = [h \in Hooks |-> <<>>]
  /\ streak' = [h \in Hooks |-> 0] /\ paused' = [h \in Hooks |-> FALSE]
  /\ routed' = [h \in Hooks |-> None]
  /\ closed' = FALSE
  /\ registry' = [h \in Hooks |-> None] /\ registryLock' = None
  /\ lastEvents' = [ch \in ChargeIds |-> None]
  /\ pc' = [c \in Callers |-> "idle"] /\ work' = [c \in Callers |-> Idle]
  /\ entitled' = [t \in ChargeIds \X Announced |-> {}]
  /\ reversed' = {}
  /\ UNCHANGED replays

Arrive(c) ==
  \/ \E ch \in ChargeIds :
       \/ \E due \in Times : CreatePayment(c, ch, due)
       \/ \E to \in {"confirmed", "received"} : Trigger(c, ch, to)
       \/ OutOfOrder(c, ch)
       \/ Replay(c, ch)
  \/ \E target \in Times : ClockAdvance(c, target)
  \/ \E h \in Hooks :
       \/ \E entry \in Entries : CreateWebhook(c, h, entry)
       \/ \E u \in Updates : UpdateWebhook(c, h, u)

Proceed(c) ==
  \/ SecondTransition(c) \/ SecondRefused(c)
  \/ Build(c) \/ ReadSubscribers(c) \/ RecordLast(c)
  \/ \E h \in Hooks : EnqueueTo(c, h) \/ ReplayTo(c, h)
  \/ AddToRegistry(c) \/ PushToDispatcher(c) \/ ReactivateQueue(c)

Next ==
  \/ Dispatching \/ CloseDispatcher \/ Restart
  \/ \E c \in Callers : Arrive(c) \/ Proceed(c)

Spec == Init /\ [][Next]_vars

\* A handler goes on, and a mutex that is freed again and again is given to
\* everyone who waits for it (Go's mutexes do not starve a waiter).
Fairness ==
  \A c \in Callers : /\ WF_vars(Proceed(c))
                     /\ SF_vars(ReadSubscribers(c))
                     /\ SF_vars(AddToRegistry(c))

FairSpec == Spec /\ Fairness
-----------------------------------------------------------------------------
(* Invariants *)

TypeOK ==
  /\ time \in Times
  /\ DOMAIN ledger \subseteq ChargeIds
  /\ accepted \in [Hooks -> Seq(Events)] /\ delivered \in [Hooks -> Seq(Events)]
  /\ streak \in [Hooks -> 0..FailureThreshold] /\ paused \in [Hooks -> BOOLEAN]
  /\ routed \in [Hooks -> Targets \cup {None}]
  /\ closed \in BOOLEAN
  /\ \A h \in Hooks : registry[h] # None => registry[h] \in EntryShape
  /\ registryLock \in Callers \cup {None}
  /\ \A ch \in ChargeIds : lastEvents[ch] # None =>
       lastEvents[ch] \in [event : Events, hooks : (SUBSET Hooks) \ {{}}]
  /\ pc \in [Callers -> Places]
  /\ entitled \in [ChargeIds \X Announced -> SUBSET Hooks]
  /\ reversed \subseteq ChargeIds
  /\ replays \in 0..MaxReplays /\ restarts \in 0..MaxRestarts

\* The registry and the dispatcher keep a webhook's URL and token twice.
\* Whenever nobody holds the registry's lock they agree, however updates race
\* (webhook.go:64-69).
StoresAgree ==
  registryLock = None /\ ~closed =>
    \A h \in Hooks : registry[h] # None => routed[h] = registry[h].target

\* An event tells of the transition it was fired for, whatever happened to the
\* charge before it was built (engine.go:267-272).
EventsTellTheirTransition ==
  \A h \in Hooks : \A i \in DOMAIN accepted[h] :
    accepted[h][i].status = accepted[h][i].type

\* A caller that has yet to announce that ch became status.
Carries(c, ch, status) ==
  \E ev \in ToSet(work[c].todo) \cup ToSet(work[c].events) :
    pc[c] # "replay" /\ ev.charge = ch /\ ev.type = status

\* No announcement vanishes: a webhook that wanted a status when a charge took
\* it, and was left alone since, has the event in its queue once the handler
\* is done with it, also when out-of-order fails half way (chaos.go:208-214).
WantedEventsArrive ==
  ~closed =>
    \A ch \in ChargeIds : \A status \in Announced :
      \/ \E c \in Callers : Carries(c, ch, status)
      \/ \A h \in entitled[<<ch, status>>] :
           Snapshot(ch, status) \in ToSet(accepted[h])

\* What chaos replays has really been queued, at every endpoint it names.
ReplaysAreReplays ==
  \A ch \in ChargeIds : lastEvents[ch] # None =>
    \A h \in lastEvents[ch].hooks : lastEvents[ch].event \in ToSet(accepted[h])

\* Out-of-order does what it is for: a queue that gets both of its events gets
\* RECEIVED first (chaos.go:183-187).
OutOfOrderReverses ==
  \A ch \in reversed : \A h \in Hooks : \A i \in DOMAIN accepted[h] :
    accepted[h][i] = Snapshot(ch, "confirmed")
      /\ Snapshot(ch, "received") \in ToSet(accepted[h])
    => \E j \in 1..i : accepted[h][j] = Snapshot(ch, "received")

\* What lastevent.go:3-4 says of the store: it tracks the most recent event
\* this facade enqueued for a charge.
LastEventIsLatest ==
  (\A c \in Callers : pc[c] = "idle") =>
    \A ch \in ChargeIds : lastEvents[ch] # None =>
      \A h \in lastEvents[ch].hooks :
        LET mine == SelectSeq(accepted[h], LAMBDA ev : ev.charge = ch)
        IN mine[Len(mine)] = lastEvents[ch].event
-----------------------------------------------------------------------------
(* Action and temporal properties *)

\* How far a handler is from its return: a second transition to come, charges
\* and events to announce, the place, webhooks to send to.
StagesLeft == [idle |-> 0, build |-> 1, second |-> 1, replay |-> 1, add |-> 1,
               resume |-> 1, record |-> 1, enqueue |-> 2, push |-> 2,
               subscribers |-> 3]

ToDo(c) ==
  LET w == work[c] IN
  <<IF \/ pc[c] = "second"
       \/ pc[c] = "build" /\ w.reverse /\ w.events = <<>>
    THEN 1 ELSE 0,
    2 * Len(w.todo) + Len(w.events),
    StagesLeft[pc[c]],
    Cardinality(w.subs)>>

\* A handler does not go round in circles: whatever the others do meanwhile, a
\* step of its own brings it nearer to its return, also where it starts again
\* for the next event or charge (webhook.go:121-163, chaos.go:183-240).
HandlersWindDown ==
  [][\A c \in Callers :
       Proceed(c) =>
         ToDo(c)' \in Measures(4) /\ Nearer(ToDo(c)', ToDo(c))]_vars

\* Every request is answered: no handler waits for ever for the registry, the
\* only lock under which another one is taken (webhook.go:320-327).
HandlersReturn == \A c \in Callers : pc[c] # "idle" ~> pc[c] = "idle"
=============================================================================
