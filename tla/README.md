# A TLA+ model of localpsp

localpsp emulates a payment provider (Asaas): an HTTP facade, an engine that
owns charges, a virtual clock and a SQLite file, and a dispatcher that delivers
webhooks to the application under test. This directory models the parts of it
where order, concurrency and failure decide whether it is right, checks them
with TLC and proves the most important facts with TLAPS.

## 1. Inventory

| part | state it keeps | operations | what is hard |
| --- | --- | --- | --- |
| dispatcher (`dispatch/dispatch.go`) | `closed`, `ctx`, `wg`, the endpoints, the log | `New`, `Close` | a `Close` racing a registration or a second `Close`; loops that must stop wherever they are |
| endpoint queues (`dispatch/endpoint.go`) | `config`, `pending`, `consecutiveFailures`, `interrupted`, `syntheticFailures`, the one-slot `wake` channel | `RegisterEndpoint`, `Enqueue`, `UpdateEndpoint`, `Reactivate`, `InjectFailures` | the wake-up is sent after the unlock; a resume while an attempt is in flight |
| delivery loop (`dispatch/loop.go`) | one goroutine per endpoint | `nextDelivery`, `deliver`, `recordAttempt`, `finishAttempt`, two `select`s | the head is read under one lock and popped under another; timeouts of requests that were processed; the threshold |
| delivery log (`dispatch/log.go`) | `d.log` | `recordAttempt` | written before the outcome is applied |
| engine (`engine/engine.go`) | `mu`, and the three below | `CreateCustomer`, `CreateCharge`, `CreateSubscription`, `TransitionCharge`, `AdvanceClock`, `NextID` | several SQL statements under one mutex, any of which may fail; the clock moves last |
| charge lifecycle (`engine/charge.go`) | a status per charge | `CanTransition`, `Transition` | a confirmation racing the due sweep |
| store (`engine/store.go`) | three tables, one connection | inserts, lookups, one batch transaction | the pool of one connection; partial batches; instants kept and compared as text, parsed again by every scan |
| ids, clock (`engine/id.go`, `clock/`) | a counter, an instant | `next`, `Advance` | both start again with the process, the file does not |
| facade (`providers/asaas/`) | webhook registry, last fired event per charge, echo stores | create/update webhook, confirm, trigger, clock advance, four chaos scenarios | handlers that call engine, registry, dispatcher and last-event store one after the other, under a lock each or none |
| state endpoint (`admin.go`) | none | one response out of three tables, the queues and the log | read piece by piece, each under its own lock, or not at all when one row does not scan |
| money, durations (`money.go`, `admin.go:192`) | none | reais to cents and back, days to a `time.Duration` | binary fractions; floats out of the range of an int64 |
| server and CLI (`cmd/localpsp/`) | none | start, stop; one request per command | a restart on an old file |

A request enters the facade, which calls the engine and then hands events to the
dispatcher. Engine and dispatcher know nothing of each other. Each has one
mutex; the facade's registry and last-event store have one each. The only lock
taken inside another is the dispatcher's inside the registry's (`webhook.go:321`).

Tests cover each of these operations alone and a few races of two. What they
hardly reach, and what `PROJECT.json` lists line by line under "hazards", is: a
step of a second goroutine between two steps of the first; a statement that
fails half way through a batch; a stop and a new start on the same file; a
request the receiver processed although the sender gave up; the threshold
reached by a mixture of real and injected failures.

What makes each part correct:

- **Dispatcher.** Per endpoint: every event accepted is delivered, in order,
  once or more; a queue pauses exactly at the threshold, is then quiet, and
  continues after a resume; no wake-up is lost; `Close` ends all loops.
- **Engine.** Every operation is indivisible for its callers although it is
  several statements: a charge moves only along its lifecycle, `AdvanceClock`
  flips all due charges and the clock or nothing, and reports what it did. No
  lock or connection is kept. Ids are new.
- **Store and values.** Comparing text finds the charges that are due; what was
  written can be read; an amount is stored as it was asked for; an advance goes
  forward.
- **State endpoint.** One response, read at several moments, hides no event and
  shows the failures that explain its counts.
- **Facade.** A transition is announced to whoever subscribed, with the right
  content, exactly when it was committed; registry and dispatcher agree; the
  chaos scenarios produce the disturbance they are named for and no other.

## 2. Modules

```
  Facade     --INSTANCE-->  Ledger         Engine   --implements-->  Ledger
     '-------INSTANCE-->  DeliveryQueue    Dispatch --implements-->  DeliveryQueue
  Chaos      --EXTENDS--->  Dispatch
  AdminState --EXTENDS--->  Dispatch
  Calendar   --EXTENDS--->  Values
  Dispatch, Facade --EXTENDS--->  Progress
```

The two large components have an abstract specification each, which the
detailed one implements. The facade is modelled on top of the abstract ones, so
that its handlers can be checked against every interleaving without the detail
of SQL and HTTP. The chaos scenarios depend on the details of the
failure counters, the state endpoint on the moments at which the queue and the
log change; both run on `Dispatch` itself. `Calendar` has the engine's
operations in one step each, which `RefinesLedger` justifies, and instead the
columns of its tables as what they are, text.

| module | models | state and actions in the code |
| --- | --- | --- |
| `DeliveryQueue` | what a webhook queue promises | abstract: accepted, delivered, streak, paused |
| `Dispatch` | `dispatch/` | variables named after the fields of `Dispatcher` and `endpointState`; `pc[ep]` is where `run` is; one action per critical section of `d.mu` and per step outside it (the wake-up after the unlock, the send, the response, the two selects); `BeginClose`, `CancelContext`, `WaitForLoops` are `Close`; `TakeUpLate` is the receiver's, with a request out of `abandoned`, those the client gave up |
| `Ledger` | what the engine promises | abstract: a table of charges and a clock, every operation one step |
| `Engine` | `engine/`, `clock/` | `mu`, `now`, `counter`, the three tables, `tx` for the open transaction; `pc[c]` and `call[c]` are a caller's place and locals; one action per statement, plus the statement's failure; `Restart` is the process |
| `Facade` | `providers/asaas/` handlers, `serve.go` | `registry`, `lastEvents` and the dispatcher's copy `routed`; a handler is `pc[c]` and `work[c]`; one action per call of another component |
| `Chaos` | `providers/asaas/chaos.go`, retry-storm and queue-interrupt | extends `Dispatch` with requests that inject and enqueue endpoint by endpoint |
| `AdminState` | `handleAdminState` (`admin.go:147-174`), `State`, `DeliveryLog` | extends `Dispatch` with the response in the making, `snapshot`; `ReadState` and `Respond` are its two critical sections. An endpoint's queue is read once; the endpoints are independent of each other |
| `Values` | `store.go:13-17,79-85`, `money.go`, `admin.go:202` | operators: `FormatTime`, `Parses`, SQLite's comparison `AtOrBefore`; `ToInt64`; `Float` (built from `Places`, `Lost`, `Nearest`: the exponent and the rounded mantissa), `centsToReais`, `reaisToCents` |
| `Progress` | no code: what it means that a step brings an end nearer | `Nearer` compares two tuples of numbers, the first one that differs decides; the tuples, `ToDo`, are in `Dispatch` and `Facade` |
| `Calendar` | the file under a clock that goes anywhere | the three tables with their instants as text; `machine` is what the build makes of a float out of range, `now` the clock; `AdvanceRefused` is the advance whose list of due charges fails to scan; `ListState` is whether `admin.go:88-105` can answer |
| `DispatchProofs`, `EngineProofs`, `FacadeProofs`, `CalendarProofs`, `AdminStateProofs`, `ChaosProofs`, `ProgressProofs` | theorems and lemmas about the module they are named after | |
| `AnnouncementProofs` | theorems about the events `Facade` announces; extends `FacadeProofs` | |
| `MCDispatch`, `MCAdminState`, `MCEngine`, `MCFacade`, `MCChaos`, `MCCalendar` | instances for TLC | |

### What is abstracted, everywhere on purpose

- A call the code refuses without changing anything has no action. A caller that
  waits for a mutex it takes first is in the same state as one that has not
  called yet.
- The one delivery log is modelled as its projection on each endpoint; a
  `Place` in `Dispatch` stands for the code between two points where another
  goroutine can be seen.
- An id is the counter value it is derived from: the hash of `id.go` is taken to
  be injective. In `Facade` an event is told apart by its charge and type,
  because a charge takes each status at most once in a process.
- A SQL statement that fails has no effect. (SQLite rolls a failed statement
  back; a failed `Commit` ends the transaction in `database/sql`.)
- Descriptions, names, email addresses, billing types and send types are echoed
  or decide a refusal; they are left out. Amounts are in `Calendar` alone, and
  not in its rows: what a build makes of an amount depends on nothing else.
- An instant in `Values` is ten times its year plus one digit. Month, day and
  time of day are text of fixed width in every layout the code uses, so one
  digit behind the year has their order; the year's width is what varies.
  A year of five digits has a fifth character, one before 0 a sign.
- A float64 in `Values` has `Precision` bits, and the largest duration and the
  largest amount are constants: `int64` scaled down. The language leaves a
  conversion out of range open; the two outcomes that Go's compilers for amd64
  and arm64 produce are the members of `Machines`, and one is chosen for good at
  the start.
- A response leaves the process when the handler returns, because `net/http`
  buffers it, so the order of `writeJSON` and `fireStatusEvent` in
  `payment.go:161-163` is not visible to a client. (A response longer than the
  buffer is; no property depends on it.)
- `Enqueue` to several subscribers is in an arbitrary order; the code sorts by
  id. Every order is covered.
- In `Chaos`, the endpoints a last event went to are any endpoints that did
  accept it: `Facade!ReplaysAreReplays` shows that the store names no other.
- A request is where it is for the receiver: `receipts` are those it took up, in
  its order, `abandoned` those the client gave up (`client.Timeout`, a done
  context) before that. Giving up says nothing of where the request is: it may
  be taken up at any later time, behind the retry or later events, or never
  (`TakeUpLate`). A request taken up in time and not answered in time is
  `RespondFails`. The network does not double a request: one connection carries
  it, and `net/http` does not repeat a POST of which it has written anything.
- Histories (`accepted`, `delivered`, `receipts`, `trail`, `swept`, `flipped`,
  `strayed`, `asked` of a row, `entitled`, `reversed`, `crowded`, `asked`,
  `awaited`, `stirred`) are read by properties only.

## 3. Runs

Every bound is a constant named `Max...` and counted in a guard. They are the
smallest with which the interesting cases occur; which those are is in the
last column.

| run | properties | instance, and why it is enough |
| --- | --- | --- |
| `dispatch` | types; `QueueConservation`, `AttemptStaysValid`, `InterruptedIffThreshold`, `StreakMatchesLog`, `LogShowsDeliveries`, `ReceiverSeesQueueOrder`, `NoLostWakeup`, `RefinesDeliveryQueue`; `ResponseAccountsForEvents`, `ResponseExplainsFailures` | `AdminState`: one endpoint (endpoints share only lock, wait group and context), two events, threshold 2, two real failures and an injected one: a queue is interrupted by either kind or a mixture, and resumed with an attempt in flight, between the two reads of a response as well. The requests of an endpoint's first two attempts may come late (`MaxLate`): behind the retry, behind each other in either order, behind the next event's |
| `dispatch_pair` | `WaitGroupCountsLoops`, `CloseTerminates` | fair; two endpoints registered, reconfigured and resumed before `Close`, or refused; one request fails, comes late or never, and is retried; once the context is done requests fail by themselves, up to the threshold of 2 |
| `dispatch_close_again` | `CloseWaitsForLoops`, violated | finding 1 |
| `engine` | types; `LegalTrails`, `ReportMatchesDatabase`, `NoConnectionLeak`, `FreshUntilReopened`, `NoDueChargeLeftBehind`, `RefinesLedger` | two callers, a clock that also moves back, one failing statement, a stop at any statement and a new process on the file. Two ids are enough for a batch of two charges: the second process mints them again |
| `engine_ids` | `FreshIds`, violated | finding 2 |
| `facade` | types; `EventsTellTheirTransition`, `WantedEventsArrive`, `ReplaysAreReplays`, `OutOfOrderReverses` | two requests at once over one charge and two webhooks, one wanting everything and one a single event, created between any two enqueues; a charge due exactly at the new instant; a replay; `Close` at any moment |
| `facade_update` | `StoresAgree`, `WantedEventsArrive`, `HandlersWindDown`, `HandlersReturn` | fair; two updates to different URLs, switching off and resuming among handlers that fire events, also between the list of subscribers and the loop over it; `Close`, a restart |
| `facade_last` | `LastEventIsLatest`, violated | finding 3 |
| `chaos` | `LoneStormEnds`, `InterruptionIsOwed`, `LoopsWindDown`, `InterruptInterrupts`, `EventsSettle` | fair; two chaos requests in progress, other events, resumes, `Close`; a receiver that never fails, because failures of its own only help an interruption (requests given up at a `Close` come late). Three events are the one that is replayed and a replay by each request, or another event in the place of one |
| `chaos_storm` | `StormNeverInterrupts`, violated | finding 4 |
| `calendar` | types; `SweepMissesNone`, `StateAnswersInTime`, `AmountsSurvive`, `UnreadableStaysAsItIs`, `UnreadableHoldsClock` | one row in each table; a clock in the year 2026, one before 0 and the years 9999 and 10000, reached and left in any order, and a restart; due dates of the years 1000 to 9999; the amounts of 1 to 63 cents in floats of eight bits and two that are too large; both machines |
| `calendar_days` | `AdvanceMovesForward`, violated | finding 5 |

In `calendar` one advance by the largest duration stands for the many that lead
to the year 10000: a `time.Duration` is 292 years, and twenty-eight of them do.
A single row of each table is enough, because a scan fails with any one row and
the sweep looks at each charge alone; that one stuck charge holds the clock for
all others is what `Listed` says and `UnreadableHoldsClock` checks. What the
order of text does beyond the years of four digits is in section 5.

`Engine` compares instants as numbers, so `NoDueChargeLeftBehind` and
`RefinesLedger` speak of clocks inside the years of four digits, where the two
orders are one (`TextOrderIsTimeOrder`); `Calendar` has the others.

`FreshUntilReopened` is what is left of `FreshIds` besides finding 2: a failed
insert spends its id, callers share the counter, and only a second process mints
an id again.

The facade announces the charges of a batch one after the other, and its runs
have one charge. (With two charges and one caller, 2.6 million states,
`WantedEventsArrive` holds as well.)

Symmetry is declared only in runs without liveness, and only for sets whose
elements are compared for equality alone. Deadlock is checked in every run; in
`Dispatch` and `Chaos` it says little once the dispatcher is closed, because a
further `Close` is always possible there, and the progress of `Close` is the
property `CloseTerminates`.

Each property of a passing run has a mutant: a definition next to the one it
replaces, changed the way a plausible bug would change it
(`RollbackForgotten`, `CommitUnchecked`, `QueuedInFront`, `SecondForgotten`,
`TrimmedTime`, `SkipsUnreadable`...). Mutants are not used by any specification.

### Fairness

- `Dispatch`: none of the receiver. Weak fairness of each loop, of the wake-up a caller owes after its
  unlock, and of the two steps of a `Close` that started. The Go scheduler runs
  every runnable goroutine; `client.Timeout` (`dispatch.go:84`) ends every
  request; a timer ends every retry select. Nobody is obliged to call, no
  request has to succeed, and no queue has to be resumed.
- `Engine`: none. Its operations are straight-line code under one mutex; what
  could stop one is a connection that is not given back, and that is the
  invariant `NoConnectionLeak`.
- `Facade`: weak fairness of each handler, and strong fairness of the two steps
  that wait for the registry's mutex, which others can take and release in
  between for ever: a Go mutex hands itself to a waiter of more than a
  millisecond (starvation mode).
- `Chaos`: as in `Dispatch`, and a request goes on. (`EventsSettle` is about
  `Dispatch` and is checked here, where more happens to a queue, as is
  `LoopsWindDown`.)
- `AdminState`, `Calendar`: none.

## 4. Proofs

`DispatchProofs` proves, for any endpoints, events, threshold and bounds that
satisfy `DispatchAssumption` (finitely many endpoint names, a positive
threshold, natural bounds):

| theorem | statement | argument |
| --- | --- | --- |
| `TypeCorrect` | `Spec => []TypeOK` | inductive as it stands, one step per action; `LoopTypes` carries that an attempt has an event |
| `NothingIsLost`, `PopsWhatItSent`, `InterruptedAtThreshold` | `[]` of `QueueConservation`, `AttemptStaysValid`, `InterruptedIffThreshold` | `QueueInv`, the three together (`QueueInvariance`): popping without looking is right only because the head is the event under delivery, which holds because callers only append; that an interrupted queue sends nothing needs the threshold, the threshold needs the reset by success |
| `DispatcherRefinesQueue` | `Spec => RefinesDeliveryQueue` | under `QueueInv` every step is a step of the abstract queue or a stutter (`StepRefines`) |
| `WakeupsAreKept` | `Spec => []NoLostWakeup` | inductive with the types |
| `CloseWaits` | `Spec => []WaitGroupCountsLoops` | `WaitGroupInv` adds that cancelling and waiting come after closing, so no loop starts later |
| `StreakIsWhatTheLogShows` | `Spec => []StreakMatchesLog` | `StreakInv` adds bounds on `reactivatedAt` and what the entry between record and finish holds; a step of one endpoint leaves the others alone |
| `RequestsKeepTheOrder` | `Spec => []ReceiverSeesQueueOrder` | `OrderInv` has two halves. `SentInv` places every request, taken up or given up, in the queue and among the attempts: at most at the event under delivery, later attempts at the same event or a later one, and what may still come late is in the log as a failure or is about to be. `ReceivedInv` is the property with what answers the attempt under way. A late request makes no gap, because its event is under delivery or delivered, and then everything before it was received |
| `LogTellsDeliveries` | `Spec => []LogShowsDeliveries` | `LogInv` adds that between `recordAttempt` and `finishAttempt` the last entry is the attempt about to be applied. The property counts the successes in the log (`SuccessesUpTo`) instead of filtering it, so that no induction over the log is needed |
| `LoopsRest` | `Spec => LoopsWindDown` | `ToDo` of an endpoint is its pending events, the failures left until it is interrupted, the signals still to come, the place of its loop, in this order of weight. Every step of the loop lowers it: a success takes an event away, a failure comes nearer to the threshold, a wake-up in vain uses up its signal, everything else moves on. It needs `QueueInv` (a head to pop) and `StreakStops`: a queue at the threshold hands nothing out |

`ProgressProofs` has the lemmas about measures that these proofs and those of the
facade rest on. A measure is a tuple of natural numbers, and such a tuple cannot
be lowered for ever; so the steps that `LoopsRest` and `HandlersRest` speak of
are finitely many unless somebody calls, or, for handlers, without any condition.

`AdminStateProofs` and `ChaosProofs` extend `DispatchProofs`, for any values that
satisfy `DispatchAssumption` and, in `ChaosProofs`, `ChaosAssumption`:

| theorem | statement | argument |
| --- | --- | --- |
| `ReaderChangesNothing`, `ChaosOnlyCalls` | `AdminSpec => Spec`, `ChaosSpec => Spec` | the reader writes nothing of the dispatcher's, and a chaos request calls it with numbers and events it accepts (`PlansInv`). So every theorem about `Dispatch` holds while its state is read and while chaos is injected |
| `ResponsesExplainFailures`, `ResponsesAccountForEvents` | `AdminSpec => []` of `ResponseExplainsFailures`, `ResponseAccountsForEvents` | `SnapshotInv`: when a queue is read its streak is the end of the log (from `StreakInv`), and each event is pending or delivered; from then on log and deliveries only grow (`HistoryGrows`); a delivery is a success in the log (from `LogInv`) |
| `LoneStormsEnd` | `ChaosSpec => []LoneStormEnds` | `StormInv`: unless the receiver failed, the dispatcher was cancelled, an interruption was asked for or the storm came to a queue that was not settled, the failures counted, under way and still owed together stay below the threshold, and only injected ones are counted. The sum is what is inductive: a failure moves from owed to under way to counted |
| `InterruptionsAreOwed` | `ChaosSpec => []InterruptionIsOwed` for a threshold of at most the default | `InterruptInv`: from the injection on, until the queue is interrupted or the promise is void (`Moot`: resumed, injected into again, closed), the failures counted, under way and owed reach the threshold, and while a real attempt is in flight those owed reach it by themselves, because its success would clear the streak; once the events are queued there is one to fail at, and two while such an attempt may take one along. `SyntheticFails`: an attempt that was handed out as a failure ends as one |

`FacadeProofs` proves, for any callers, webhooks, targets and updates that
satisfy `FacadeAssumption` (the value that stands for "nothing" is none of them, and the
webhooks are finitely many):

| theorem | statement | argument |
| --- | --- | --- |
| `StoresStayTogether` | `Spec => []StoresAgree` | `StoresInv`: who is between the two writes of an update holds the registry and pushes what it wrote (`Pushing`); a webhook not yet added is already routed as its entry says and has one adder (`Adding`); the stores differ at most in the webhook being pushed (`Agreeing`). The invariant needs all of it, because without the lock the pushed entry need not be the stored one |
| `EventsAreHonest` | `Spec => []EventsTellTheirTransition` | `Told`: every event in a queue, in a handler's locals and in the last-event store is honest, its status that of its type, because a handler builds it from the copy its transition returned |
| `ReplaysRepeat` | `Spec => []ReplaysAreReplays` | `Told` also carries that the endpoints a handler has already enqueued to hold its event, so that what it records is true, and that queues only grow |
| `FacadeTypes` | `Spec => []TypeOK` | `TypeInv` is `StoresInv` and `Told` with the types of the rest; that a streak stays at most the threshold needs that a running queue is below it |
| `FacadeKeepsToLedger` | `Spec => Books!LedgerSpec` | a handler makes one operation of the ledger in one step, or none. With `EngineImplementsLedger`, what the engine was proved to do is what the facade relies on |
| `FacadeKeepsToQueues` | `Spec => Queues!QueueInit /\ [][Queues!QueueNext \/ Restart]_queues` | the same for the queues while the process lives; a restart empties them, which is no step of `DeliveryQueue` |

`AnnouncementProofs`, under the same assumption:

| theorem | statement | argument |
| --- | --- | --- |
| `AnnouncementsArrive` | `Spec => []WantedEventsArrive` | `Announcing`: unless the dispatcher is closed, each announced status has its event queued at all who are entitled to it, or some handler still owes it (`Owes`): the event waits in its locals, or is at its head, and then whoever is entitled and not yet reached is in the list of subscribers the handler works through. `EntitledListed` is why that list names them: who is entitled is still subscribed when it is read, because only an update unsubscribes and an update ends the entitlement. `Shaped` says which events a handler can have where |
| `OutOfOrderIsReversed` | `Spec => []OutOfOrderReverses` | `OrderInv`, of six parts. No event is anywhere before its charge took that status (`StatusesTaken`), a charge takes a status once (`TransitionIsNew`, `StatusesMoveOn`), so the handler whose transition it was is the only one that can have the event at first; it keeps CONFIRMED to itself until RECEIVED is built (`HeldBack`) and until RECEIVED is in every queue it goes to (`InOrder`); a replay sends only what is in that queue already (`ReplayQueued`). Each step of a handler is one of three kinds (`Arrives`, `Continues`, `Doubles`), and all of them carry events in the same restricted way (`Spreads`) |
| `HandlersRest` | `Spec => HandlersWindDown` | `ToDo` of a handler: a second transition still to come, charges and events still to announce, the stage of the present one, the webhooks still to send to. Each of its steps lowers it, whatever other handlers, a close or a restart do in between; `Shaped` says what a handler can hold where, and finitely many webhooks are what makes the last number one |

`EngineProofs` proves, for any callers, ids, instants and durations that satisfy
`EngineAssumption`:

| theorem | statement | argument |
| --- | --- | --- |
| `TypeCorrect`, `TrailsStayLegal`, `NoDueChargeIsLeft`, `ReportsAreTrue`, `ConnectionIsGivenBack`, `IdsAreFresh` | `[]` of `TypeOK`, `LegalTrails`, `NoDueChargeLeftBehind`, `ReportMatchesDatabase`, `NoConnectionLeak`, `FreshUntilReopened` | `EngineInv` (`Invariance`): whoever does not hold `mu` is outside (`Excluded`); the holder is where its operation can be, an id it has minted is in no table, what it has read of a charge still holds, and the transaction shows exactly the due charges it has written (`Inside`); ids in the tables come from the counter while the first process lives (`Known`). None of the six is inductive alone: each needs that the locals read under the lock stay true |
| `EngineImplementsLedger` | `Spec => RefinesLedger` | the ledger's clock is `BooksTime`, the engine's or, between the commit of a batch and `MoveClock`, the target of the advance. Under `EngineInv` the commit, or an empty list of due charges, is the ledger's `Advance`, `MoveClock` a stutter, `Restart` its `Reopen`, a statement that fails or a rollback a stutter |

`CalendarProofs` proves, for any ids, instants, due dates, days and bounds that
satisfy `CalendarAssumption` (due dates have years of four digits):

| theorem | statement | argument |
| --- | --- | --- |
| `TextOrderIsTimeOrder` | for instants of four digits, `AtOrBefore` of the texts is `<=` | the first position at which two texts differ decides both orders |
| `TypeCorrect`, `NoChargeIsMissed` | `[]` of `TypeOK`, `SweepMissesNone` | `CalendarInv` adds that a row's due date is the text of the date that was asked, and never changes |
| `UnreadableIsStuck`, `UnreadableHolds` | `Spec => UnreadableStaysAsItIs`, `Spec => UnreadableHoldsClock` | every operation that writes a row scans it first; an advance to an instant of four digits at or past the due date lists the charge, because there the order of text is that of time (`DueIsText`), and a list with a row that does not scan refuses the advance |
| `StateCanBeListed` | `Spec => []StateAnswersInTime` | `Legible`: as long as `strayed` is false, all instants in the tables are texts of four digits |
| `Survival` | `Spec => []AmountsSurvive` for floats of six bits or more and amounts that are `AmountsClear` | powers of two are positive and add up (`2^n` is counted as the subsets of `n` elements, because the provers have no induction over operators); a least counterexample shows that the searches in `Places` and `Lost` find something; then each of the two roundings is off by at most half a unit in its last place, and both together by less than half a cent. `AmountsClear` is the range in which that is so: with float64, amounts below 2^51 cents; and those of 2^64 cents and more, which are too large whatever the rounding does. Of the amounts in between nothing is claimed |

Every invariant and every action property of the passing runs is proved. Only
model-checked is liveness (`EventsSettle`, `InterruptInterrupts`,
`CloseTerminates`, `HandlersReturn`), because fairness and ENABLED are out of the
prover's reach. What is proved of it is its safety core: a loop and a handler
have finitely many steps to take (`LoopsRest`, `HandlersRest`); a loop with
something to deliver has a step of its own or a signal owed to it
(`WakeupsAreKept`); the lock that handlers wait for is held by one that is about
to push and waits for nobody (`Pushing`, in `StoresInv`); a `Close` waits for
the loops there are (`CloseWaits`); an interruption that was asked for has the
failures and
the event it needs (`InterruptionsAreOwed`). What fairness adds is that a step
that can be taken is taken. Of the violated properties nothing is proved. TLC
checked every invariant above, the strengthened ones included, before it was
proved.

## 5. What disagrees with its documentation

1. A second `Close` returns while loops still run; its comment says every call
   waits for them (`dispatch.go:113-120`, run `dispatch_close_again`).
2. A process started again with `--persist` mints the ids of its predecessor
   until the counter has passed them; inserts fail meanwhile (`id.go:34`, run
   `engine_ids`).
3. The "most recent event enqueued" of a charge can be an older one, because
   enqueueing and recording are separate (`webhook.go:158-163`, run
   `facade_last`).
4. Two retry storms below the threshold can interrupt a healthy queue; the check
   that is to prevent it looks at one request alone (`chaos.go:102`, run
   `chaos_storm`).
5. "handleClockAdvance moves the engine's virtual clock forward"
   (`admin.go:208`), but the number of days is converted to an int64 count of
   nanoseconds unchecked (`admin.go:202`): 300000 days move it back by 292 years
   on amd64 (run `calendar_days`).

Three more that have no run of their own. An advance that leaves the years of
four digits leaves charges unpaid that are due, although "any charge still in
StatusCreated whose due date has now passed becomes StatusOverdue"
(`engine.go:281-284`) and text of fixed width is to "compare correctly with plain
string ordering" (`store.go:13-17`): with the clock in 9900 and a charge due in
9950, an advance of 200 years succeeds and lists nothing, because "10100-..."
sorts before "9950-...". (Without its condition `FourDigits(swept.asOf)` TLC finds
`SweepMissesNone` violated in four states.) It also lets such a clock past an
unreadable charge, which otherwise holds it. Further, `FIDELITY.md:90-93` says
that pending events accumulate "forever, with `--persist`", but queues, log and
registry are in memory only (`Facade!Restart`). And queue-interrupt injects the
default number of failures (`chaos.go:156`), which does not interrupt a
dispatcher built with a larger `Options.FailureThreshold`. `serve` uses the
default, and the run `chaos` has both equal; with `FailureThreshold = 3` and
`DefaultFailureThreshold = 2` TLC finds `InterruptInterrupts` violated.

Hazards that no property covers are in `PROJECT.json` with the reason. Three
that a user may meet: a charge's description is kept after the charge is
committed (`payment.go:137`), so a clock advance in between builds an event
without it. A response with an instant beyond the year 9999 cannot be encoded,
and the error is dropped after the status was written (`errors.go:23`):
`Calendar` has the states in which it happens, a client sees an empty body.
Customer profiles and descriptions are in memory only, so after a restart on an
old file they are gone, as the registry is.

## 6. Not modelled

- HTTP routing, JSON, error mapping, the command line, the demo: stateless
  translation of requests, responses and flags, without an order of events to
  get wrong.
- `customerProfiles` and `paymentMeta`: they only echo what a request said.
- Reads that are one statement or one critical section and are answered with
  what they read: `Get...`, `List...`. (`handleAdminState`, which reads several
  times, is `AdminState` and `Calendar!ListState`.)
- Signals and the five seconds of `Shutdown`: `Close` may come at any moment,
  which includes "before a handler has ended".
- The layouts without a time of day (`timefmt.go`): `parseDate` gives a due date
  its four digits (`FourDigits`), `formatDate` echoes it.

## 7. Plan

Done: all modules of section 2, their runs, and proofs of all their safety
properties. The suite is a dozen runs and stays so.

Next, modelling: `Chaos` with two endpoints in one run. An injection that fails
half way because of a `Close` leaves failures owed at one endpoint and none at
the other. The theorems of `ChaosProofs` hold for any number of endpoints
already.
