---------------------------- MODULE ChaosProofs ----------------------------
(* What TLAPS proves of Chaos for every value of its constants. *)
EXTENDS Chaos, DispatchProofs

\* Requests under way have an event to enqueue, and a number of failures that
\* a retry storm keeps below the threshold (chaos.go:112-119).
PlansInv ==
  /\ DOMAIN place = Callers /\ DOMAIN plan = Callers
  /\ \A c \in Callers :
       /\ place[c] = "inject" =>
            /\ plan[c].n \in Nat /\ plan[c].event \in Events
            /\ plan[c].kind = "interrupt" \/ BelowThreshold(plan[c].n)
       /\ place[c] = "enqueue" => plan[c].event \in Events

\* One request moves on.
LEMMA AdvanceKeepsPlans ==
  ASSUME PlansInv, NEW c \in Callers, NEW to, NEW locals, Advance(c, to, locals),
         to = "inject" =>
           /\ locals.n \in Nat /\ locals.event \in Events
           /\ locals.kind = "interrupt" \/ BelowThreshold(locals.n),
         to = "enqueue" => locals.event \in Events
  PROVE  PlansInv'
BY DEF PlansInv, Advance

LEMMA PlansStep == PlansInv /\ [ChaosNext]_chaosVars => PlansInv'
<1> SUFFICES ASSUME PlansInv, [ChaosNext]_chaosVars PROVE PlansInv'
    OBVIOUS
<1>1. CASE UNCHANGED chaos
      BY <1>1 DEF chaos, PlansInv
<1>2. ASSUME NEW c \in Callers, NEW ev \in Events, NEW eps \in SUBSET Endpoints,
             NEW kind, NEW n \in Nat, kind = "interrupt" \/ BelowThreshold(n),
             Scenario(c, kind, n, ev, eps)
      PROVE  PlansInv'
  <2> DEFINE locals == [kind |-> kind, event |-> ev, n |-> n,
                        left |-> eps, again |-> eps]
  <2>1. locals.n = n /\ locals.event = ev /\ locals.kind = kind
        OBVIOUS
  <2>2. Advance(c, "inject", locals)
        BY <1>2 DEF Scenario
  <2> HIDE DEF locals
  <2> QED BY <1>2, <2>1, <2>2, AdvanceKeepsPlans
<1>3. ASSUME NEW c \in Callers, NEW ep \in Endpoints, InjectInto(c, ep)
      PROVE  PlansInv'
  <2> DEFINE left == plan[c].left \ {ep}
             locals == [plan[c] EXCEPT !.left = left]
  <2>1. /\ place[c] = "inject"
        /\ Advance(c, IF left = {} THEN "enqueue" ELSE "inject", locals)
        BY <1>3 DEF InjectInto
  <2>2. /\ locals.n = plan[c].n /\ locals.event = plan[c].event
        /\ locals.kind = plan[c].kind
        OBVIOUS
  <2> HIDE DEF locals, left
  <2> QED BY <2>1, <2>2, AdvanceKeepsPlans DEF PlansInv
<1>4. ASSUME NEW c \in Callers, NEW ep \in Endpoints, EnqueueAgain(c, ep)
      PROVE  PlansInv'
  <2> DEFINE left == plan[c].again \ {ep}
             locals == [plan[c] EXCEPT !.again = left]
  <2>1. /\ place[c] = "enqueue"
        /\ Advance(c, IF left = {} THEN "idle" ELSE "enqueue", locals)
        BY <1>4 DEF EnqueueAgain
  <2>2. locals.event = plan[c].event
        OBVIOUS
  <2> HIDE DEF locals, left
  <2> QED BY <2>1, <2>2, AdvanceKeepsPlans DEF PlansInv
<1>5. ASSUME NEW c \in Callers, InjectRefused(c) PROVE PlansInv'
      BY <1>5, AdvanceKeepsPlans DEF InjectRefused
<1>6. ASSUME NEW c \in Callers, NEW ev \in Events, NEW eps \in SUBSET Endpoints,
             QueueInterrupt(c, ev, eps)
      PROVE  PlansInv'
      BY <1>2, <1>6, ChaosAssumption DEF QueueInterrupt, Injected
<1>7. ASSUME NEW c \in Callers, NEW ev \in Events, NEW eps \in SUBSET Endpoints,
             NEW n \in 1..FailureThreshold, RetryStorm(c, n, ev, eps)
      PROVE  PlansInv'
      BY <1>2, <1>7 DEF RetryStorm
<1>8. ASSUME NEW ep \in Endpoints,
             \/ Register(ep) \/ Loop(ep) \/ Late(ep) \/ Wake(ep) \/ ResumeQueue(ep)
             \/ \E ev \in Events : FireEvent(ep, ev)
      PROVE  PlansInv'
      BY <1>1, <1>8 DEF Register, Loop, Late, Wake, ResumeQueue, FireEvent
<1>9. CASE CloseDispatcher
      BY <1>1, <1>9 DEF CloseDispatcher
<1> QED BY <1>1, <1>3, <1>4, <1>5, <1>6, <1>7, <1>8, <1>9
        DEF ChaosNext, Proceed, chaosVars

\* Whatever a chaos request does to the dispatcher, it does by calling it.
LEMMA ChaosStepsAreCalls ==
  TypeOK /\ PlansInv /\ [ChaosNext]_chaosVars => [Next]_vars
<1> SUFFICES ASSUME TypeOK, PlansInv, [ChaosNext]_chaosVars, ~ UNCHANGED vars
             PROVE  Next
    OBVIOUS
<1>1. ASSUME NEW c \in Callers, NEW ep \in Endpoints, InjectInto(c, ep)
      PROVE  Next
  <2>1. place[c] = "inject" /\ InjectFailures(ep, plan[c].n)
        BY <1>1 DEF InjectInto
  <2>2. plan[c].n \in Nat /\ injected \in Nat /\ injected + plan[c].n <= MaxSynthetic
        BY <2>1, DispatchAssumption DEF InjectFailures, PlansInv, TypeOK, ControlTypes
  <2>3. plan[c].n \in 0..MaxSynthetic
        BY <2>2, DispatchAssumption
  <2> QED BY <2>1, <2>3 DEF Next, Call
<1>2. ASSUME NEW c \in Callers, NEW ep \in Endpoints, EnqueueAgain(c, ep)
      PROVE  Next
  <2>1. plan[c].event \in Events /\ Enqueue(ep, plan[c].event)
        BY <1>2 DEF EnqueueAgain, PlansInv
  <2> QED BY <2>1 DEF Next, Call
<1>3. ASSUME NEW c \in Callers, Proceed(c) PROVE Next
      BY <1>1, <1>2, <1>3 DEF Proceed, InjectRefused
<1>4. ASSUME NEW c \in Callers, NEW kind, NEW n, NEW ev, NEW eps
      PROVE  ~Scenario(c, kind, n, ev, eps)
      BY DEF Scenario
<1>5. ASSUME NEW ep \in Endpoints,
             \/ Register(ep) \/ Loop(ep) \/ Late(ep) \/ Wake(ep) \/ ResumeQueue(ep)
             \/ \E ev \in Events : FireEvent(ep, ev)
      PROVE  Next
      BY <1>5 DEF Register, Loop, Late, Wake, ResumeQueue, FireEvent, Next, Call
<1>6. CASE CloseDispatcher
      BY <1>6 DEF CloseDispatcher, Next
<1> QED BY <1>3, <1>4, <1>5, <1>6 DEF ChaosNext, QueueInterrupt, RetryStorm, chaosVars

LEMMA ChaosTypes == ChaosSpec => [](TypeOK /\ PlansInv)
<1>1. ChaosInit => Init /\ PlansInv
      BY DEF ChaosInit, PlansInv
<1>2. Init => TypeOK
      BY InitTypes
<1> QED BY <1>1, <1>2, PlansStep, ChaosStepsAreCalls, TypeStep, PTL DEF ChaosSpec

\* A dispatcher under chaos requests behaves as a dispatcher: what holds of every
\* behaviour of Dispatch holds here too (chaos.go:102-180).
THEOREM ChaosOnlyCalls == ChaosSpec => Spec
<1>1. ChaosInit => Init
      BY DEF ChaosInit
<1> QED BY <1>1, ChaosTypes, ChaosStepsAreCalls, PTL DEF ChaosSpec, Spec
-----------------------------------------------------------------------------
(* Retry storms *)

\* Failures counted, under way and owed: together they do not interrupt, and
\* only the synthetic ones are failures.
Harmless(ep) ==
  /\ consecutiveFailures[ep] + UnderWay(ep) + syntheticFailures[ep] < FailureThreshold
  /\ pc[ep] \in {"record", "finish"} /\ ~success[ep] => current[ep].synthetic

\* Somebody else may have interrupted the queue, or the storm came too early.
Excused(ep) == Interrupters(ep) \/ ep \in crowded

StormInv == \A ep \in Endpoints : Excused(ep) \/ Harmless(ep)

\* A step that leaves ep's failures alone.
FailuresStay(ep) ==
  /\ consecutiveFailures'[ep] = consecutiveFailures[ep]
  /\ syntheticFailures'[ep] = syntheticFailures[ep]
  /\ UnderWay(ep)' = UnderWay(ep)
  /\ pc'[ep] \in {"record", "finish"} /\ ~success'[ep] =>
       \/ pc[ep] \in {"record", "finish"} /\ ~success[ep] /\ current'[ep] = current[ep]
       \/ current'[ep].synthetic

LEMMA FailuresStayHarmless ==
  ASSUME NEW ep \in Endpoints, Harmless(ep), FailuresStay(ep)
  PROVE  Harmless(ep)'
BY DEF Harmless, FailuresStay

\* Excuses are not taken back.
LEMMA ExcusesLast ==
  ASSUME TypeOK, [ChaosNext]_chaosVars, [Next]_vars, NEW ep \in Endpoints, Excused(ep)
  PROVE  Excused(ep)'
<1>1. asked \subseteq asked' /\ crowded \subseteq crowded'
      BY DEF ChaosNext, Proceed, InjectInto, InjectRefused, EnqueueAgain, QueueInterrupt,
             RetryStorm, Scenario, Register, Loop, Late, Wake, ResumeQueue, FireEvent,
             CloseDispatcher, chaosHistory, chaosVars
<1>2. ASSUME NEW e \in Endpoints, Call(e) PROVE UNCHANGED <<cancelled, faults>>
      BY <1>2 DEF Call, RegisterEndpoint, UpdateEndpoint, Enqueue, SignalWake, Reactivate,
             InjectFailures, lifecycle, budgets
<1>3. ASSUME NEW e \in Endpoints, run(e)
      PROVE  UNCHANGED cancelled /\ (faults > 0 => faults' > 0)
      BY <1>3 DEF TypeOK, ControlTypes, run, StartLoop, NothingToDeliver, HandOut, IdleWake,
             SendReaches, SendFails, RespondOk, RespondFails, Outcome, Fault, RecordAttempt,
             FinishSuccess, FinishFailure, RetryElapsed, LoopExit, lifecycle, budgets
<1>4. ASSUME Close \/ UNCHANGED vars \/ \E e \in Endpoints : TakeUpLate(e)
      PROVE  UNCHANGED faults /\ (cancelled => cancelled')
      BY <1>4 DEF TakeUpLate, Close, BeginClose, CancelContext, WaitForLoops, CloseAgain,
             unchangedByClose, vars, budgets, lifecycle
<1>5. (cancelled => cancelled') /\ (faults > 0 => faults' > 0)
      BY <1>2, <1>3, <1>4 DEF Next
<1> QED BY <1>1, <1>5 DEF Excused, Interrupters

\* Steps that fail, count and owe nothing.
LEMMA FailuresStaySteps ==
  ASSUME TypeOK, NEW e \in Endpoints, NEW ep \in Endpoints,
         \/ StartLoop(e) \/ NothingToDeliver(e) \/ IdleWake(e) \/ SendReaches(e)
         \/ RespondOk(e) \/ RecordAttempt(e) \/ RetryElapsed(e) \/ LoopExit(e)
         \/ SignalWake(e) \/ TakeUpLate(e)
         \/ \E ev \in Events : Enqueue(e, ev)
         \/ \E cfg \in Configs : RegisterEndpoint(e, cfg) \/ UpdateEndpoint(e, cfg)
         \/ Close \/ UNCHANGED vars
         \/ /\ e # ep
            /\ \/ HandOut(e) \/ SendFails(e) \/ RespondFails(e) \/ FinishSuccess(e)
               \/ FinishFailure(e) \/ Reactivate(e) \/ \E n : InjectFailures(e, n)
  PROVE  FailuresStay(ep)
BY DEF TypeOK, EndpointTypes, LoopTypes, FailuresStay, UnderWay, Attempting, Goto, StartLoop,
       NothingToDeliver, IdleWake, SendReaches, RespondOk, RecordAttempt, RetryElapsed,
       LoopExit, MayExit, SignalWake, TakeUpLate, Enqueue, RegisterEndpoint, MayRegister,
       Registered, UpdateEndpoint, Close, BeginClose, CancelContext, WaitForLoops, CloseAgain,
       unchangedByClose, vars, HandOut, SendFails, RespondFails, Outcome, FinishSuccess,
       FinishFailure, EndIteration, Reactivate, InjectFailures, loop, failureState

\* A synthetic failure moves from owed to under way.
LEMMA HandOutHarmless ==
  ASSUME TypeOK, NEW ep \in Endpoints, Harmless(ep), HandOut(ep)
  PROVE  Harmless(ep)'
<1> DEFINE synthetic == OwesFailure(ep)
<1>1. /\ syntheticFailures[ep] \in Nat /\ consecutiveFailures[ep] \in Nat
      /\ syntheticFailures'[ep] = IF synthetic THEN syntheticFailures[ep] - 1
                                               ELSE syntheticFailures[ep]
      /\ consecutiveFailures'[ep] = consecutiveFailures[ep]
      /\ current'[ep].synthetic = synthetic
      /\ pc[ep] = "next" /\ pc'[ep] = IF synthetic THEN "record" ELSE "deliver"
      BY DispatchAssumption DEF TypeOK, EndpointTypes, LoopTypes, HandOut, Goto, failureState
<1>2. UnderWay(ep) = 0
      BY <1>1 DEF UnderWay, Attempting
<1>3. UnderWay(ep)' = IF synthetic THEN 1 ELSE 0
      BY <1>1 DEF UnderWay, Attempting
<1>4. synthetic <=> syntheticFailures[ep] > 0
      BY DEF OwesFailure
<1> HIDE DEF synthetic
<1> QED BY <1>1, <1>2, <1>3, <1>4 DEF Harmless

\* A synthetic failure is counted; nothing else fails.
LEMMA FinishHarmless ==
  ASSUME TypeOK, NEW ep \in Endpoints, Harmless(ep),
         FinishSuccess(ep) \/ FinishFailure(ep)
  PROVE  Harmless(ep)'
<1>1. /\ syntheticFailures[ep] \in Nat /\ consecutiveFailures[ep] \in Nat
      /\ syntheticFailures'[ep] = syntheticFailures[ep]
      /\ pc[ep] = "finish" /\ pc'[ep] \in {"next", "retry"}
      /\ success[ep] => consecutiveFailures'[ep] = 0
      /\ ~success[ep] => consecutiveFailures'[ep] = consecutiveFailures[ep] + 1
      BY DispatchAssumption DEF TypeOK, EndpointTypes, LoopTypes, FinishSuccess,
         FinishFailure, EndIteration, Goto, AfterSuccess
<1>2. UnderWay(ep)' = 0 /\ UnderWay(ep) \in {0, 1}
      BY <1>1 DEF UnderWay, Attempting
<1>3. ~success[ep] => UnderWay(ep) = 1
      BY <1>1 DEF Harmless, UnderWay, Attempting
<1> QED BY <1>1, <1>2, <1>3, DispatchAssumption DEF Harmless

LEMMA ReactivateHarmless ==
  ASSUME TypeOK, NEW ep \in Endpoints, Harmless(ep), Reactivate(ep)
  PROVE  Harmless(ep)'
<1>1. /\ syntheticFailures[ep] \in Nat /\ consecutiveFailures[ep] \in Nat
      /\ syntheticFailures'[ep] = syntheticFailures[ep] /\ consecutiveFailures'[ep] = 0
      /\ UNCHANGED <<pc, current, success>>
      BY DispatchAssumption DEF TypeOK, EndpointTypes, Reactivate, loop
<1>2. UnderWay(ep)' = UnderWay(ep) /\ UnderWay(ep) \in {0, 1}
      BY <1>1 DEF UnderWay
<1> QED BY <1>1, <1>2, DispatchAssumption DEF Harmless

\* A storm that meets a settled queue owes it less than the threshold, and only
\* that (chaos.go:112-131).
LEMMA StormHarmless ==
  ASSUME TypeOK, PlansInv, NEW c \in Callers, NEW ep \in Endpoints, InjectInto(c, ep),
         Harmless(ep)
  PROVE  Excused(ep)' \/ Harmless(ep)'
<1>1. CASE plan[c].kind = "interrupt" \/ ~Settled(ep)
      BY <1>1 DEF InjectInto, Excused, Interrupters
<1>2. CASE plan[c].kind # "interrupt" /\ Settled(ep)
  <2>1. BelowThreshold(plan[c].n) /\ plan[c].n \in Nat
        BY <1>2 DEF InjectInto, PlansInv
  <2>2. /\ syntheticFailures'[ep] = plan[c].n
        /\ consecutiveFailures'[ep] = consecutiveFailures[ep]
        /\ UNCHANGED <<pc, current, success>>
        BY DEF TypeOK, EndpointTypes, InjectInto, InjectFailures, failureState, loop
  <2>3. UnderWay(ep)' = 0 /\ consecutiveFailures[ep] = 0
        BY <1>2, <2>2 DEF Settled, UnderWay
  <2> QED BY <2>1, <2>2, <2>3, DispatchAssumption DEF Harmless, BelowThreshold
<1> QED BY <1>1, <1>2

\* What a request of the dispatcher or a loop step at e does to ep.
LEMMA DispatcherHarmless ==
  ASSUME TypeOK, NEW e \in Endpoints, NEW ep \in Endpoints, Harmless(ep),
         \/ run(e) \/ SignalWake(e) \/ TakeUpLate(e) \/ Reactivate(e)
         \/ Close \/ UNCHANGED vars
         \/ \E cfg \in Configs : RegisterEndpoint(e, cfg)
         \/ \E ev \in Events : Enqueue(e, ev)
         \/ e # ep /\ \E n : InjectFailures(e, n)
  PROVE  Excused(ep)' \/ Harmless(ep)'
<1>1. CASE FailuresStay(ep)
      BY <1>1, FailuresStayHarmless
<1>2. CASE e = ep /\ (HandOut(ep) \/ FinishSuccess(ep) \/ FinishFailure(ep) \/ Reactivate(ep))
      BY <1>2, HandOutHarmless, FinishHarmless, ReactivateHarmless
<1>3. CASE SendFails(e) \/ RespondFails(e)
  <2>1. UNCHANGED cancelled /\ (cancelled \/ faults' > 0)
        BY <1>3 DEF TypeOK, ControlTypes, SendFails, RespondFails, Outcome, Fault, lifecycle
  <2> QED BY <2>1 DEF Excused, Interrupters
<1> QED BY <1>1, <1>2, <1>3, FailuresStaySteps DEF run

LEMMA StormStep ==
  TypeOK /\ PlansInv /\ StormInv /\ [ChaosNext]_chaosVars => StormInv'
<1> SUFFICES ASSUME TypeOK, PlansInv, StormInv, [ChaosNext]_chaosVars, NEW ep \in Endpoints
             PROVE  Excused(ep)' \/ Harmless(ep)'
    BY DEF StormInv
<1>1. CASE Excused(ep)
      BY <1>1, ExcusesLast, ChaosStepsAreCalls
<1>2. CASE Harmless(ep)
  <2>1. ASSUME UNCHANGED vars PROVE Excused(ep)' \/ Harmless(ep)'
        BY <1>2, <2>1, DispatcherHarmless
  <2>2. ASSUME NEW c \in Callers, NEW e \in Endpoints, InjectInto(c, e)
        PROVE  Excused(ep)' \/ Harmless(ep)'
        BY <1>2, <2>2, StormHarmless, DispatcherHarmless DEF InjectInto
  <2>3. ASSUME NEW c \in Callers, NEW e \in Endpoints, EnqueueAgain(c, e)
        PROVE  Excused(ep)' \/ Harmless(ep)'
        BY <1>2, <2>1, <2>3, DispatcherHarmless DEF EnqueueAgain, PlansInv
  <2>4. ASSUME NEW c \in Callers, Proceed(c) PROVE Excused(ep)' \/ Harmless(ep)'
        BY <2>1, <2>2, <2>3, <2>4 DEF Proceed, InjectRefused
  <2>5. ASSUME NEW c, NEW kind, NEW n, NEW ev, NEW eps, Scenario(c, kind, n, ev, eps)
        PROVE  Excused(ep)' \/ Harmless(ep)'
        BY <2>1, <2>5 DEF Scenario
  <2>6. ASSUME NEW e \in Endpoints,
               \/ Register(e) \/ Loop(e) \/ Late(e) \/ Wake(e) \/ ResumeQueue(e)
               \/ \E ev \in Events : FireEvent(e, ev)
        PROVE  Excused(ep)' \/ Harmless(ep)'
        BY <1>2, <2>6, DispatcherHarmless DEF Register, Loop, Late, Wake, ResumeQueue, FireEvent
  <2>7. CASE CloseDispatcher
        BY <1>2, <2>7, DispatcherHarmless DEF CloseDispatcher
  <2> QED BY <2>1, <2>4, <2>5, <2>6, <2>7
          DEF ChaosNext, QueueInterrupt, RetryStorm, chaosVars
<1> QED BY <1>1, <1>2 DEF StormInv

LEMMA InitStormInv == ChaosInit => StormInv
BY DispatchAssumption DEF ChaosInit, Init, StormInv, Harmless, UnderWay, Attempting

\* An accepted retry storm that finds its queue settled never interrupts it, for
\* every threshold, number of requests and endpoints (chaos.go:102-111).
THEOREM LoneStormsEnd == ChaosSpec => []LoneStormEnds
<1>1. StormInv /\ TypeOK /\ InterruptedIffThreshold => LoneStormEnds
  <2> SUFFICES ASSUME StormInv, TypeOK, InterruptedIffThreshold, NEW ep \in Endpoints,
                      interrupted[ep], ~Excused(ep)
               PROVE  FALSE
      BY DEF LoneStormEnds, Excused
  <2>1. /\ consecutiveFailures[ep] \in Nat /\ syntheticFailures[ep] \in Nat
        /\ consecutiveFailures[ep] >= FailureThreshold
        BY DispatchAssumption DEF TypeOK, EndpointTypes, InterruptedIffThreshold
  <2>2. UnderWay(ep) \in {0, 1}
        BY DEF UnderWay
  <2> QED BY <2>1, <2>2, DispatchAssumption DEF StormInv, Harmless
<1>2. ChaosSpec => []StormInv
  <2>1. ChaosInit => StormInv
        BY InitStormInv
  <2> QED BY <2>1, StormStep, ChaosTypes, PTL DEF ChaosSpec
<1>3. ChaosSpec => []InterruptedIffThreshold
      BY ChaosOnlyCalls, InterruptedAtThreshold, PTL
<1> QED BY <1>1, <1>2, <1>3, ChaosTypes, PTL
-----------------------------------------------------------------------------
(* Queue interruptions *)

Genuine(ep) == pc[ep] \in Attempting /\ ~current[ep].synthetic

\* A synthetic attempt never asks the receiver, and fails (loop.go:24-32).
SyntheticFails ==
  \A ep \in Endpoints : pc[ep] \in Attempting /\ current[ep].synthetic =>
    pc[ep] \in {"record", "finish"} /\ ~success[ep]

\* An interruption asks for the default threshold, and injects into every
\* endpoint before it enqueues at any (chaos.go:139-180).
Asks(endpoints, to, p) ==
  /\ to # "idle" => {"left", "again"} \subseteq DOMAIN p
  /\ to = "inject" /\ p.kind = "interrupt" =>
       p.n = DefaultFailureThreshold /\ p.again \ p.left \subseteq endpoints
  /\ to = "enqueue" /\ p.kind = "interrupt" => p.again \subseteq endpoints

PlansAsk == \A c \in Callers : Asks(asked, place[c], plan[c])

\* Nothing is owed any more.
Moot(ep) == ep \in stirred \/ closed \/ interrupted[ep]

\* A real attempt in flight may succeed and clear the streak: what is still
\* owed then reaches the threshold by itself.
Owes(ep) ==
  /\ consecutiveFailures[ep] + UnderWay(ep) + syntheticFailures[ep] >= FailureThreshold
  /\ Genuine(ep) => syntheticFailures[ep] >= FailureThreshold

\* It may take its event along: another one is left to fail at.
Supplied(ep) ==
  /\ pending[ep] # <<>>
  /\ Genuine(ep) => Len(pending[ep]) >= 2

InterruptInv ==
  /\ awaited \subseteq asked /\ asked \subseteq Endpoints
  /\ \A ep \in asked : Moot(ep) \/ Owes(ep)
  /\ \A ep \in awaited : Moot(ep) \/ Supplied(ep)

LEMMA SyntheticFailsStep ==
  TypeOK /\ SyntheticFails /\ [Next]_vars => SyntheticFails'
<1> SUFFICES ASSUME TypeOK, SyntheticFails, [Next]_vars PROVE SyntheticFails'
    OBVIOUS
<1> USE DEF TypeOK, LoopTypes, SyntheticFails, Attempting, Goto, loop
<1>1. CASE UNCHANGED vars \/ Close \/ \E e \in Endpoints : TakeUpLate(e)
      BY <1>1 DEF TakeUpLate, vars, Close, BeginClose, CancelContext, WaitForLoops,
                  CloseAgain, unchangedByClose
<1>2. ASSUME NEW e \in Endpoints, Call(e) PROVE SyntheticFails'
      BY <1>2 DEF Call, RegisterEndpoint, UpdateEndpoint, Enqueue, SignalWake,
                  Reactivate, InjectFailures
<1>3. ASSUME NEW e \in Endpoints,
             StartLoop(e) \/ NothingToDeliver(e) \/ IdleWake(e) \/ RetryElapsed(e)
             \/ LoopExit(e) \/ RecordAttempt(e)
      PROVE  SyntheticFails'
      BY <1>3 DEF StartLoop, NothingToDeliver, IdleWake, RetryElapsed, LoopExit,
                  RecordAttempt
<1>4. ASSUME NEW e \in Endpoints, HandOut(e) PROVE SyntheticFails'
      BY <1>4 DEF HandOut, OwesFailure
<1>5. ASSUME NEW e \in Endpoints,
             SendReaches(e) \/ SendFails(e) \/ RespondOk(e) \/ RespondFails(e)
      PROVE  SyntheticFails'
      BY <1>5 DEF SendReaches, SendFails, RespondOk, RespondFails, Outcome
<1>6. ASSUME NEW e \in Endpoints, FinishSuccess(e) \/ FinishFailure(e)
      PROVE  SyntheticFails'
      BY <1>6 DEF FinishSuccess, FinishFailure, EndIteration
<1> QED BY <1>1, <1>2, <1>3, <1>4, <1>5, <1>6 DEF Next, run

\* What was asked, done and stirred is not taken back.
LEMMA HistoryGrows ==
  ASSUME [ChaosNext]_chaosVars
  PROVE  asked \subseteq asked' /\ stirred \subseteq stirred'
BY DEF ChaosNext, Proceed, InjectInto, InjectRefused, EnqueueAgain, QueueInterrupt,
       RetryStorm, Scenario, Register, Loop, Late, Wake, ResumeQueue, FireEvent,
       CloseDispatcher, chaosHistory, chaosVars

\* One request moves on, and keeps to what was asked.
LEMMA AdvanceKeepsAsking ==
  ASSUME PlansInv, PlansAsk, asked \subseteq asked',
         NEW c \in Callers, NEW to, NEW locals, Advance(c, to, locals),
         Asks(asked', to, locals)
  PROVE  PlansAsk'
<1> SUFFICES ASSUME NEW d \in Callers PROVE Asks(asked', place'[d], plan'[d])
    BY DEF PlansAsk, Asks
<1>1. CASE d # c
  <2>1. plan'[d] = plan[d] /\ place'[d] = place[d]
        BY <1>1 DEF Advance, PlansInv
  <2> QED BY <2>1 DEF PlansAsk, Asks
<1>2. CASE d = c
  <2>1. place'[d] = to /\ (to # "idle" => plan'[d] = locals)
        BY <1>2 DEF Advance, PlansInv
  <2> QED BY <2>1 DEF Asks
<1> QED BY <1>1, <1>2

LEMMA PlansAskStep ==
  PlansInv /\ PlansAsk /\ [ChaosNext]_chaosVars => PlansAsk'
<1> SUFFICES ASSUME PlansInv, PlansAsk, [ChaosNext]_chaosVars PROVE PlansAsk'
    OBVIOUS
<1>g. asked \subseteq asked'
      BY HistoryGrows
<1>1. CASE UNCHANGED chaos
      BY <1>g, <1>1 DEF chaos, PlansAsk, Asks
<1>2. ASSUME NEW c \in Callers, NEW ev \in Events, NEW eps \in SUBSET Endpoints,
             NEW kind, NEW n, kind # "interrupt" \/ n = DefaultFailureThreshold,
             Scenario(c, kind, n, ev, eps)
      PROVE  PlansAsk'
  <2> DEFINE locals == [kind |-> kind, event |-> ev, n |-> n,
                        left |-> eps, again |-> eps]
  <2>1. /\ locals.n = n /\ locals.kind = kind
        /\ locals.again \ locals.left = {}
        /\ {"left", "again"} \subseteq DOMAIN locals
        OBVIOUS
  <2>2. Advance(c, "inject", locals)
        BY <1>2 DEF Scenario
  <2> HIDE DEF locals
  <2> QED BY <1>g, <1>2, <2>1, <2>2, AdvanceKeepsAsking DEF Asks
<1>3. ASSUME NEW c \in Callers, NEW ep \in Endpoints, InjectInto(c, ep)
      PROVE  PlansAsk'
  <2> DEFINE left == plan[c].left \ {ep}
             locals == [plan[c] EXCEPT !.left = left]
             to == IF left = {} THEN "enqueue" ELSE "inject"
  <2>1. /\ place[c] = "inject" /\ Advance(c, to, locals)
        /\ plan[c].kind = "interrupt" => asked' = asked \cup {ep}
        BY <1>3 DEF InjectInto
  <2>2. {"left", "again"} \subseteq DOMAIN plan[c]
        BY <2>1 DEF PlansAsk, Asks
  <2>3. /\ locals.n = plan[c].n /\ locals.kind = plan[c].kind
        /\ locals.again = plan[c].again /\ locals.left = left
        /\ DOMAIN locals = DOMAIN plan[c]
        BY <2>2
  <2>4. to \in {"enqueue", "inject"} /\ (to = "enqueue" => left = {})
        OBVIOUS
  <2>5. plan[c].kind = "interrupt" =>
          /\ plan[c].n = DefaultFailureThreshold
          /\ plan[c].again \ left \subseteq asked'
        BY <2>1 DEF PlansAsk, Asks
  <2> HIDE DEF left, locals, to
  <2>6. Asks(asked', to, locals)
        BY <2>2, <2>3, <2>4, <2>5 DEF Asks
  <2> QED BY <1>g, <2>1, <2>6, AdvanceKeepsAsking
<1>4. ASSUME NEW c \in Callers, NEW ep \in Endpoints, EnqueueAgain(c, ep)
      PROVE  PlansAsk'
  <2> DEFINE left == plan[c].again \ {ep}
             locals == [plan[c] EXCEPT !.again = left]
             to == IF left = {} THEN "idle" ELSE "enqueue"
  <2>1. place[c] = "enqueue" /\ Advance(c, to, locals)
        BY <1>4 DEF EnqueueAgain
  <2>2. {"left", "again"} \subseteq DOMAIN plan[c]
        BY <2>1 DEF PlansAsk, Asks
  <2>3. /\ locals.kind = plan[c].kind /\ locals.again = left
        /\ DOMAIN locals = DOMAIN plan[c]
        BY <2>2
  <2>4. to \in {"idle", "enqueue"}
        OBVIOUS
  <2>5. plan[c].kind = "interrupt" => left \subseteq asked'
        BY <1>g, <2>1 DEF PlansAsk, Asks
  <2> HIDE DEF left, locals, to
  <2>6. Asks(asked', to, locals)
        BY <2>2, <2>3, <2>4, <2>5 DEF Asks
  <2> QED BY <1>g, <2>1, <2>6, AdvanceKeepsAsking
<1>5. ASSUME NEW c \in Callers, InjectRefused(c) PROVE PlansAsk'
  <2>1. Advance(c, "idle", NoPlan)
        BY <1>5 DEF InjectRefused
  <2> QED BY <1>g, <2>1, AdvanceKeepsAsking DEF Asks
<1>6. ASSUME NEW c \in Callers, NEW ev \in Events, NEW eps \in SUBSET Endpoints,
             QueueInterrupt(c, ev, eps)
      PROVE  PlansAsk'
      BY <1>2, <1>6 DEF QueueInterrupt, Injected
<1>7. ASSUME NEW c \in Callers, NEW ev \in Events, NEW eps \in SUBSET Endpoints,
             NEW n \in 1..FailureThreshold, RetryStorm(c, n, ev, eps)
      PROVE  PlansAsk'
      BY <1>2, <1>7 DEF RetryStorm
<1>8. ASSUME NEW ep \in Endpoints,
             \/ Register(ep) \/ Loop(ep) \/ Late(ep) \/ Wake(ep) \/ ResumeQueue(ep)
             \/ \E ev \in Events : FireEvent(ep, ev)
      PROVE  PlansAsk'
      BY <1>1, <1>8 DEF Register, Loop, Late, Wake, ResumeQueue, FireEvent
<1>9. CASE CloseDispatcher
      BY <1>1, <1>9 DEF CloseDispatcher
<1> QED BY <1>1, <1>3, <1>4, <1>5, <1>6, <1>7, <1>8, <1>9
        DEF ChaosNext, Proceed, chaosVars

\* A step that leaves what ep owes alone, and takes nothing from its queue.
DebtStays(ep) ==
  /\ consecutiveFailures'[ep] = consecutiveFailures[ep]
  /\ syntheticFailures'[ep] = syntheticFailures[ep]
  /\ UnderWay(ep)' = UnderWay(ep)
  /\ Genuine(ep)' => Genuine(ep)
  /\ \/ pending'[ep] = pending[ep]
     \/ \E ev \in Events : pending'[ep] = Append(pending[ep], ev)

LEMMA DebtStaysSteps ==
  ASSUME TypeOK, NEW e \in Endpoints, NEW ep \in Endpoints,
         \/ StartLoop(e) \/ NothingToDeliver(e) \/ IdleWake(e) \/ SendReaches(e)
         \/ SendFails(e) \/ RespondOk(e) \/ RespondFails(e) \/ RecordAttempt(e)
         \/ RetryElapsed(e) \/ LoopExit(e) \/ SignalWake(e) \/ TakeUpLate(e)
         \/ \E ev \in Events : Enqueue(e, ev)
         \/ \E cfg \in Configs : RegisterEndpoint(e, cfg)
         \/ Close \/ UNCHANGED vars
         \/ /\ e # ep
            /\ \/ HandOut(e) \/ FinishSuccess(e) \/ FinishFailure(e) \/ Reactivate(e)
               \/ \E n : InjectFailures(e, n)
  PROVE  DebtStays(ep)
<1> USE DEF TypeOK, EndpointTypes, LoopTypes, DebtStays, UnderWay, Genuine, Attempting,
            Goto, loop, failureState
<1>1. CASE Close \/ UNCHANGED vars \/ TakeUpLate(e)
      BY <1>1 DEF TakeUpLate, Close, BeginClose, CancelContext, WaitForLoops, CloseAgain,
                  unchangedByClose, vars
<1>2. CASE \/ \E ev \in Events : Enqueue(e, ev)
           \/ \E cfg \in Configs : RegisterEndpoint(e, cfg)
           \/ SignalWake(e)
      BY <1>2 DEF Enqueue, Queued, RegisterEndpoint, MayRegister, Registered, SignalWake
<1>3. CASE \/ StartLoop(e) \/ NothingToDeliver(e) \/ IdleWake(e)
           \/ RetryElapsed(e) \/ LoopExit(e) \/ RecordAttempt(e)
      BY <1>3 DEF StartLoop, NothingToDeliver, IdleWake, RetryElapsed, LoopExit, MayExit,
                  RecordAttempt
<1>4. CASE SendReaches(e) \/ SendFails(e) \/ RespondOk(e) \/ RespondFails(e)
      BY <1>4 DEF SendReaches, SendFails, RespondOk, RespondFails, Outcome
<1>5. CASE /\ e # ep
           /\ \/ HandOut(e) \/ FinishSuccess(e) \/ FinishFailure(e) \/ Reactivate(e)
              \/ \E n : InjectFailures(e, n)
      BY <1>5 DEF HandOut, FinishSuccess, FinishFailure, EndIteration, Reactivate,
                  InjectFailures
<1> QED BY <1>1, <1>2, <1>3, <1>4, <1>5

LEMMA DebtStaysKept ==
  ASSUME TypeOK, NEW ep \in Endpoints, DebtStays(ep)
  PROVE  (Owes(ep) => Owes(ep)') /\ (Supplied(ep) => Supplied(ep)')
<1>1. Owes(ep) => Owes(ep)'
      BY DEF DebtStays, Owes
<1>2. ASSUME Supplied(ep) PROVE Supplied(ep)'
  <2>1. pending[ep] \in Seq(Events)
        BY DEF TypeOK, EndpointTypes
  <2>2. pending'[ep] # <<>> /\ (Len(pending[ep]) >= 2 => Len(pending'[ep]) >= 2)
        BY <1>2, <2>1 DEF DebtStays, Supplied
  <2> QED BY <1>2, <2>2 DEF DebtStays, Supplied
<1> QED BY <1>1, <1>2

\* What became moot stays so: only Reactivate ends an interruption, and whoever
\* reactivates a queue that queue-interrupt asked for has stirred it.
LEMMA MootLasts ==
  ASSUME TypeOK, PlansInv, [ChaosNext]_chaosVars, NEW ep \in Endpoints, ep \in asked,
         Moot(ep)
  PROVE  Moot(ep)'
<1>1. [Next]_vars
      BY ChaosStepsAreCalls
<1>2. stirred \subseteq stirred'
      BY HistoryGrows
<1>3. closed => closed'
  <2>1. ASSUME NEW e \in Endpoints, Call(e) PROVE UNCHANGED closed
        BY <2>1 DEF Call, RegisterEndpoint, UpdateEndpoint, Enqueue, SignalWake,
                    Reactivate, InjectFailures, lifecycle
  <2>2. ASSUME NEW e \in Endpoints, run(e) PROVE UNCHANGED closed
        BY <2>2 DEF run, StartLoop, NothingToDeliver, HandOut, IdleWake,
                    SendReaches, SendFails, RespondOk, RespondFails, Outcome,
                    RecordAttempt, FinishSuccess, FinishFailure, RetryElapsed,
                    LoopExit, lifecycle
  <2>3. ASSUME Close \/ UNCHANGED vars \/ \E e \in Endpoints : TakeUpLate(e)
        PROVE  closed => closed'
        BY <2>3 DEF TakeUpLate, Close, BeginClose, CancelContext, WaitForLoops, CloseAgain,
                    vars, lifecycle
  <2> QED BY <1>1, <2>1, <2>2, <2>3 DEF Next
<1>4. ASSUME interrupted[ep], ~ interrupted'[ep] PROVE ep \in stirred'
  <2>1. ASSUME NEW e \in Endpoints, run(e) PROVE interrupted'[ep]
        BY <1>4, <2>1 DEF TypeOK, EndpointTypes, run, StartLoop, NothingToDeliver,
           HandOut, IdleWake, SendReaches, SendFails, RespondOk, RespondFails,
           Outcome, RecordAttempt, FinishSuccess, FinishFailure, RetryElapsed,
           LoopExit, failureState
  <2>2. ASSUME Close \/ UNCHANGED vars \/ \E e \in Endpoints : TakeUpLate(e)
        PROVE  UNCHANGED interrupted
        BY <2>2 DEF TakeUpLate, Close, BeginClose, CancelContext, WaitForLoops, CloseAgain,
                    unchangedByClose, vars, failureState
  <2>3. ASSUME NEW e \in Endpoints,
               \/ \E cfg \in Configs : RegisterEndpoint(e, cfg)
               \/ \E ev : Enqueue(e, ev)
               \/ SignalWake(e) \/ \E n : InjectFailures(e, n)
        PROVE  UNCHANGED interrupted
        BY <2>3 DEF RegisterEndpoint, Enqueue, SignalWake, InjectFailures, failureState
  <2>4. ASSUME NEW c \in Callers, Proceed(c) PROVE UNCHANGED interrupted
        BY <2>2, <2>3, <2>4 DEF Proceed, InjectInto, InjectRefused, EnqueueAgain
  <2>5. ASSUME NEW c, NEW kind, NEW n, NEW ev, NEW eps, Scenario(c, kind, n, ev, eps)
        PROVE  UNCHANGED interrupted
        BY <2>2, <2>5 DEF Scenario
  <2>6. ASSUME NEW e \in Endpoints, ResumeQueue(e) PROVE ep \in stirred'
        BY <1>4, <2>6 DEF ResumeQueue, Reactivate, TypeOK, EndpointTypes
  <2> QED BY <1>4, <2>1, <2>2, <2>3, <2>4, <2>5, <2>6
          DEF ChaosNext, Register, Loop, Late, Wake, FireEvent, CloseDispatcher,
              QueueInterrupt, RetryStorm, chaosVars
<1> QED BY <1>2, <1>3, <1>4 DEF Moot

LEMMA DebtTypes ==
  ASSUME TypeOK, NEW ep \in Endpoints
  PROVE  /\ consecutiveFailures[ep] \in Nat /\ syntheticFailures[ep] \in Nat
         /\ UnderWay(ep) \in {0, 1} /\ FailureThreshold \in Nat \ {0}
BY DispatchAssumption DEF TypeOK, EndpointTypes, UnderWay

\* While failures are owed the attempt is synthetic: were none left, the queue
\* would be interrupted already.
LEMMA HandOutOwes ==
  ASSUME TypeOK, QueueInv, NEW ep \in Endpoints, Owes(ep), HandOut(ep)
  PROVE  Owes(ep)' /\ (Supplied(ep) => Supplied(ep)')
<1> DEFINE synthetic == OwesFailure(ep)
<1>1. /\ syntheticFailures'[ep] = IF synthetic THEN syntheticFailures[ep] - 1
                                               ELSE syntheticFailures[ep]
      /\ consecutiveFailures'[ep] = consecutiveFailures[ep]
      /\ current'[ep].synthetic = synthetic /\ pending'[ep] = pending[ep]
      /\ pc[ep] = "next" /\ pc'[ep] = IF synthetic THEN "record" ELSE "deliver"
      /\ ~interrupted[ep]
      BY DEF TypeOK, EndpointTypes, LoopTypes, HandOut, Goto, failureState, Deliverable
<1>2. UnderWay(ep) = 0
      BY <1>1 DEF UnderWay, Attempting
<1>3. consecutiveFailures[ep] < FailureThreshold
      BY <1>1, DebtTypes DEF QueueInv, InterruptedIffThreshold
<1>4. synthetic
      BY <1>2, <1>3, DebtTypes DEF Owes, OwesFailure
<1>5. UnderWay(ep)' = 1 /\ ~Genuine(ep)'
      BY <1>1, <1>4 DEF UnderWay, Genuine, Attempting
<1> HIDE DEF synthetic
<1>6. Owes(ep)'
      BY <1>1, <1>2, <1>4, <1>5, DebtTypes DEF Owes
<1>7. Supplied(ep) => Supplied(ep)'
      BY <1>1, <1>5 DEF Supplied
<1> QED BY <1>6, <1>7

LEMMA TailOfTwo ==
  ASSUME NEW S, NEW q \in Seq(S), Len(q) >= 2
  PROVE  Tail(q) # <<>>
<1>1. Len(Tail(q)) = Len(q) - 1
      OBVIOUS
<1> DEFINE rest == Tail(q)
<1> SUFFICES rest # <<>>
    OBVIOUS
<1>2. Len(rest) # 0
      BY <1>1
<1> HIDE DEF rest
<1> QED BY <1>2

\* A success was a real one, and what is still owed reaches the threshold by
\* itself; a failure is counted.
LEMMA FinishOwes ==
  ASSUME TypeOK, SyntheticFails, NEW ep \in Endpoints, Owes(ep),
         FinishSuccess(ep) \/ FinishFailure(ep)
  PROVE  Owes(ep)' /\ (Supplied(ep) => Supplied(ep)')
<1>1. /\ pc[ep] = "finish" /\ pc'[ep] \in {"next", "retry"}
      /\ syntheticFailures'[ep] = syntheticFailures[ep]
      /\ success[ep] => /\ consecutiveFailures'[ep] = 0
                        /\ pending'[ep] = Popped(pending[ep])
      /\ ~success[ep] => /\ consecutiveFailures'[ep] = consecutiveFailures[ep] + 1
                         /\ pending'[ep] = pending[ep]
      BY DEF TypeOK, EndpointTypes, LoopTypes, FinishSuccess, FinishFailure, EndIteration,
             Goto, AfterSuccess
<1>2. UnderWay(ep)' = 0 /\ ~Genuine(ep)'
      BY <1>1 DEF UnderWay, Genuine, Attempting
<1>3. success[ep] => Genuine(ep)
      BY <1>1 DEF SyntheticFails, Genuine, Attempting
<1>4. Owes(ep)'
      BY <1>1, <1>2, <1>3, DebtTypes DEF Owes
<1>5. ASSUME Supplied(ep) PROVE pending'[ep] # <<>>
  <2>1. CASE success[ep]
    <3>1. Len(pending[ep]) >= 2 /\ pending[ep] # <<>> /\ pending[ep] \in Seq(Events)
          BY <1>3, <1>5, <2>1 DEF Supplied, TypeOK, EndpointTypes
    <3>2. Tail(pending[ep]) # <<>>
          BY <3>1, TailOfTwo
    <3>3. pending'[ep] = Tail(pending[ep])
          BY <1>1, <2>1, <3>1 DEF Popped
    <3> QED BY <3>2, <3>3
  <2>2. CASE ~success[ep]
        BY <1>1, <1>5, <2>2 DEF Supplied
  <2> QED BY <2>1, <2>2
<1> QED BY <1>2, <1>4, <1>5 DEF Supplied

\* The default threshold of failures is enough, whatever was counted or under
\* way (chaos.go:165-172).
LEMMA InterruptionOwes ==
  ASSUME FailureThreshold <= DefaultFailureThreshold, TypeOK, PlansAsk,
         NEW c \in Callers, NEW ep \in Endpoints, InjectInto(c, ep),
         plan[c].kind = "interrupt"
  PROVE  Owes(ep)'
<1>1. /\ syntheticFailures'[ep] = DefaultFailureThreshold
      /\ consecutiveFailures'[ep] = consecutiveFailures[ep]
      /\ UNCHANGED <<pc, current>>
      BY DEF InjectInto, InjectFailures, PlansAsk, Asks, TypeOK, EndpointTypes,
             failureState, loop
<1>2. UnderWay(ep)' = UnderWay(ep)
      BY <1>1 DEF UnderWay
<1> QED BY <1>1, <1>2, DebtTypes, ChaosAssumption DEF Owes

\* The event goes behind the one in flight (chaos.go:173-178).
LEMMA EnqueueSupplies ==
  ASSUME TypeOK, QueueInv, NEW ep \in Endpoints, NEW ev \in Events, Enqueue(ep, ev)
  PROVE  Supplied(ep)'
<1>1. /\ pending[ep] \in Seq(Events) /\ pending'[ep] = Append(pending[ep], ev)
      /\ UNCHANGED <<pc, current>>
      BY DEF Enqueue, Queued, TypeOK, EndpointTypes, loop
<1>2. Len(pending'[ep]) = Len(pending[ep]) + 1 /\ pending'[ep] # <<>>
      BY <1>1
<1>3. Genuine(ep) => Len(pending[ep]) >= 1
  <2>1. Genuine(ep) => pending[ep] # <<>>
        BY DEF Genuine, QueueInv, AttemptStaysValid
  <2> QED BY <1>1, <2>1
<1>4. Genuine(ep)' = Genuine(ep)
      BY <1>1 DEF Genuine
<1> QED BY <1>1, <1>2, <1>3, <1>4 DEF Supplied

\* What a request of the dispatcher or a loop step at e does to what ep owes.
LEMMA DispatcherOwes ==
  ASSUME TypeOK, QueueInv, SyntheticFails, NEW e \in Endpoints, NEW ep \in Endpoints,
         Owes(ep),
         \/ run(e) \/ SignalWake(e) \/ TakeUpLate(e) \/ Close \/ UNCHANGED vars
         \/ \E cfg \in Configs : RegisterEndpoint(e, cfg)
         \/ \E ev \in Events : Enqueue(e, ev)
         \/ e # ep /\ (Reactivate(e) \/ \E n : InjectFailures(e, n))
  PROVE  Owes(ep)' /\ (Supplied(ep) => Supplied(ep)')
<1>1. CASE DebtStays(ep)
      BY <1>1, DebtStaysKept
<1>2. CASE e = ep /\ (HandOut(ep) \/ FinishSuccess(ep) \/ FinishFailure(ep))
      BY <1>2, HandOutOwes, FinishOwes
<1> QED BY <1>1, <1>2, DebtStaysSteps DEF run

\* A step that asks nothing new of ep.
LEMMA OwesLasts ==
  ASSUME TypeOK, PlansInv, PlansAsk, QueueInv, SyntheticFails,
         FailureThreshold <= DefaultFailureThreshold,
         [ChaosNext]_chaosVars, NEW ep \in Endpoints, ep \in asked, Owes(ep)
  PROVE  Moot(ep)' \/ (Owes(ep)' /\ (Supplied(ep) => Supplied(ep)'))
<1> DEFINE Kept == Moot(ep)' \/ (Owes(ep)' /\ (Supplied(ep) => Supplied(ep)'))
<1>1. ASSUME UNCHANGED vars PROVE Kept
      BY <1>1, DispatcherOwes
<1>2. ASSUME NEW c \in Callers, NEW e \in Endpoints, InjectInto(c, e) PROVE Kept
  <2>1. CASE e = ep
        BY <1>2, <2>1 DEF InjectInto, Moot
  <2>2. CASE e # ep
        BY <1>2, <2>2, DispatcherOwes DEF InjectInto
  <2> QED BY <2>1, <2>2
<1>3. ASSUME NEW c \in Callers, NEW e \in Endpoints, EnqueueAgain(c, e) PROVE Kept
      BY <1>1, <1>3, DispatcherOwes DEF EnqueueAgain, PlansInv
<1>4. ASSUME NEW c \in Callers, Proceed(c) PROVE Kept
      BY <1>1, <1>2, <1>3, <1>4 DEF Proceed, InjectRefused
<1>5. ASSUME NEW c, NEW kind, NEW n, NEW ev, NEW eps, Scenario(c, kind, n, ev, eps)
      PROVE  Kept
      BY <1>1, <1>5 DEF Scenario
<1>6. ASSUME NEW e \in Endpoints, ResumeQueue(e) PROVE Kept
  <2>1. CASE e = ep
        BY <1>6, <2>1 DEF ResumeQueue, Moot
  <2>2. CASE e # ep
        BY <1>6, <2>2, DispatcherOwes DEF ResumeQueue
  <2> QED BY <2>1, <2>2
<1>7. ASSUME NEW e \in Endpoints,
             Register(e) \/ Loop(e) \/ Late(e) \/ Wake(e) \/ \E ev \in Events : FireEvent(e, ev)
      PROVE  Kept
      BY <1>7, DispatcherOwes DEF Register, Loop, Late, Wake, FireEvent
<1>8. ASSUME CloseDispatcher PROVE Kept
      BY <1>8, DispatcherOwes DEF CloseDispatcher
<1> HIDE DEF Kept
<1>9. Kept
      BY <1>1, <1>4, <1>5, <1>6, <1>7, <1>8
      DEF ChaosNext, QueueInterrupt, RetryStorm, chaosVars
<1> QED BY <1>9 DEF Kept

\* An endpoint asked or awaited for the first time.
LEMMA NewlyAsked ==
  ASSUME TypeOK, PlansInv, PlansAsk, [ChaosNext]_chaosVars,
         FailureThreshold <= DefaultFailureThreshold,
         NEW ep \in asked', ep \notin asked
  PROVE  ep \in Endpoints /\ Owes(ep)'
<1>1. ASSUME UNCHANGED asked PROVE FALSE
      BY <1>1
<1>2. ASSUME NEW c \in Callers, NEW e \in Endpoints, InjectInto(c, e)
      PROVE  ep \in Endpoints /\ Owes(ep)'
  <2>1. plan[c].kind = "interrupt" /\ e = ep
        BY <1>2 DEF InjectInto
  <2> QED BY <1>2, <2>1, InterruptionOwes
<1>3. PICK c \in Callers, e \in Endpoints : InjectInto(c, e)
      BY <1>1 DEF ChaosNext, Proceed, InjectRefused, EnqueueAgain, QueueInterrupt,
             RetryStorm, Scenario, Register, Loop, Late, Wake, ResumeQueue, FireEvent,
             CloseDispatcher, chaosHistory, chaosVars
<1> QED BY <1>2, <1>3

LEMMA NewlyAwaited ==
  ASSUME TypeOK, PlansInv, PlansAsk, QueueInv, [ChaosNext]_chaosVars,
         NEW ep \in awaited', ep \notin awaited
  PROVE  ep \in Endpoints /\ ep \in asked /\ (Moot(ep)' \/ Supplied(ep)')
<1>1. ASSUME UNCHANGED awaited PROVE FALSE
      BY <1>1
<1>2. ASSUME NEW c \in Callers, NEW e \in Endpoints, EnqueueAgain(c, e)
      PROVE  ep \in Endpoints /\ ep \in asked /\ (Moot(ep)' \/ Supplied(ep)')
  <2>1. plan[c].kind = "interrupt" /\ e = ep
        BY <1>2 DEF EnqueueAgain
  <2>2. ep \in asked /\ plan[c].event \in Events
        BY <1>2, <2>1 DEF EnqueueAgain, PlansAsk, Asks, PlansInv
  <2>3. ASSUME Enqueue(ep, plan[c].event) PROVE Supplied(ep)'
        BY <1>2, <2>1, <2>2, <2>3, EnqueueSupplies
  <2>4. ASSUME closed, UNCHANGED vars PROVE Moot(ep)'
        BY <2>4 DEF vars, lifecycle, Moot
  <2> QED BY <1>2, <2>1, <2>2, <2>3, <2>4 DEF EnqueueAgain
<1>3. PICK c \in Callers, e \in Endpoints : EnqueueAgain(c, e)
      BY <1>1 DEF ChaosNext, Proceed, InjectRefused, InjectInto, QueueInterrupt,
             RetryStorm, Scenario, Register, Loop, Late, Wake, ResumeQueue, FireEvent,
             CloseDispatcher, chaosHistory, chaosVars
<1> QED BY <1>2, <1>3

LEMMA InterruptStep ==
  ASSUME FailureThreshold <= DefaultFailureThreshold
  PROVE  TypeOK /\ PlansInv /\ PlansAsk /\ QueueInv /\ SyntheticFails /\ InterruptInv
         /\ [ChaosNext]_chaosVars => InterruptInv'
<1> SUFFICES ASSUME TypeOK, PlansInv, PlansAsk, QueueInv, SyntheticFails, InterruptInv,
                    [ChaosNext]_chaosVars
             PROVE  InterruptInv'
    OBVIOUS
<1>1. asked \subseteq asked'
      BY HistoryGrows
<1>2. awaited' \subseteq asked' /\ asked' \subseteq Endpoints
      BY <1>1, NewlyAsked, NewlyAwaited DEF InterruptInv
<1>3. ASSUME NEW ep \in asked' PROVE Moot(ep)' \/ Owes(ep)'
  <2>1. CASE ep \in asked
        BY <2>1, MootLasts, OwesLasts DEF InterruptInv
  <2>2. CASE ep \notin asked
        BY <2>2, NewlyAsked
  <2> QED BY <2>1, <2>2
<1>4. ASSUME NEW ep \in awaited' PROVE Moot(ep)' \/ Supplied(ep)'
  <2>1. CASE ep \in awaited
        BY <2>1, MootLasts, OwesLasts DEF InterruptInv
  <2>2. CASE ep \notin awaited
        BY <2>2, NewlyAwaited
  <2> QED BY <2>1, <2>2
<1> QED BY <1>2, <1>3, <1>4 DEF InterruptInv

LEMMA InitInterruptInv == ChaosInit => InterruptInv /\ PlansAsk /\ SyntheticFails
BY DEF ChaosInit, Init, InterruptInv, PlansAsk, Asks, NoPlan, SyntheticFails, Attempting

\* What queue-interrupt is for: when it is done with a queue, enough failures
\* are counted, under way and owed, and there is something to fail at, whatever
\* was in flight, until the queue is interrupted; for every threshold up to the
\* default, any number of requests and endpoints (chaos.go:139-180).
THEOREM InterruptionsAreOwed ==
  ASSUME FailureThreshold <= DefaultFailureThreshold
  PROVE  ChaosSpec => []InterruptionIsOwed
<1>1. ChaosSpec => []QueueInv
      BY ChaosOnlyCalls, QueueInvariance, PTL
<1>2. ChaosSpec => [](PlansAsk /\ SyntheticFails)
  <2>1. TypeOK /\ PlansInv /\ SyntheticFails /\ [ChaosNext]_chaosVars => SyntheticFails'
        BY ChaosStepsAreCalls, SyntheticFailsStep
  <2> QED BY <2>1, InitInterruptInv, PlansAskStep, ChaosTypes, PTL DEF ChaosSpec
<1>3. ChaosSpec => []InterruptInv
  <2>1. TypeOK /\ PlansInv /\ PlansAsk /\ QueueInv /\ SyntheticFails /\ InterruptInv
        /\ [ChaosNext]_chaosVars => InterruptInv'
        BY InterruptStep
  <2> QED BY <1>1, <1>2, <2>1, InitInterruptInv, ChaosTypes, PTL DEF ChaosSpec
<1>4. InterruptInv => InterruptionIsOwed
      BY DEF InterruptInv, InterruptionIsOwed, Moot, Owes, Supplied
<1> QED BY <1>3, <1>4, PTL
=============================================================================
