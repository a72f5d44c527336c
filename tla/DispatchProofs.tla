--------------------------- MODULE DispatchProofs ---------------------------
(* What TLAPS proves of Dispatch for every value of its constants. *)
EXTENDS Dispatch, ProgressProofs, SequenceTheorems, FiniteSetTheorems, TLAPS

-----------------------------------------------------------------------------
(* Types *)

\* A call keeps every variable in its type; registering gives the endpoint its
\* configuration (endpoint.go:57).
LEMMA CallTypes ==
  ASSUME TypeOK, NEW ep \in Endpoints, Call(ep)
  PROVE  TypeOK'
<1> USE DispatchAssumption DEF TypeOK, lifecycle, failureState, signals, loop,
        history, budgets, Goto
<1>1. ASSUME NEW cfg \in Configs, RegisterEndpoint(ep, cfg) PROVE TypeOK'
  <2> USE <1>1 DEF RegisterEndpoint, MayRegister
  <2>1. ControlTypes'   BY DEF ControlTypes
  <2>2. EndpointTypes'  BY DEF EndpointTypes, LoopTypes, Registered
  <2>3. LoopTypes'      BY DEF LoopTypes, Places, Attempting
  <2>4. HistoryTypes'   BY DEF HistoryTypes
  <2> QED BY <2>1, <2>2, <2>3, <2>4
<1>2. ASSUME NEW cfg \in Configs, UpdateEndpoint(ep, cfg) PROVE TypeOK'
  <2> USE <1>2 DEF UpdateEndpoint
  <2>1. ControlTypes'   BY DEF ControlTypes
  <2>2. EndpointTypes'  BY DEF EndpointTypes, Registered
  <2>3. LoopTypes'      BY DEF LoopTypes
  <2>4. HistoryTypes'   BY DEF HistoryTypes
  <2> QED BY <2>1, <2>2, <2>3, <2>4
<1>3. ASSUME NEW ev \in Events, Enqueue(ep, ev) PROVE TypeOK'
  <2> USE <1>3 DEF Enqueue, Queued, LeaveLockToWake
  <2>1. ControlTypes'   BY DEF ControlTypes
  <2>2. EndpointTypes'  BY DEF EndpointTypes, Registered
  <2>3. LoopTypes'      BY DEF LoopTypes
  <2>4. HistoryTypes'   BY DEF HistoryTypes
  <2> QED BY <2>1, <2>2, <2>3, <2>4
<1>4. ASSUME SignalWake(ep) PROVE TypeOK'
  <2> USE <1>4 DEF SignalWake
  <2>1. ControlTypes'   BY DEF ControlTypes
  <2>2. EndpointTypes'  BY DEF EndpointTypes, Registered
  <2>3. LoopTypes'      BY DEF LoopTypes
  <2>4. HistoryTypes'   BY DEF HistoryTypes
  <2> QED BY <2>1, <2>2, <2>3, <2>4
<1>5. ASSUME Reactivate(ep) PROVE TypeOK'
  <2> USE <1>5 DEF Reactivate, LeaveLockToWake
  <2>1. ControlTypes'   BY DEF ControlTypes
  <2>2. EndpointTypes'  BY DEF EndpointTypes, Registered
  <2>3. LoopTypes'      BY DEF LoopTypes
  <2>4. HistoryTypes'   BY DEF HistoryTypes, Finished, EndpointTypes
  <2> QED BY <2>1, <2>2, <2>3, <2>4
<1>6. ASSUME NEW n \in 0..MaxSynthetic, InjectFailures(ep, n) PROVE TypeOK'
  <2> USE <1>6 DEF InjectFailures
  <2>1. ControlTypes'   BY DEF ControlTypes
  <2>2. EndpointTypes'  BY DEF EndpointTypes, Registered
  <2>3. LoopTypes'      BY DEF LoopTypes
  <2>4. HistoryTypes'   BY DEF HistoryTypes
  <2> QED BY <2>1, <2>2, <2>3, <2>4
<1> QED BY <1>1, <1>2, <1>3, <1>4, <1>5, <1>6 DEF Call

\* The request of an attempt: its event, after so many deliveries and attempts.
LEMMA RequestTypes ==
  ASSUME TypeOK, NEW ep \in Endpoints, pc[ep] \in Attempting
  PROVE  Request(ep) \in Requests
<1>1. /\ current[ep] \in Attempts /\ delivered[ep] \in Seq(Events)
      /\ log[ep] \in Seq(LogEntries)
      BY DEF TypeOK, LoopTypes, HistoryTypes
<1>2. /\ current[ep].event \in Events /\ Len(delivered[ep]) \in Nat
      /\ Len(log[ep]) + 1 \in Nat \ {0}
      BY <1>1 DEF Attempts
<1> QED BY <1>2 DEF Request, Requests

\* A step of a loop keeps every variable in its type: an attempt has an event
\* from nextDelivery until finishAttempt (loop.go:14-42).
LEMMA LoopStepTypes ==
  ASSUME TypeOK, NEW ep \in Endpoints, run(ep)
  PROVE  TypeOK'
<1> USE DispatchAssumption DEF TypeOK, lifecycle, failureState, signals, loop,
        history, budgets, Goto
<1>1. ASSUME StartLoop(ep) \/ NothingToDeliver(ep) \/ RetryElapsed(ep)
      PROVE  TypeOK'
  <2> USE <1>1 DEF StartLoop, NothingToDeliver, RetryElapsed
  <2>1. ControlTypes'   BY DEF ControlTypes
  <2>2. EndpointTypes'  BY DEF EndpointTypes, LoopTypes, Registered
  <2>3. LoopTypes'      BY DEF LoopTypes, Places, Attempting
  <2>4. HistoryTypes'   BY DEF HistoryTypes
  <2> QED BY <2>1, <2>2, <2>3, <2>4
<1>2. ASSUME HandOut(ep) PROVE TypeOK'
  <2> USE <1>2 DEF HandOut, OwesFailure
  <2>1. ControlTypes'   BY DEF ControlTypes
  <2>2. EndpointTypes'  BY DEF EndpointTypes, LoopTypes, Registered
  <2>3. LoopTypes'      BY DEF LoopTypes, EndpointTypes, Places, Attempting,
                               Attempts, Registered, Deliverable
  <2>4. HistoryTypes'   BY DEF HistoryTypes
  <2> QED BY <2>1, <2>2, <2>3, <2>4
<1>3. ASSUME IdleWake(ep) PROVE TypeOK'
  <2> USE <1>3 DEF IdleWake
  <2>1. ControlTypes'   BY DEF ControlTypes
  <2>2. EndpointTypes'  BY DEF EndpointTypes, LoopTypes, Registered
  <2>3. LoopTypes'      BY DEF LoopTypes, Places, Attempting
  <2>4. HistoryTypes'   BY DEF HistoryTypes
  <2> QED BY <2>1, <2>2, <2>3, <2>4
<1>4. ASSUME SendReaches(ep) PROVE TypeOK'
  <2> USE <1>4 DEF SendReaches
  <2>1. ControlTypes'   BY DEF ControlTypes
  <2>2. EndpointTypes'  BY DEF EndpointTypes, LoopTypes, Registered
  <2>3. LoopTypes'      BY DEF LoopTypes, Places, Attempting
  <2>4. HistoryTypes'
    <3>1. Request(ep) \in Requests
          BY RequestTypes DEF Attempting
    <3> QED BY <3>1 DEF HistoryTypes
  <2> QED BY <2>1, <2>2, <2>3, <2>4
<1>5. ASSUME SendFails(ep) \/ RespondOk(ep) \/ RespondFails(ep) PROVE TypeOK'
  <2> USE <1>5 DEF SendFails, RespondOk, RespondFails, Outcome
  <2>1. ControlTypes'   BY DEF ControlTypes, Fault
  <2>2. EndpointTypes'  BY DEF EndpointTypes, LoopTypes, Registered
  <2>3. LoopTypes'      BY DEF LoopTypes, Places, Attempting
  <2>4. HistoryTypes'
    <3>1. UNCHANGED <<log, accepted, delivered, receipts, reactivatedAt>>
          OBVIOUS
    <3>2. SendFails(ep) => Request(ep) \in Requests
          BY RequestTypes DEF Attempting
    <3>3. abandoned' \in [Endpoints -> SUBSET Requests]
      <4>1. CASE SendFails(ep)
            BY <3>2, <4>1 DEF HistoryTypes
      <4>2. CASE RespondOk(ep) \/ RespondFails(ep)
            BY <4>2 DEF HistoryTypes
      <4> QED BY <4>1, <4>2
    <3> QED BY <3>1, <3>3 DEF HistoryTypes
  <2> QED BY <2>1, <2>2, <2>3, <2>4
<1>6. ASSUME RecordAttempt(ep) PROVE TypeOK'
  <2> USE <1>6 DEF RecordAttempt, LogEntry
  <2>1. ControlTypes'   BY DEF ControlTypes
  <2>2. EndpointTypes'  BY DEF EndpointTypes, LoopTypes, Registered
  <2>3. LoopTypes'      BY DEF LoopTypes, Places, Attempting
  <2>4. HistoryTypes'
    <3> DEFINE entry == [event |-> current[ep].event, success |-> success[ep]]
    <3>1. entry \in LogEntries
          BY DEF LoopTypes, Attempting, Attempts, LogEntries
    <3> QED BY <3>1 DEF HistoryTypes
  <2> QED BY <2>1, <2>2, <2>3, <2>4
<1>7. ASSUME FinishSuccess(ep) PROVE TypeOK'
  <2> USE <1>7 DEF FinishSuccess, Popped, AfterSuccess, EndIteration
  <2>1. ControlTypes'   BY DEF ControlTypes
  <2>2. EndpointTypes'
    <3>1. pending[ep] # <<>> => Tail(pending[ep]) \in Seq(Events)
          BY HeadTailProperties DEF EndpointTypes
    <3> QED BY <3>1 DEF EndpointTypes, LoopTypes, Registered
  <2>3. LoopTypes'      BY DEF LoopTypes, Places, Attempting
  <2>4. HistoryTypes'   BY DEF HistoryTypes, LoopTypes, Attempting, Attempts
  <2> QED BY <2>1, <2>2, <2>3, <2>4
<1>8. ASSUME FinishFailure(ep) PROVE TypeOK'
  <2> USE <1>8 DEF FinishFailure, EndIteration
  <2>1. ControlTypes'   BY DEF ControlTypes
  <2>2. EndpointTypes'  BY DEF EndpointTypes, LoopTypes, Registered
  <2>3. LoopTypes'      BY DEF LoopTypes, Places, Attempting
  <2>4. HistoryTypes'   BY DEF HistoryTypes
  <2> QED BY <2>1, <2>2, <2>3, <2>4
<1>9. ASSUME LoopExit(ep) PROVE TypeOK'
  <2> USE <1>9 DEF LoopExit, MayExit
  <2>1. ControlTypes'   BY DEF ControlTypes
  <2>2. EndpointTypes'  BY DEF EndpointTypes, LoopTypes, Registered
  <2>3. LoopTypes'      BY DEF LoopTypes, Places, Attempting
  <2>4. HistoryTypes'   BY DEF HistoryTypes
  <2> QED BY <2>1, <2>2, <2>3, <2>4
<1> QED BY <1>1, <1>2, <1>3, <1>4, <1>5, <1>6, <1>7, <1>8, <1>9 DEF run

\* No step takes a variable out of its type.
LEMMA TypeStep == TypeOK /\ [Next]_vars => TypeOK'
<1> SUFFICES ASSUME TypeOK, [Next]_vars PROVE TypeOK'
    OBVIOUS
<1>1. CASE UNCHANGED vars \/ Close
  <2> USE <1>1 DEF TypeOK, vars, Close, BeginClose, CancelContext,
          WaitForLoops, CloseAgain, unchangedByClose, lifecycle,
          failureState, signals, loop, history, budgets
  <2>1. ControlTypes'   BY DEF ControlTypes
  <2>2. EndpointTypes'  BY DEF EndpointTypes, Registered
  <2>3. LoopTypes'      BY DEF LoopTypes
  <2>4. HistoryTypes'   BY DEF HistoryTypes
  <2> QED BY <2>1, <2>2, <2>3, <2>4
<1>2. ASSUME NEW ep \in Endpoints, TakeUpLate(ep) PROVE TypeOK'
  <2> USE <1>2 DEF TypeOK, TakeUpLate, lifecycle, failureState, signals, loop,
          budgets
  <2>1. ControlTypes'   BY DEF ControlTypes
  <2>2. EndpointTypes'  BY DEF EndpointTypes, Registered
  <2>3. LoopTypes'      BY DEF LoopTypes
  <2>4. HistoryTypes'   BY DEF HistoryTypes
  <2> QED BY <2>1, <2>2, <2>3, <2>4
<1> QED BY <1>1, <1>2, CallTypes, LoopStepTypes DEF Next

\* Every variable starts out in its type.
LEMMA InitTypes == Init => TypeOK
<1> SUFFICES ASSUME Init PROVE TypeOK
    OBVIOUS
<1> USE DispatchAssumption DEF Init
<1>1. ControlTypes
  <2>1. /\ closed \in BOOLEAN /\ cancelled \in BOOLEAN
        /\ waited \in BOOLEAN /\ closeReturned \in BOOLEAN
        BY Zenon
  <2>2. wg \in Int /\ faults \in 0..MaxFaults /\ injected \in 0..MaxSynthetic
        BY SMT
  <2> QED BY <2>1, <2>2 DEF ControlTypes
<1>2. EndpointTypes  BY DEF EndpointTypes, Registered
<1>3. LoopTypes      BY DEF LoopTypes, Places, Attempting
<1>4. HistoryTypes   BY DEF HistoryTypes
<1> QED BY <1>1, <1>2, <1>3, <1>4 DEF TypeOK

\* The types hold in every behaviour (the state of dispatch.go:50-63 and
\* endpoint.go:27-34 and the locals of loop.go:13-51).
THEOREM TypeCorrect == Spec => []TypeOK
<1> QED BY InitTypes, TypeStep, PTL DEF Spec
-----------------------------------------------------------------------------
(* Sequences *)

\* Appending does not change the head of a sequence that has one.
LEMMA HeadAppend ==
  ASSUME NEW S, NEW s \in Seq(S), NEW e \in S, s # <<>>
  PROVE  Append(s, e) # <<>> /\ Head(Append(s, e)) = Head(s)
BY HeadTailAppend, AppendProperties

\* Appending to the right part appends to the whole.
LEMMA ConcatAppend ==
  ASSUME NEW S, NEW s \in Seq(S), NEW t \in Seq(S), NEW e \in S
  PROVE  s \o Append(t, e) = Append(s \o t, e)
<1>1. <<e>> \in Seq(S) /\ s \o t \in Seq(S)
      OBVIOUS
<1>2. Append(t, e) = t \o <<e>>
      BY AppendIsConcat
<1>3. Append(s \o t, e) = (s \o t) \o <<e>>
      BY <1>1, AppendIsConcat
<1>4. (s \o t) \o <<e>> = s \o (t \o <<e>>)
      BY <1>1, ConcatAssociative
<1> QED BY <1>2, <1>3, <1>4

\* A sequence is its head in front of its tail.
LEMMA HeadConcatTail ==
  ASSUME NEW S, NEW s \in Seq(S), s # <<>>
  PROVE  <<Head(s)>> \o Tail(s) = s
<1>1. /\ Head(s) \in S /\ Tail(s) \in Seq(S) /\ Len(Tail(s)) = Len(s) - 1
      /\ \A i \in 1..Len(Tail(s)) : Tail(s)[i] = s[i + 1]
      BY HeadTailProperties
<1>2. <<Head(s)>> \in Seq(S) /\ Len(<<Head(s)>>) = 1
      BY <1>1
<1>3. /\ <<Head(s)>> \o Tail(s) \in Seq(S)
      /\ Len(<<Head(s)>> \o Tail(s)) = 1 + Len(Tail(s))
      /\ \A i \in 1..(1 + Len(Tail(s))) : (<<Head(s)>> \o Tail(s))[i] =
           IF i <= 1 THEN <<Head(s)>>[i] ELSE Tail(s)[i - 1]
      BY <1>1, <1>2, ConcatProperties
<1>4. \A i \in 1..Len(s) : (<<Head(s)>> \o Tail(s))[i] = s[i]
      BY <1>1, <1>3
<1> QED BY <1>1, <1>3, <1>4, SeqEqual

\* The head of the right part may move to the end of the left part.
LEMMA ConcatHeadTail ==
  ASSUME NEW S, NEW s \in Seq(S), NEW t \in Seq(S), t # <<>>
  PROVE  Append(s, Head(t)) \o Tail(t) = s \o t
<1>1. Head(t) \in S /\ Tail(t) \in Seq(S) /\ <<Head(t)>> \in Seq(S)
      BY HeadTailProperties
<1>2. Append(s, Head(t)) = s \o <<Head(t)>>
      BY <1>1, AppendIsConcat
<1>3. (s \o <<Head(t)>>) \o Tail(t) = s \o (<<Head(t)>> \o Tail(t))
      BY <1>1, ConcatAssociative
<1> QED BY <1>2, <1>3, HeadConcatTail

\* The right part, when there is one, begins behind the left part.
LEMMA ConcatNext ==
  ASSUME NEW S, NEW s \in Seq(S), NEW t \in Seq(S), t # <<>>
  PROVE  Len(s) < Len(s \o t) /\ (s \o t)[Len(s) + 1] = Head(t)
<1>1. Len(s) \in Nat /\ Len(t) \in Nat \ {0}
      BY EmptySeq, LenProperties
<1>2. /\ Len(s \o t) = Len(s) + Len(t)
      /\ (s \o t)[Len(s) + 1] = t[1]
      BY <1>1, ConcatProperties
<1>3. Head(t) = t[1]
      OBVIOUS
<1> QED BY <1>1, <1>2, <1>3

-----------------------------------------------------------------------------
(* The queue *)

\* The inductive invariant.  AttemptStaysValid makes the blind pop of
\* finishAttempt keep QueueConservation, and keeps a success from resetting the
\* streak of an interrupted queue.
QueueInv ==
  /\ QueueConservation
  /\ AttemptStaysValid
  /\ InterruptedIffThreshold

queueState == <<pending, accepted, delivered, consecutiveFailures, interrupted>>

\* The steps that leave the queue and its streak alone: no attempt begins, and
\* the one under way, if any, goes on with the same event.
Quiet ==
  /\ UNCHANGED queueState
  /\ \A ep \in Endpoints : pc'[ep] \in Attempting =>
       pc[ep] \in Attempting /\ current'[ep] = current[ep]

LEMMA QuietKeepsQueueInv ==
  ASSUME QueueInv, Quiet
  PROVE  QueueInv'
BY DEF QueueInv, Quiet, queueState, QueueConservation, AttemptStaysValid,
       InterruptedIffThreshold

LEMMA QuietSteps ==
  ASSUME TypeOK, NEW ep \in Endpoints,
         \/ StartLoop(ep) \/ NothingToDeliver(ep) \/ IdleWake(ep)
         \/ SendReaches(ep) \/ SendFails(ep) \/ RespondOk(ep)
         \/ RespondFails(ep) \/ RecordAttempt(ep) \/ RetryElapsed(ep)
         \/ LoopExit(ep) \/ SignalWake(ep)
         \/ \E cfg \in Configs : RegisterEndpoint(ep, cfg)
                                   \/ UpdateEndpoint(ep, cfg)
         \/ \E n \in 0..MaxSynthetic : InjectFailures(ep, n)
  PROVE  Quiet
BY DEF TypeOK, LoopTypes, Quiet, queueState, Attempting, Goto, loop, history,
       failureState, signals, StartLoop, NothingToDeliver, IdleWake,
       SendReaches, SendFails, RespondOk, RespondFails, Outcome,
       RecordAttempt, LogEntry, RetryElapsed, LoopExit, MayExit, SignalWake, RegisterEndpoint, MayRegister,
       UpdateEndpoint, InjectFailures

\* Appending behind the head disturbs neither the order nor the attempt.
LEMMA EnqueueKeepsQueueInv ==
  ASSUME TypeOK, QueueInv, NEW ep \in Endpoints, NEW ev \in Events,
         Enqueue(ep, ev)
  PROVE  QueueInv'
<1> USE DEF TypeOK, EndpointTypes, HistoryTypes, Enqueue, Queued, failureState, loop
<1>1. QueueConservation'
  <2>1. delivered[ep] \o Append(pending[ep], ev)
          = Append(delivered[ep] \o pending[ep], ev)
    <3>1. delivered[ep] \in Seq(Events) /\ pending[ep] \in Seq(Events)
          OBVIOUS
    <3> QED BY <3>1, ConcatAppend
  <2> QED BY <2>1 DEF QueueInv, QueueConservation
<1>2. AttemptStaysValid'
  <2>1. pending[ep] # <<>> =>
          /\ Append(pending[ep], ev) # <<>>
          /\ Head(Append(pending[ep], ev)) = Head(pending[ep])
        BY HeadAppend
  <2> QED BY <2>1 DEF QueueInv, AttemptStaysValid
<1>3. InterruptedIffThreshold'
      BY DEF QueueInv, InterruptedIffThreshold
<1> QED BY <1>1, <1>2, <1>3 DEF QueueInv

LEMMA ReactivateKeepsQueueInv ==
  ASSUME TypeOK, QueueInv, NEW ep \in Endpoints, Reactivate(ep)
  PROVE  QueueInv'
BY DispatchAssumption
   DEF TypeOK, EndpointTypes, QueueInv, Reactivate, loop, QueueConservation,
       AttemptStaysValid, InterruptedIffThreshold

\* An attempt begins with the head of a queue that is not interrupted.
LEMMA HandOutKeepsQueueInv ==
  ASSUME TypeOK, QueueInv, NEW ep \in Endpoints, HandOut(ep)
  PROVE  QueueInv'
BY DEF TypeOK, EndpointTypes, LoopTypes, QueueInv, HandOut, OwesFailure, Deliverable, Goto,
       failureState, history, Attempting, QueueConservation,
       AttemptStaysValid, InterruptedIffThreshold

LEMMA FinishFailureKeepsQueueInv ==
  ASSUME TypeOK, QueueInv, NEW ep \in Endpoints, FinishFailure(ep)
  PROVE  QueueInv'
BY DispatchAssumption
   DEF TypeOK, EndpointTypes, LoopTypes, QueueInv, FinishFailure,
       EndIteration, ReachesThreshold, Goto, history, Attempting,
       QueueConservation, AttemptStaysValid, InterruptedIffThreshold

\* The pop removes the event that was delivered, because it is still the head.
LEMMA FinishSuccessKeepsQueueInv ==
  ASSUME TypeOK, QueueInv, NEW ep \in Endpoints, FinishSuccess(ep)
  PROVE  QueueInv'
<1> USE DEF TypeOK, EndpointTypes, HistoryTypes, LoopTypes, FinishSuccess, Popped, AfterSuccess,
            EndIteration, Goto
<1>1. pending[ep] # <<>> /\ Head(pending[ep]) = current[ep].event
      BY DEF QueueInv, AttemptStaysValid, Attempting
<1>2. QueueConservation'
  <2>1. Append(delivered[ep], Head(pending[ep])) \o Tail(pending[ep])
          = delivered[ep] \o pending[ep]
    <3>1. delivered[ep] \in Seq(Events) /\ pending[ep] \in Seq(Events)
          OBVIOUS
    <3> QED BY <1>1, <3>1, ConcatHeadTail
  <2> QED BY <1>1, <2>1 DEF QueueInv, QueueConservation
<1>3. AttemptStaysValid'
      BY DEF QueueInv, AttemptStaysValid, Attempting
<1>4. InterruptedIffThreshold'
  <2>1. ~interrupted[ep]
        BY DEF QueueInv, AttemptStaysValid, Attempting
  <2>2. consecutiveFailures'[ep] = 0 /\ ~(0 >= FailureThreshold)
        BY DispatchAssumption
  <2>3. \A e \in Endpoints : e # ep =>
          consecutiveFailures'[e] = consecutiveFailures[e]
        OBVIOUS
  <2> QED BY <2>1, <2>2, <2>3 DEF QueueInv, InterruptedIffThreshold
<1> QED BY <1>2, <1>3, <1>4 DEF QueueInv

\* Closing moves no queue and no loop, nor does what happens at the receiver.
LEMMA OutsideIsQuiet ==
  ASSUME UNCHANGED vars \/ Close \/ \E ep \in Endpoints : TakeUpLate(ep)
  PROVE  Quiet
BY DEF TakeUpLate, vars, Close, BeginClose, CancelContext, WaitForLoops, CloseAgain,
       unchangedByClose, Quiet, queueState, loop, history, failureState

LEMMA QueueInvStep == TypeOK /\ QueueInv /\ [Next]_vars => QueueInv'
<1> SUFFICES ASSUME TypeOK, QueueInv, [Next]_vars PROVE QueueInv'
    OBVIOUS
<1>1. CASE UNCHANGED vars \/ Close \/ \E ep \in Endpoints : TakeUpLate(ep)
      BY <1>1, OutsideIsQuiet, QuietKeepsQueueInv
<1>2. ASSUME NEW ep \in Endpoints, Call(ep) PROVE QueueInv'
  <2>1. ASSUME NEW ev \in Events, Enqueue(ep, ev) PROVE QueueInv'
        BY <2>1, EnqueueKeepsQueueInv
  <2>2. CASE Reactivate(ep)
        BY <2>2, ReactivateKeepsQueueInv
  <2> QED BY <1>2, <2>1, <2>2, QuietSteps, QuietKeepsQueueInv DEF Call
<1>3. ASSUME NEW ep \in Endpoints, run(ep) PROVE QueueInv'
      BY <1>3, HandOutKeepsQueueInv, FinishSuccessKeepsQueueInv,
         FinishFailureKeepsQueueInv, QuietSteps, QuietKeepsQueueInv DEF run
<1> QED BY <1>1, <1>2, <1>3 DEF Next

LEMMA InitQueueInv == Init => QueueInv
<1> SUFFICES ASSUME Init PROVE QueueInv
    OBVIOUS
<1>1. QueueConservation /\ AttemptStaysValid
      BY DEF Init, QueueConservation, AttemptStaysValid,
             Attempting
<1>2. InterruptedIffThreshold
  <2>1. ~(0 >= FailureThreshold)
        BY DispatchAssumption
  <2> QED BY <2>1 DEF Init, InterruptedIffThreshold
<1> QED BY <1>1, <1>2 DEF QueueInv

\* The queue's invariant holds however the loop's unlocked steps fall between
\* the calls (loop.go:13-51).
THEOREM QueueInvariance == Spec => []QueueInv
<1> QED BY InitQueueInv, QueueInvStep, TypeCorrect, PTL DEF Spec

\* No event is lost, duplicated or reordered by the queue (endpoint.go:89,
\* loop.go:86).
THEOREM NothingIsLost == Spec => []QueueConservation
<1>1. QueueInv => QueueConservation
      BY DEF QueueInv
<1> QED BY <1>1, QueueInvariance, PTL

\* The event that finishAttempt pops is the one that was attempted, and an
\* interrupted queue is silent (loop.go:65-72,86).
THEOREM PopsWhatItSent == Spec => []AttemptStaysValid
<1>1. QueueInv => AttemptStaysValid
      BY DEF QueueInv
<1> QED BY <1>1, QueueInvariance, PTL

\* A queue is interrupted by the threshold's failure, by nothing less, and
\* until it is resumed (loop.go:92-96).
THEOREM InterruptedAtThreshold == Spec => []InterruptedIffThreshold
<1>1. QueueInv => InterruptedIffThreshold
      BY DEF QueueInv
<1> QED BY <1>1, QueueInvariance, PTL

-----------------------------------------------------------------------------
(* Refinement *)

\* Each step of the dispatcher is a step of the abstract queue or stutters.
LEMMA StepRefines ==
  TypeOK /\ QueueInv /\ [Next]_vars => [Queue!QueueNext]_(Queue!qvars)
<1> SUFFICES ASSUME TypeOK, QueueInv, [Next]_vars
             PROVE  Queue!QueueNext \/ UNCHANGED Queue!qvars
    OBVIOUS
<1>1. ASSUME Quiet PROVE UNCHANGED Queue!qvars
      BY <1>1 DEF Quiet, queueState, Queue!qvars
<1>2. ASSUME NEW ep \in Endpoints, NEW ev \in Events, Enqueue(ep, ev)
      PROVE  Queue!Accept(ep, ev)
      BY <1>2 DEF Enqueue, Queued, failureState, Queue!Accept
<1>3. ASSUME NEW ep \in Endpoints, Reactivate(ep)
      PROVE  Queue!Resume(ep)
      BY <1>3 DEF Reactivate, Queue!Resume
<1>4. ASSUME NEW ep \in Endpoints, HandOut(ep)
      PROVE  UNCHANGED Queue!qvars
      BY <1>4 DEF HandOut, OwesFailure, failureState, history, Queue!qvars
<1>5. ASSUME NEW ep \in Endpoints, pc[ep] = "finish"
      PROVE  /\ Queue!Ready(ep)
             /\ accepted[ep][Len(delivered[ep]) + 1] = current[ep].event
  <2>1. /\ pending[ep] \in Seq(Events) /\ delivered[ep] \in Seq(Events)
        /\ delivered[ep] \o pending[ep] = accepted[ep]
        BY DEF TypeOK, EndpointTypes, HistoryTypes, QueueInv, QueueConservation
  <2>2. /\ pending[ep] # <<>> /\ Head(pending[ep]) = current[ep].event
        /\ ~interrupted[ep]
        BY <1>5 DEF QueueInv, AttemptStaysValid, Attempting
  <2>3. /\ Len(delivered[ep]) < Len(accepted[ep])
        /\ accepted[ep][Len(delivered[ep]) + 1] = Head(pending[ep])
        BY <2>1, <2>2, ConcatNext
  <2> QED BY <2>2, <2>3 DEF Queue!Ready
<1>6. ASSUME NEW ep \in Endpoints, FinishSuccess(ep)
      PROVE  Queue!Deliver(ep)
      BY <1>5, <1>6 DEF FinishSuccess, Popped, AfterSuccess, Queue!Deliver, TypeOK, HistoryTypes
<1>7. ASSUME NEW ep \in Endpoints, FinishFailure(ep)
      PROVE  Queue!Fail(ep)
  <2>1. Queue!Ready(ep) /\ ~interrupted[ep]
        BY <1>5, <1>7 DEF FinishFailure, Queue!Ready
  <2> QED BY <1>7, <2>1 DEF FinishFailure, ReachesThreshold, history,
             Queue!Fail, TypeOK, EndpointTypes
<1>8. CASE UNCHANGED vars \/ Close \/ \E e \in Endpoints : TakeUpLate(e)
      BY <1>1, <1>8, OutsideIsQuiet
<1>9. ASSUME NEW ep \in Endpoints, Call(ep)
      PROVE  Queue!QueueNext \/ UNCHANGED Queue!qvars
      BY <1>1, <1>2, <1>3, <1>9, QuietSteps DEF Call, Queue!QueueNext
<1>10. ASSUME NEW ep \in Endpoints, run(ep)
       PROVE  Queue!QueueNext \/ UNCHANGED Queue!qvars
       BY <1>1, <1>4, <1>6, <1>7, <1>10, QuietSteps DEF run, Queue!QueueNext
<1> QED BY <1>8, <1>9, <1>10 DEF Next

\* The goroutine, the wake-up channel, the two locked sections of an attempt
\* and the shutdown together implement a first-in first-out queue that retries
\* its head and pauses at the threshold (loop.go:10-98).
THEOREM DispatcherRefinesQueue == Spec => RefinesDeliveryQueue
<1>1. Init => Queue!QueueInit
      BY DEF Init, Queue!QueueInit
<1> QED BY <1>1, StepRefines, InitQueueInv, QueueInvStep, TypeCorrect, PTL
        DEF Spec, RefinesDeliveryQueue, Queue!QueueSpec
-----------------------------------------------------------------------------
(* Wake-ups *)

\* A loop falls asleep only when nothing is deliverable, and whoever makes
\* something deliverable owes a signal until the channel holds it.
LEMMA WakeupStep == TypeOK /\ NoLostWakeup /\ [Next]_vars => NoLostWakeup'
<1> SUFFICES ASSUME TypeOK, NoLostWakeup, [Next]_vars PROVE NoLostWakeup'
    OBVIOUS
<1> USE DispatchAssumption DEF TypeOK, EndpointTypes, LoopTypes, NoLostWakeup,
        Deliverable, Goto, failureState, signals, loop
<1>1. CASE UNCHANGED vars \/ Close \/ \E ep \in Endpoints : TakeUpLate(ep)
      BY <1>1 DEF TakeUpLate, vars, Close, BeginClose, CancelContext, WaitForLoops,
                  CloseAgain, unchangedByClose
<1>2. ASSUME NEW ep \in Endpoints, NEW ev \in Events, Enqueue(ep, ev)
      PROVE  NoLostWakeup'
      BY <1>2 DEF Enqueue, Queued, LeaveLockToWake
<1>3. ASSUME NEW ep \in Endpoints, Reactivate(ep)
      PROVE  NoLostWakeup'
      BY <1>3 DEF Reactivate, LeaveLockToWake
<1>4. ASSUME NEW ep \in Endpoints, SignalWake(ep)
      PROVE  NoLostWakeup'
      BY <1>4 DEF SignalWake
<1>5. ASSUME NEW ep \in Endpoints,
             \/ \E cfg \in Configs : RegisterEndpoint(ep, cfg)
                                       \/ UpdateEndpoint(ep, cfg)
             \/ \E n \in 0..MaxSynthetic : InjectFailures(ep, n)
      PROVE  NoLostWakeup'
      BY <1>5 DEF RegisterEndpoint, MayRegister, UpdateEndpoint, InjectFailures
<1>6. ASSUME NEW ep \in Endpoints, NothingToDeliver(ep)
      PROVE  NoLostWakeup'
      BY <1>6 DEF NothingToDeliver
<1>7. ASSUME NEW ep \in Endpoints,
             \/ StartLoop(ep) \/ HandOut(ep) \/ IdleWake(ep)
             \/ SendReaches(ep) \/ SendFails(ep) \/ RespondOk(ep)
             \/ RespondFails(ep) \/ RecordAttempt(ep) \/ RetryElapsed(ep)
             \/ LoopExit(ep)
      PROVE  NoLostWakeup'
      BY <1>7 DEF StartLoop, HandOut, OwesFailure, IdleWake, SendReaches, SendFails,
                  RespondOk, RespondFails, Outcome, RecordAttempt, LogEntry,
                  RetryElapsed, LoopExit, MayExit
<1>8. ASSUME NEW ep \in Endpoints, FinishSuccess(ep) \/ FinishFailure(ep)
      PROVE  NoLostWakeup'
      BY <1>8 DEF FinishSuccess, Popped, AfterSuccess, FinishFailure, EndIteration
<1> QED BY <1>1, <1>2, <1>3, <1>4, <1>5, <1>6, <1>7, <1>8
        DEF Next, Call, run

\* No wake-up is lost between a caller's unlock and its signal, nor between
\* nextDelivery and the idle select (endpoint.go:90-93, loop.go:14-18), however
\* many callers there are.
THEOREM WakeupsAreKept == Spec => []NoLostWakeup
<1>1. Init => NoLostWakeup
      BY DEF Init, NoLostWakeup, Deliverable
<1> QED BY <1>1, WakeupStep, TypeCorrect, PTL DEF Spec
-----------------------------------------------------------------------------
(* Shutdown *)

Running == {ep \in Endpoints : pc[ep] \notin {"absent", "done"}}

\* Together with the count itself: the first Close waits only after it has
\* closed, and from then on nobody registers.
WaitGroupInv ==
  /\ IsFiniteSet(Running) /\ wg = Cardinality(Running)
  /\ cancelled => closed
  /\ waited => closed /\ Running = {}

LEMMA WaitGroupStep == TypeOK /\ WaitGroupInv /\ [Next]_vars => WaitGroupInv'
<1> SUFFICES ASSUME TypeOK, WaitGroupInv, [Next]_vars PROVE WaitGroupInv'
    OBVIOUS
<1> USE DEF TypeOK, LoopTypes, WaitGroupInv
<1>1. ASSUME UNCHANGED <<lifecycle, Running>> PROVE WaitGroupInv'
      BY <1>1 DEF lifecycle
<1>2. CASE UNCHANGED vars \/ \E ep \in Endpoints : TakeUpLate(ep)
      BY <1>1, <1>2 DEF TakeUpLate, vars, lifecycle, loop, Running
<1>3. CASE BeginClose \/ CancelContext \/ CloseAgain
  <2>1. UNCHANGED <<wg, Running>>
        BY <1>3 DEF BeginClose, CancelContext, CloseAgain, unchangedByClose,
                    loop, Running
  <2>2. (cancelled => closed)' /\ (waited => closed /\ Running = {})'
        BY <1>3, <2>1 DEF BeginClose, CancelContext, CloseAgain
  <2> QED BY <2>1, <2>2
<1>4. CASE WaitForLoops
  <2>1. Running = {} /\ UNCHANGED <<wg, Running>>
        BY <1>4, FS_EmptySet DEF WaitForLoops, unchangedByClose, loop, Running
  <2> QED BY <1>4, <2>1 DEF WaitForLoops
<1>5. ASSUME NEW ep \in Endpoints, NEW cfg \in Configs,
             RegisterEndpoint(ep, cfg)
      PROVE  WaitGroupInv'
  <2>1. Running' = Running \cup {ep} /\ ep \notin Running
        BY <1>5 DEF RegisterEndpoint, MayRegister, Registered, Goto, Running
  <2>2. wg' = Cardinality(Running') /\ IsFiniteSet(Running')
        BY <1>5, <2>1, FS_AddElement DEF RegisterEndpoint, MayRegister
  <2> QED BY <1>5, <2>2 DEF RegisterEndpoint, MayRegister
<1>6. ASSUME NEW ep \in Endpoints, LoopExit(ep)
      PROVE  WaitGroupInv'
  <2>1. Running' = Running \ {ep} /\ ep \in Running
        BY <1>6 DEF LoopExit, MayExit, Goto, Running
  <2>2. wg' = Cardinality(Running') /\ IsFiniteSet(Running')
        BY <1>6, <2>1, FS_RemoveElement DEF LoopExit, MayExit
  <2> QED BY <1>6, <2>1, <2>2 DEF LoopExit, MayExit
<1>7. ASSUME NEW ep \in Endpoints, Call(ep)
      PROVE  WaitGroupInv'
  <2>1. ASSUME ~(\E cfg \in Configs : RegisterEndpoint(ep, cfg))
        PROVE  UNCHANGED <<lifecycle, Running>>
        BY <1>7, <2>1 DEF Call, UpdateEndpoint, Enqueue, Queued, SignalWake,
               Reactivate, InjectFailures, lifecycle, loop, Running
  <2> QED BY <1>1, <1>5, <2>1
<1>8. ASSUME NEW ep \in Endpoints, run(ep)
      PROVE  WaitGroupInv'
  <2>1. CASE LoopExit(ep)
        BY <1>6, <2>1
  <2>2. CASE ~LoopExit(ep)
    <3>1. UNCHANGED lifecycle
          BY <1>8, <2>2 DEF run, StartLoop, NothingToDeliver, HandOut, OwesFailure,
             IdleWake, SendReaches, SendFails, RespondOk, RespondFails,
             Outcome, RecordAttempt, LogEntry, FinishSuccess, Popped, AfterSuccess, FinishFailure, RetryElapsed
    <3>2. UNCHANGED Running
          BY <1>8, <2>2 DEF run, StartLoop, NothingToDeliver, HandOut, OwesFailure,
             IdleWake, SendReaches, SendFails, RespondOk, RespondFails,
             Outcome, RecordAttempt, LogEntry, FinishSuccess, Popped, AfterSuccess, FinishFailure,
             EndIteration, RetryElapsed, Goto, Running
    <3> QED BY <1>1, <3>1, <3>2
  <2> QED BY <2>1, <2>2
<1> QED BY <1>2, <1>3, <1>4, <1>7, <1>8 DEF Next, Close

\* The wait group counts exactly the loops that have not returned, and the
\* first Close returns only when there are none (dispatch.go:121-125,
\* endpoint.go:59-63, loop.go:11).
THEOREM CloseWaits == Spec => []WaitGroupCountsLoops
<1>1. Init => WaitGroupInv
      BY FS_EmptySet DEF Init, WaitGroupInv, Running
<1>2. WaitGroupInv => WaitGroupCountsLoops
      BY DEF WaitGroupInv, WaitGroupCountsLoops, Running
<1> QED BY <1>1, <1>2, WaitGroupStep, TypeCorrect, PTL DEF Spec
-----------------------------------------------------------------------------
(* The streak and the log *)

\* Between recordAttempt and finishAttempt the last log entry is the outcome
\* about to be applied.
StreakInv ==
  /\ StreakMatchesLog
  /\ \A ep \in Endpoints : reactivatedAt[ep] >= 0
  /\ \A ep \in Endpoints : pc[ep] = "finish" =>
       /\ log[ep] # <<>>
       /\ log[ep][Len(log[ep])].success = success[ep]

\* The steps that neither log nor apply an outcome.
Unlogged ==
  /\ UNCHANGED <<consecutiveFailures, reactivatedAt, log>>
  /\ \A ep \in Endpoints :
       /\ pc[ep] = "finish" <=> pc'[ep] = "finish"
       /\ pc[ep] = "finish" => success'[ep] = success[ep]

LEMMA UnloggedKeepsStreakInv ==
  ASSUME StreakInv, Unlogged
  PROVE  StreakInv'
<1>1. \A ep \in Endpoints : Finished(ep)' = Finished(ep)
      BY DEF Unlogged, Finished
<1>2. StreakMatchesLog'
      BY <1>1 DEF StreakInv, StreakMatchesLog, Unlogged
<1> QED BY <1>2 DEF StreakInv, Unlogged

LEMMA UnloggedSteps ==
  ASSUME TypeOK, NEW ep \in Endpoints,
         \/ StartLoop(ep) \/ NothingToDeliver(ep) \/ HandOut(ep)
         \/ IdleWake(ep) \/ SendReaches(ep) \/ SendFails(ep)
         \/ RespondOk(ep) \/ RespondFails(ep) \/ RetryElapsed(ep)
         \/ LoopExit(ep) \/ SignalWake(ep)
         \/ \E ev \in Events : Enqueue(ep, ev)
         \/ \E cfg \in Configs : RegisterEndpoint(ep, cfg)
                                   \/ UpdateEndpoint(ep, cfg)
         \/ \E n \in 0..MaxSynthetic : InjectFailures(ep, n)
  PROVE  Unlogged
BY DEF TypeOK, LoopTypes, Unlogged, Goto, loop, history, failureState,
       StartLoop, NothingToDeliver, HandOut, OwesFailure, IdleWake, SendReaches, SendFails,
       RespondOk, RespondFails, Outcome, RetryElapsed, LoopExit, MayExit, SignalWake,
       Enqueue, Queued, RegisterEndpoint, MayRegister, Registered, UpdateEndpoint, InjectFailures

\* The part of the invariant that concerns one endpoint.
StreakInvOf(ep) ==
  /\ consecutiveFailures[ep] <= Finished(ep) - reactivatedAt[ep]
  /\ \A i \in 1..consecutiveFailures[ep] :
       ~log[ep][Finished(ep) + 1 - i].success
  /\ consecutiveFailures[ep] < Finished(ep) - reactivatedAt[ep] =>
       log[ep][Finished(ep) - consecutiveFailures[ep]].success
  /\ reactivatedAt[ep] >= 0
  /\ pc[ep] = "finish" => /\ log[ep] # <<>>
                          /\ log[ep][Len(log[ep])].success = success[ep]

LEMMA StreakInvByEndpoint == StreakInv <=> \A ep \in Endpoints : StreakInvOf(ep)
BY DEF StreakInv, StreakMatchesLog, StreakInvOf

LEMMA LoggedSteps ==
  ASSUME TypeOK, NEW ep \in Endpoints, StreakInvOf(ep),
         \/ RecordAttempt(ep) \/ FinishSuccess(ep) \/ FinishFailure(ep)
         \/ Reactivate(ep)
  PROVE  StreakInvOf(ep)'
<1> DEFINE n == Len(log[ep])
           s == consecutiveFailures[ep]
           r == reactivatedAt[ep]
<1>1. n \in Nat /\ s \in Nat /\ r \in Int /\ log[ep] \in Seq(LogEntries)
      BY DEF TypeOK, EndpointTypes, HistoryTypes
<1>2. CASE RecordAttempt(ep)
  <2> DEFINE e == [event |-> current[ep].event, success |-> success[ep]]
  <2>1. e \in LogEntries /\ e.success = success[ep]
        BY <1>2 DEF RecordAttempt, LogEntry, TypeOK, LoopTypes, Attempting, Attempts,
                    LogEntries
  <2>2. /\ log'[ep] = Append(log[ep], e) /\ pc'[ep] = "finish"
        /\ consecutiveFailures'[ep] = s /\ reactivatedAt'[ep] = r
        /\ success'[ep] = success[ep] /\ pc[ep] # "finish"
        BY <1>2 DEF RecordAttempt, LogEntry, Goto, failureState, TypeOK, HistoryTypes,
                    LoopTypes
  <2>3. /\ Len(log'[ep]) = n + 1 /\ log'[ep] # <<>>
        /\ log'[ep][n + 1] = e
        /\ \A i \in 1..n : log'[ep][i] = log[ep][i]
        BY <1>1, <2>1, <2>2, AppendProperties
  <2>4. Finished(ep) = n /\ Finished(ep)' = n
        BY <1>1, <2>2, <2>3 DEF Finished
  <2> QED BY <1>1, <2>1, <2>2, <2>3, <2>4 DEF StreakInvOf
<1>3. CASE FinishSuccess(ep) \/ FinishFailure(ep)
  <2>1. /\ log'[ep] = log[ep] /\ reactivatedAt'[ep] = r
        /\ pc[ep] = "finish" /\ pc'[ep] # "finish"
        BY <1>3 DEF FinishSuccess, Popped, AfterSuccess, FinishFailure, EndIteration, Goto, history,
                    TypeOK, LoopTypes
  <2>2. n # 0
        BY <1>1, <2>1, EmptySeq DEF StreakInvOf
  <2>3. Finished(ep) = n - 1 /\ Finished(ep)' = n
        BY <1>1, <2>1 DEF Finished
  <2>4. CASE FinishSuccess(ep)
    <3>1. consecutiveFailures'[ep] = 0 /\ log[ep][n].success
          BY <2>1, <2>4 DEF FinishSuccess, Popped, AfterSuccess, StreakInvOf, TypeOK, EndpointTypes
    <3>2. 0 <= n - r /\ n - 0 = n /\ 1..0 = {}
          BY <1>1, <2>3 DEF StreakInvOf
    <3>3. r >= 0
          BY DEF StreakInvOf
    <3> QED BY <2>1, <2>3, <3>1, <3>2, <3>3 DEF StreakInvOf
  <2>5. CASE FinishFailure(ep)
    <3>1. consecutiveFailures'[ep] = s + 1 /\ ~log[ep][n].success
          BY <2>1, <2>5 DEF FinishFailure, StreakInvOf, TypeOK, EndpointTypes
    <3>2. s + 1 <= n - r /\ r >= 0
          BY <1>1, <2>2, <2>3 DEF StreakInvOf
    <3>3. \A i \in 1..(s + 1) : ~log[ep][n + 1 - i].success
      <4>1. \A j \in 1..s : ~log[ep][n - j].success
            BY <1>1, <2>3 DEF StreakInvOf
      <4>2. ASSUME NEW i \in 1..(s + 1), i # 1
            PROVE  i - 1 \in 1..s /\ n + 1 - i = n - (i - 1)
            BY <1>1, <4>2
      <4> QED BY <1>1, <3>1, <4>1, <4>2
    <3>4. s + 1 < n - r => log[ep][n - (s + 1)].success
          BY <1>1, <2>3 DEF StreakInvOf
    <3> QED BY <1>1, <2>1, <2>3, <3>1, <3>2, <3>3, <3>4 DEF StreakInvOf
  <2> QED BY <1>3, <2>4, <2>5
<1>4. CASE Reactivate(ep)
  <2>1. /\ log'[ep] = log[ep] /\ pc'[ep] = pc[ep] /\ success'[ep] = success[ep]
        /\ consecutiveFailures'[ep] = 0 /\ reactivatedAt'[ep] = Finished(ep)
        BY <1>4 DEF Reactivate, loop, TypeOK, EndpointTypes, HistoryTypes
  <2>2. Finished(ep)' = Finished(ep)
        BY <2>1 DEF Finished
  <2>3. Finished(ep) \in Nat
        BY <1>1, EmptySeq DEF Finished, StreakInvOf
  <2> QED BY <2>1, <2>2, <2>3 DEF StreakInvOf
<1> QED BY <1>2, <1>3, <1>4

\* What another endpoint's loop logs or applies concerns nobody else.
LEMMA OthersKeepStreakInv ==
  ASSUME TypeOK, NEW ep \in Endpoints, NEW other \in Endpoints, other # ep,
         StreakInvOf(other),
         \/ RecordAttempt(ep) \/ FinishSuccess(ep) \/ FinishFailure(ep)
         \/ Reactivate(ep)
  PROVE  StreakInvOf(other)'
<1>1. /\ log'[other] = log[other] /\ pc'[other] = pc[other]
      /\ success'[other] = success[other]
      /\ consecutiveFailures'[other] = consecutiveFailures[other]
      /\ reactivatedAt'[other] = reactivatedAt[other]
      BY DEF RecordAttempt, LogEntry, FinishSuccess, Popped, AfterSuccess, FinishFailure, Reactivate,
             EndIteration, Goto, failureState, history, loop, TypeOK,
             EndpointTypes, LoopTypes, HistoryTypes
<1> QED BY <1>1 DEF StreakInvOf, Finished

LEMMA StreakStep == TypeOK /\ StreakInv /\ [Next]_vars => StreakInv'
<1> SUFFICES ASSUME TypeOK, StreakInv, [Next]_vars PROVE StreakInv'
    OBVIOUS
<1>1. CASE UNCHANGED vars \/ Close \/ \E ep \in Endpoints : TakeUpLate(ep)
  <2>1. Unlogged
        BY <1>1 DEF TakeUpLate, vars, Close, BeginClose, CancelContext, WaitForLoops,
               CloseAgain, unchangedByClose, Unlogged, loop, history,
               failureState
  <2> QED BY <2>1, UnloggedKeepsStreakInv
<1>2. ASSUME NEW ep \in Endpoints,
             \/ RecordAttempt(ep) \/ FinishSuccess(ep) \/ FinishFailure(ep)
             \/ Reactivate(ep)
      PROVE  StreakInv'
  <2>1. \A e \in Endpoints : StreakInvOf(e)
        BY StreakInvByEndpoint
  <2>2. \A e \in Endpoints : StreakInvOf(e)'
        BY <1>2, <2>1, LoggedSteps, OthersKeepStreakInv
  <2> QED BY <2>2 DEF StreakInv, StreakMatchesLog, StreakInvOf
<1>3. ASSUME NEW ep \in Endpoints, Call(ep) PROVE StreakInv'
      BY <1>2, <1>3, UnloggedSteps, UnloggedKeepsStreakInv DEF Call
<1>4. ASSUME NEW ep \in Endpoints, run(ep) PROVE StreakInv'
      BY <1>2, <1>4, UnloggedSteps, UnloggedKeepsStreakInv DEF run
<1> QED BY <1>1, <1>3, <1>4 DEF Next

LEMMA InitStreakInv == Init => StreakInv
BY DEF Init, StreakInv, StreakMatchesLog, Finished

\* The failure streak is what the delivery log shows, although the two are
\* written in separate critical sections and Reactivate may fall between them
\* (loop.go:33,42, endpoint.go:132-133).
THEOREM StreakIsWhatTheLogShows == Spec => []StreakMatchesLog
<1>1. StreakInv => StreakMatchesLog
      BY DEF StreakInv
<1> QED BY <1>1, InitStreakInv, StreakStep, TypeCorrect, PTL DEF Spec
-----------------------------------------------------------------------------
(* What the receiver sees *)

\* The attempt under way reached the receiver, or will count as a success.
Answered(ep) ==
  \/ pc[ep] = "await"
  \/ pc[ep] \in {"record", "finish"} /\ success[ep]

\* The requests that are on their way or were taken up.
Received(ep) == {receipts[ep][i] : i \in 1..Len(receipts[ep])}
Sent(ep) == Received(ep) \cup abandoned[ep]

\* For one endpoint: where the requests stand in the queue and among the
\* attempts.  One that may come late was given up, or is about to be logged so.
SentInvOf(ep) ==
  /\ \A q \in Sent(ep) :
       /\ q.at <= Len(delivered[ep]) /\ q.at < Len(accepted[ep])
       /\ q.event = accepted[ep][q.at + 1]
       /\ q.attempt <= Len(log[ep]) + 1
       /\ q.attempt = Len(log[ep]) + 1 => pc[ep] \in {"await", "record"}
  /\ \A p, q \in Sent(ep) : p.attempt < q.attempt => p.at <= q.at
  /\ \A q \in abandoned[ep] :
       \/ GivenUp(ep, q.attempt)
       \/ q.attempt = Len(log[ep]) + 1 /\ pc[ep] = "record" /\ ~success[ep]

\* No event reached the receiver before an earlier one.
NoGaps(ep) ==
  LET r == receipts[ep] IN
  \A i \in 1..Len(r) : \A n \in 0..(r[i].at - 1) :
    \E j \in 1..(i - 1) : r[j].at = n

\* What came behind the request of a later attempt was given up.
LateWereGivenUp(ep) ==
  LET r == receipts[ep] IN
  \A i, j \in 1..Len(r) :
    r[i].attempt < r[j].attempt /\ j < i => GivenUp(ep, r[i].attempt)

\* The receiver got the request of each attempt that delivered, and of the one
\* that is going to.
AnsweredArrived(ep) ==
  LET r == receipts[ep]
      d == Len(delivered[ep])
  IN /\ \A k \in 1..d : \E i \in 1..Len(r) : Answers(ep, k, r[i])
     /\ Answered(ep) => \E i \in 1..Len(r) :
          r[i].at = d /\ r[i].attempt = Finished(ep) + 1

ReceivedInvOf(ep) == NoGaps(ep) /\ LateWereGivenUp(ep) /\ AnsweredArrived(ep)

OrderInvOf(ep) == SentInvOf(ep) /\ ReceivedInvOf(ep)
OrderInv == \A ep \in Endpoints : OrderInvOf(ep)

\* The fields of a request that was sent, and the types around it.
LEMMA SentFields ==
  ASSUME TypeOK, NEW ep \in Endpoints
  PROVE  /\ receipts[ep] \in Seq(Requests) /\ Len(receipts[ep]) \in Nat
         /\ log[ep] \in Seq(LogEntries) /\ Len(log[ep]) \in Nat
         /\ accepted[ep] \in Seq(Events) /\ Len(accepted[ep]) \in Nat
         /\ delivered[ep] \in Seq(Events) /\ Len(delivered[ep]) \in Nat
         /\ Finished(ep) \in Int /\ Finished(ep) <= Len(log[ep])
         /\ \A q \in Sent(ep) : q.at \in Nat /\ q.attempt \in Nat \ {0}
         /\ \A i \in 1..Len(receipts[ep]) : receipts[ep][i] \in Sent(ep)
         /\ abandoned[ep] \subseteq Sent(ep)
<1>1. /\ receipts[ep] \in Seq(Requests) /\ log[ep] \in Seq(LogEntries)
      /\ accepted[ep] \in Seq(Events) /\ delivered[ep] \in Seq(Events)
      /\ abandoned[ep] \subseteq Requests
      BY DEF TypeOK, HistoryTypes
<1>2. /\ Len(receipts[ep]) \in Nat /\ Len(log[ep]) \in Nat
      /\ Len(accepted[ep]) \in Nat /\ Len(delivered[ep]) \in Nat
      BY <1>1
<1>3. Sent(ep) \subseteq Requests
      BY <1>1 DEF Sent, Received
<1>4. \A q \in Requests : q.at \in Nat /\ q.attempt \in Nat \ {0}
      BY DEF Requests
<1>5. \A i \in 1..Len(receipts[ep]) : receipts[ep][i] \in Sent(ep)
      BY DEF Sent, Received
<1>6. abandoned[ep] \subseteq Sent(ep)
      BY DEF Sent
<1>7. Finished(ep) \in Int /\ Finished(ep) <= Len(log[ep])
  <2>1. CASE pc[ep] = "finish"
        BY <1>2, <2>1 DEF Finished
  <2>2. CASE pc[ep] # "finish"
        BY <1>2, <2>2 DEF Finished
  <2> QED BY <2>1, <2>2
<1> QED BY <1>1, <1>2, <1>3, <1>4, <1>5, <1>6, <1>7

\* A request taken up now joins the others.
LEMMA ReceivedAppend ==
  ASSUME NEW ep, NEW q \in Requests, receipts[ep] \in Seq(Requests),
         receipts'[ep] = Append(receipts[ep], q)
  PROVE  /\ Len(receipts'[ep]) = Len(receipts[ep]) + 1
         /\ receipts'[ep][Len(receipts[ep]) + 1] = q
         /\ \A i \in 1..Len(receipts[ep]) : receipts'[ep][i] = receipts[ep][i]
         /\ Received(ep)' = Received(ep) \cup {q}
<1>1. /\ Len(receipts'[ep]) = Len(receipts[ep]) + 1 /\ Len(receipts[ep]) \in Nat
      /\ receipts'[ep][Len(receipts[ep]) + 1] = q
      /\ \A i \in 1..Len(receipts[ep]) : receipts'[ep][i] = receipts[ep][i]
      BY AppendProperties
<1>2. \A i : i \in 1..(Len(receipts[ep]) + 1) <=>
               i \in 1..Len(receipts[ep]) \/ i = Len(receipts[ep]) + 1
      BY <1>1
<1>3. Received(ep)' = Received(ep) \cup {q}
      BY <1>1, <1>2 DEF Received
<1> QED BY <1>1, <1>3

\* What a step needs to leave as it is, or to change for the better, when it
\* sends nothing, brings the receiver nothing and delivers nothing.
Unsent(ep) ==
  /\ receipts'[ep] = receipts[ep] /\ abandoned'[ep] = abandoned[ep]
  /\ delivered'[ep] = delivered[ep] /\ accepted'[ep] = accepted[ep]
  /\ log'[ep] = log[ep]
  /\ Finished(ep)' \in Int /\ Finished(ep) <= Finished(ep)'
  /\ Answered(ep)' => Answered(ep) /\ Finished(ep)' = Finished(ep)
  /\ pc[ep] \in {"await", "record"} => pc'[ep] \in {"await", "record"}
  /\ pc[ep] = "record" /\ ~success[ep] => pc'[ep] = "record" /\ ~success'[ep]

LEMMA UnsentKeepsOrder ==
  ASSUME TypeOK, NEW ep \in Endpoints, OrderInvOf(ep), Unsent(ep)
  PROVE  OrderInvOf(ep)'
<1>1. Sent(ep)' = Sent(ep)
      BY DEF Unsent, Sent, Received
<1>2. \A n : GivenUp(ep, n)' <=> GivenUp(ep, n)
      BY DEF Unsent, GivenUp
<1>3. SentInvOf(ep)'
      BY <1>1, <1>2 DEF Unsent, OrderInvOf, SentInvOf, GivenUp
<1>4. \A k, i : Answers(ep, k, receipts[ep][i]) => Answers(ep, k, receipts[ep][i])'
  <2>1. \A n : n \in 1..Finished(ep) => n \in 1..Finished(ep)'
        BY SentFields DEF Unsent
  <2> QED BY <2>1 DEF Unsent, Answers
<1>5. NoGaps(ep)' /\ LateWereGivenUp(ep)'
      BY DEF Unsent, OrderInvOf, ReceivedInvOf, NoGaps, LateWereGivenUp, GivenUp
<1>6. AnsweredArrived(ep)'
      BY <1>4 DEF Unsent, OrderInvOf, ReceivedInvOf, AnsweredArrived, Answers
<1> QED BY <1>3, <1>5, <1>6 DEF OrderInvOf, ReceivedInvOf

\* The others notice nothing of what concerns one endpoint.
Unconcerned(ep) ==
  /\ receipts'[ep] = receipts[ep] /\ abandoned'[ep] = abandoned[ep]
  /\ delivered'[ep] = delivered[ep] /\ accepted'[ep] = accepted[ep]
  /\ log'[ep] = log[ep] /\ pc'[ep] = pc[ep] /\ success'[ep] = success[ep]

LEMMA UnconcernedIsUnsent ==
  ASSUME TypeOK, NEW ep \in Endpoints, Unconcerned(ep)
  PROVE  Unsent(ep)
<1>1. Finished(ep)' = Finished(ep) /\ (Answered(ep)' <=> Answered(ep))
      BY DEF Unconcerned, Finished, Answered
<1>2. Finished(ep) \in Int
      BY SentFields
<1> QED BY <1>1, <1>2 DEF Unconcerned, Unsent

LEMMA OthersUnconcerned ==
  ASSUME TypeOK, NEW ep \in Endpoints, NEW other \in Endpoints \ {ep},
         run(ep) \/ Call(ep) \/ TakeUpLate(ep)
  PROVE  Unconcerned(other)
<1> USE DEF TypeOK, LoopTypes, HistoryTypes, Unconcerned, Goto, loop, history
<1>1. CASE Call(ep)
      BY <1>1 DEF Call, RegisterEndpoint, UpdateEndpoint, Enqueue, SignalWake,
                  Reactivate, InjectFailures
<1>2. CASE TakeUpLate(ep)
      BY <1>2 DEF TakeUpLate
<1>3. CASE run(ep)
  <2>1. CASE \/ StartLoop(ep) \/ NothingToDeliver(ep) \/ HandOut(ep) \/ IdleWake(ep)
             \/ RetryElapsed(ep) \/ LoopExit(ep)
        BY <2>1 DEF StartLoop, NothingToDeliver, HandOut, OwesFailure, IdleWake,
                    RetryElapsed, LoopExit
  <2>2. CASE \/ SendReaches(ep) \/ SendFails(ep) \/ RespondOk(ep) \/ RespondFails(ep)
        BY <2>2 DEF SendReaches, SendFails, RespondOk, RespondFails, Outcome
  <2>3. CASE RecordAttempt(ep) \/ FinishSuccess(ep) \/ FinishFailure(ep)
        BY <2>3 DEF RecordAttempt, FinishSuccess, FinishFailure, EndIteration
  <2> QED BY <1>3, <2>1, <2>2, <2>3 DEF run
<1> QED BY <1>1, <1>2, <1>3

\* Most steps of an endpoint are like that, too.
LEMMA UnsentSteps ==
  ASSUME TypeOK, NEW ep \in Endpoints,
         \/ StartLoop(ep) \/ NothingToDeliver(ep) \/ HandOut(ep) \/ IdleWake(ep)
         \/ RespondOk(ep) \/ RespondFails(ep) \/ FinishFailure(ep)
         \/ RetryElapsed(ep) \/ LoopExit(ep) \/ SignalWake(ep) \/ Reactivate(ep)
         \/ \E cfg \in Configs : RegisterEndpoint(ep, cfg)
                                   \/ UpdateEndpoint(ep, cfg)
         \/ \E n \in 0..MaxSynthetic : InjectFailures(ep, n)
  PROVE  Unsent(ep)
<1>1. UNCHANGED <<receipts, abandoned, delivered, accepted, log>>
      BY DEF StartLoop, NothingToDeliver, HandOut, IdleWake,
             RespondOk, RespondFails, Outcome, FinishFailure,
             RetryElapsed, LoopExit, SignalWake, Reactivate, RegisterEndpoint,
             UpdateEndpoint, InjectFailures, history
<1>2. Finished(ep) \in Int /\ Len(log[ep]) \in Nat /\ pc[ep] \in Places
      BY SentFields DEF TypeOK, LoopTypes
<1>3. CASE \/ StartLoop(ep) \/ NothingToDeliver(ep) \/ HandOut(ep) \/ IdleWake(ep)
           \/ RetryElapsed(ep) \/ LoopExit(ep)
           \/ \E cfg \in Configs : RegisterEndpoint(ep, cfg)
  <2>1. /\ pc[ep] \notin {"await", "record", "finish"}
        /\ pc'[ep] \notin {"await", "finish"}
        /\ pc'[ep] = "record" => ~success'[ep]
        BY <1>3 DEF TypeOK, LoopTypes, Goto, StartLoop, NothingToDeliver, HandOut,
                    IdleWake, RetryElapsed, LoopExit, MayExit, RegisterEndpoint,
                    MayRegister, Registered
  <2>2. Finished(ep)' = Finished(ep)
        BY <1>1, <2>1 DEF Finished
  <2>3. ~Answered(ep)'
        BY <2>1 DEF Answered
  <2> QED BY <1>1, <1>2, <2>1, <2>2, <2>3 DEF Unsent
<1>4. CASE RespondOk(ep) \/ RespondFails(ep)
  <2>1. pc[ep] = "await" /\ pc'[ep] = "record"
        BY <1>4 DEF TypeOK, LoopTypes, RespondOk, RespondFails, Outcome, Goto
  <2>2. Finished(ep)' = Finished(ep) /\ Answered(ep)
        BY <1>1, <2>1 DEF Finished, Answered
  <2> QED BY <1>1, <1>2, <2>1, <2>2 DEF Unsent
<1>5. CASE FinishFailure(ep)
  <2>1. pc[ep] = "finish" /\ pc'[ep] \in {"next", "retry"}
        BY <1>5 DEF TypeOK, LoopTypes, FinishFailure, EndIteration, Goto
  <2>2. ~Answered(ep)'
        BY <2>1 DEF Answered
  <2>3. Finished(ep) = Len(log[ep]) - 1 /\ Finished(ep)' = Len(log[ep])
    <3>1. pc'[ep] # "finish" /\ log'[ep] = log[ep]
          BY <1>1, <2>1
    <3> QED BY <1>2, <2>1, <3>1 DEF Finished
  <2> QED BY <1>1, <1>2, <2>1, <2>2, <2>3 DEF Unsent
<1>6. CASE \/ SignalWake(ep) \/ Reactivate(ep)
           \/ (\E cfg \in Configs : UpdateEndpoint(ep, cfg))
           \/ \E n \in 0..MaxSynthetic : InjectFailures(ep, n)
  <2>1. UNCHANGED <<pc, success>>
        BY <1>6 DEF SignalWake, Reactivate, UpdateEndpoint, InjectFailures, loop
  <2> QED BY <1>1, <2>1, UnconcernedIsUnsent DEF Unconcerned
<1> QED BY <1>3, <1>4, <1>5, <1>6

\* An event added behind the queue leaves the place of every other.
LEMMA EnqueueKeepsOrder ==
  ASSUME TypeOK, NEW ep \in Endpoints, OrderInvOf(ep), NEW ev \in Events,
         Enqueue(ep, ev)
  PROVE  OrderInvOf(ep)'
<1> DEFINE a == accepted[ep]
<1>1. /\ UNCHANGED <<receipts, abandoned, delivered, log, pc, success>>
      /\ a \in Seq(Events) /\ accepted'[ep] = Append(a, ev)
      BY DEF TypeOK, HistoryTypes, Enqueue, loop
<1>2. /\ Len(Append(a, ev)) = Len(a) + 1 /\ Len(a) \in Nat
      /\ \A i \in 1..Len(a) : Append(a, ev)[i] = a[i]
      BY <1>1, AppendProperties
<1>3. /\ Sent(ep)' = Sent(ep) /\ Finished(ep)' = Finished(ep)
      /\ Answered(ep)' <=> Answered(ep)
      /\ \A n : GivenUp(ep, n)' <=> GivenUp(ep, n)
      BY <1>1 DEF Sent, Received, Finished, Answered, GivenUp
<1>4. \A q \in Sent(ep) : /\ q.at < Len(Append(a, ev))
                          /\ q.event = Append(a, ev)[q.at + 1]
  <2> TAKE q \in Sent(ep)
  <2>1. q.at \in Nat /\ q.at < Len(a) /\ q.event = a[q.at + 1]
        BY SentFields DEF OrderInvOf, SentInvOf
  <2>2. q.at + 1 \in 1..Len(a) /\ q.at < Len(a) + 1
        BY <1>2, <2>1
  <2> QED BY <1>2, <2>1, <2>2
<1>5. SentInvOf(ep)'
      BY <1>1, <1>3, <1>4 DEF OrderInvOf, SentInvOf, GivenUp
<1>6. receipts'[ep] = receipts[ep]
      BY <1>1
<1>7. NoGaps(ep)'
      BY <1>6 DEF OrderInvOf, ReceivedInvOf, NoGaps
<1>8. LateWereGivenUp(ep)'
      BY <1>3, <1>6 DEF OrderInvOf, ReceivedInvOf, LateWereGivenUp
<1>9. AnsweredArrived(ep)'
      BY <1>1, <1>3 DEF OrderInvOf, ReceivedInvOf, AnsweredArrived, Answers
<1> QED BY <1>5, <1>7, <1>8, <1>9 DEF OrderInvOf, ReceivedInvOf

\* The request of an attempt is the last one so far and for the head, which is
\* the event after the delivered ones.
LEMMA RequestIsLast ==
  ASSUME TypeOK, QueueInv, NEW ep \in Endpoints, SentInvOf(ep), pc[ep] = "deliver"
  PROVE  LET q == Request(ep)
             d == Len(delivered[ep])
         IN /\ q \in Requests /\ q.at = d /\ q.attempt = Len(log[ep]) + 1
            /\ d < Len(accepted[ep]) /\ q.event = accepted[ep][d + 1]
            /\ \A p \in Sent(ep) : p.attempt < q.attempt /\ p.at <= d
<1>1. pc[ep] \in Attempting
      BY DEF Attempting
<1>2. /\ delivered[ep] \o pending[ep] = accepted[ep] /\ pending[ep] # <<>>
      /\ Head(pending[ep]) = current[ep].event
      BY <1>1 DEF QueueInv, QueueConservation, AttemptStaysValid
<1>3. delivered[ep] \in Seq(Events) /\ pending[ep] \in Seq(Events)
      BY DEF TypeOK, HistoryTypes, EndpointTypes
<1>4. /\ Len(delivered[ep]) < Len(accepted[ep])
      /\ accepted[ep][Len(delivered[ep]) + 1] = current[ep].event
      BY <1>2, <1>3, ConcatNext
<1>5. /\ Request(ep).at = Len(delivered[ep])
      /\ Request(ep).attempt = Len(log[ep]) + 1
      /\ Request(ep).event = current[ep].event
      BY DEF Request
<1>6. \A p \in Sent(ep) : p.attempt < Len(log[ep]) + 1 /\ p.at <= Len(delivered[ep])
      BY SentFields DEF SentInvOf
<1> QED BY <1>1, <1>4, <1>5, <1>6, RequestTypes

\* A request on its way after the client gave up is one more that was sent.
LEMMA GivingUpKeepsOrder ==
  ASSUME TypeOK, QueueInv, NEW ep \in Endpoints, OrderInvOf(ep), SendFails(ep)
  PROVE  OrderInvOf(ep)'
<1> DEFINE q == Request(ep)
<1>1. /\ UNCHANGED <<receipts, delivered, accepted, log>>
      /\ pc[ep] = "deliver" /\ pc'[ep] = "record" /\ ~success'[ep]
      /\ abandoned'[ep] = abandoned[ep] \cup {q}
      BY DEF TypeOK, LoopTypes, HistoryTypes, SendFails, Outcome, Goto
<1>2. /\ q.at = Len(delivered[ep]) /\ q.attempt = Len(log[ep]) + 1
      /\ Len(delivered[ep]) < Len(accepted[ep])
      /\ q.event = accepted[ep][Len(delivered[ep]) + 1]
      /\ \A p \in Sent(ep) : p.attempt < q.attempt /\ p.at <= Len(delivered[ep])
      BY <1>1, RequestIsLast DEF OrderInvOf
<1>3. /\ Len(log[ep]) \in Nat /\ Len(delivered[ep]) \in Nat
      /\ \A p \in Sent(ep) : p.at \in Nat /\ p.attempt \in Nat
      BY SentFields
<1> HIDE DEF q
<1>4. Sent(ep)' = Sent(ep) \cup {q}
      BY <1>1 DEF Sent, Received
<1>5. \A n : GivenUp(ep, n)' <=> GivenUp(ep, n)
      BY <1>1 DEF GivenUp
<1>6. SentInvOf(ep)'
  <2>1. \A p \in Sent(ep)' :
          /\ p.at <= Len(delivered[ep]) /\ p.at < Len(accepted[ep])
          /\ p.event = accepted[ep][p.at + 1]
          /\ p.attempt <= Len(log[ep]) + 1
        BY <1>2, <1>3, <1>4 DEF OrderInvOf, SentInvOf
  <2>2. \A p, s \in Sent(ep)' : p.attempt < s.attempt => p.at <= s.at
    <3> TAKE p, s \in Sent(ep)'
    <3>1. CASE s = q
          BY <1>2, <1>3, <1>4, <3>1
    <3>2. CASE s # q /\ p = q
      <4>1. s.attempt < q.attempt /\ s.attempt \in Nat
            BY <1>2, <1>3, <1>4, <3>2
      <4> QED BY <1>2, <1>3, <3>2, <4>1
    <3>3. CASE s # q /\ p # q
          BY <1>4, <3>3 DEF OrderInvOf, SentInvOf
    <3> QED BY <3>1, <3>2, <3>3
  <2>3. \A p \in abandoned'[ep] :
          GivenUp(ep, p.attempt) \/ p.attempt = Len(log[ep]) + 1
        BY <1>1, <1>2 DEF OrderInvOf, SentInvOf
  <2> QED BY <1>1, <1>5, <2>1, <2>2, <2>3 DEF SentInvOf
<1>7. ReceivedInvOf(ep)'
  <2>1. Finished(ep)' = Finished(ep) /\ ~Answered(ep)'
        BY <1>1 DEF Finished, Answered
  <2>2. NoGaps(ep)' /\ LateWereGivenUp(ep)'
        BY <1>1 DEF OrderInvOf, ReceivedInvOf, NoGaps, LateWereGivenUp, GivenUp
  <2>3. AnsweredArrived(ep)'
        BY <1>1, <2>1 DEF OrderInvOf, ReceivedInvOf, AnsweredArrived, Answers
  <2> QED BY <2>2, <2>3 DEF ReceivedInvOf
<1> QED BY <1>6, <1>7 DEF OrderInvOf

\* A request joins what the receiver got: no event before it is missing there,
\* for they are all delivered, and it comes behind a later attempt's only when
\* it was given up.
LEMMA TakingUpKeepsReceived ==
  ASSUME TypeOK, NEW ep \in Endpoints, OrderInvOf(ep), NEW q \in Requests,
         q.at <= Len(delivered[ep]),
         GivenUp(ep, q.attempt) \/ \A p \in Sent(ep) : ~(q.attempt < p.attempt),
         receipts'[ep] = Append(receipts[ep], q),
         delivered'[ep] = delivered[ep], log'[ep] = log[ep],
         Finished(ep)' = Finished(ep),
         Answered(ep)' =>
           \/ Answered(ep)
           \/ q.at = Len(delivered[ep]) /\ q.attempt = Finished(ep) + 1
  PROVE  ReceivedInvOf(ep)'
<1> DEFINE r == receipts[ep]
           s == receipts'[ep]
           d == Len(delivered[ep])
<1>1. /\ Len(s) = Len(r) + 1 /\ Len(r) \in Nat /\ s[Len(r) + 1] = q
      /\ \A i \in 1..Len(r) : s[i] = r[i] /\ r[i] \in Sent(ep)
      BY SentFields, ReceivedAppend
<1>2. d \in Nat /\ q.at \in Nat
      BY SentFields DEF Requests
<1>3. /\ \A k \in 1..d : \E i \in 1..Len(r) : Answers(ep, k, r[i])
      /\ \A i \in 1..Len(r) : \A n \in 0..(r[i].at - 1) :
           \E j \in 1..(i - 1) : r[j].at = n
      /\ \A i, j \in 1..Len(r) :
           r[i].attempt < r[j].attempt /\ j < i => GivenUp(ep, r[i].attempt)
      /\ Answered(ep) => \E i \in 1..Len(r) :
           r[i].at = d /\ r[i].attempt = Finished(ep) + 1
      BY DEF OrderInvOf, ReceivedInvOf, NoGaps, LateWereGivenUp, AnsweredArrived
<1> HIDE DEF r, s, d
<1>4. ASSUME NEW i \in 1..Len(s), NEW n \in 0..(s[i].at - 1)
      PROVE  \E j \in 1..(i - 1) : s[j].at = n
  <2>1. CASE i = Len(r) + 1
    <3>1. n + 1 \in 1..d
          BY <1>1, <1>2, <1>4, <2>1 DEF d
    <3>2. PICK j \in 1..Len(r) : Answers(ep, n + 1, r[j])
          BY <1>3, <3>1
    <3>3. r[j].at = (n + 1) - 1 /\ j \in 1..(i - 1) /\ s[j] = r[j]
          BY <1>1, <2>1, <3>2 DEF Answers
    <3>4. (n + 1) - 1 = n
          BY <3>1
    <3> QED BY <3>3, <3>4
  <2>2. CASE i # Len(r) + 1
    <3>1. i \in 1..Len(r) /\ s[i] = r[i]
          BY <1>1, <2>2
    <3>2. PICK j \in 1..(i - 1) : r[j].at = n
          BY <1>3, <1>4, <3>1
    <3>3. j \in 1..Len(r)
          BY <1>1, <3>1, <3>2
    <3> QED BY <1>1, <3>2, <3>3
  <2> QED BY <2>1, <2>2
<1>5. ASSUME NEW i \in 1..Len(s), NEW j \in 1..Len(s),
             s[i].attempt < s[j].attempt, j < i
      PROVE  GivenUp(ep, s[i].attempt)
  <2>1. j \in 1..Len(r) /\ s[j] = r[j] /\ r[j] \in Sent(ep)
        BY <1>1, <1>5
  <2>2. CASE i = Len(r) + 1
        BY <1>1, <1>5, <2>1, <2>2
  <2>3. CASE i # Len(r) + 1
    <3>1. i \in 1..Len(r) /\ s[i] = r[i]
          BY <1>1, <2>3
    <3> QED BY <1>3, <1>5, <2>1, <3>1
  <2> QED BY <2>2, <2>3
<1>6. ASSUME NEW k \in 1..d
      PROVE  \E i \in 1..Len(s) : Answers(ep, k, s[i])
  <2>1. PICK i \in 1..Len(r) : Answers(ep, k, r[i])
        BY <1>3
  <2>2. i \in 1..Len(s) /\ s[i] = r[i]
        BY <1>1
  <2> QED BY <2>1, <2>2
<1>7. Answered(ep)' => \E i \in 1..Len(s) :
        s[i].at = d /\ s[i].attempt = Finished(ep) + 1
  <2>1. CASE q.at = d /\ q.attempt = Finished(ep) + 1
        BY <1>1, <2>1
  <2>2. CASE Answered(ep)
    <3>1. PICK i \in 1..Len(r) : r[i].at = d /\ r[i].attempt = Finished(ep) + 1
          BY <1>3, <2>2
    <3> QED BY <1>1, <3>1
  <2> QED BY <2>1, <2>2 DEF d
<1>8. NoGaps(ep)'
      BY <1>4 DEF NoGaps, s
<1>9. LateWereGivenUp(ep)'
      BY <1>5 DEF LateWereGivenUp, GivenUp, s
<1>10. AnsweredArrived(ep)'
  <2>1. ASSUME NEW k \in 1..d
        PROVE  \E i \in 1..Len(receipts'[ep]) : Answers(ep, k, receipts[ep][i])'
        BY <1>6 DEF Answers, s
  <2> QED BY <1>7, <2>1 DEF AnsweredArrived, Answers, s, d
<1> QED BY <1>8, <1>9, <1>10 DEF ReceivedInvOf

\* The request that reaches the receiver in time is the last one sent.
LEMMA SendKeepsOrder ==
  ASSUME TypeOK, QueueInv, NEW ep \in Endpoints, OrderInvOf(ep), SendReaches(ep)
  PROVE  OrderInvOf(ep)'
<1> DEFINE q == Request(ep)
<1>1. /\ UNCHANGED <<abandoned, delivered, accepted, log>>
      /\ pc[ep] = "deliver" /\ pc'[ep] = "await"
      /\ receipts'[ep] = Append(receipts[ep], q)
      BY DEF TypeOK, LoopTypes, HistoryTypes, SendReaches, Goto
<1>2. /\ q \in Requests
      /\ q.at = Len(delivered[ep]) /\ q.attempt = Len(log[ep]) + 1
      /\ Len(delivered[ep]) < Len(accepted[ep])
      /\ q.event = accepted[ep][Len(delivered[ep]) + 1]
      /\ \A p \in Sent(ep) : p.attempt < q.attempt /\ p.at <= Len(delivered[ep])
      BY <1>1, RequestIsLast DEF OrderInvOf
<1>3. /\ Len(log[ep]) \in Nat /\ Len(delivered[ep]) \in Nat
      /\ \A p \in Sent(ep) : p.at \in Nat /\ p.attempt \in Nat
      /\ receipts[ep] \in Seq(Requests)
      BY SentFields
<1> HIDE DEF q
<1>4. Sent(ep)' = Sent(ep) \cup {q}
  <2>1. Received(ep)' = Received(ep) \cup {q}
        BY <1>1, <1>2, <1>3, ReceivedAppend
  <2> QED BY <1>1, <2>1 DEF Sent
<1>5. Finished(ep)' = Finished(ep) /\ q.attempt = Finished(ep) + 1
      BY <1>1, <1>2, <1>3 DEF Finished
<1>6. SentInvOf(ep)'
  <2>1. \A p \in Sent(ep)' :
          /\ p.at <= Len(delivered[ep]) /\ p.at < Len(accepted[ep])
          /\ p.event = accepted[ep][p.at + 1]
          /\ p.attempt <= Len(log[ep]) + 1
        BY <1>2, <1>3, <1>4 DEF OrderInvOf, SentInvOf
  <2>2. \A p, s \in Sent(ep)' : p.attempt < s.attempt => p.at <= s.at
    <3> TAKE p, s \in Sent(ep)'
    <3>1. CASE s = q
          BY <1>2, <1>3, <1>4, <3>1
    <3>2. CASE s # q /\ p = q
      <4>1. s.attempt < q.attempt /\ s.attempt \in Nat
            BY <1>2, <1>3, <1>4, <3>2
      <4> QED BY <1>2, <1>3, <3>2, <4>1
    <3>3. CASE s # q /\ p # q
          BY <1>4, <3>3 DEF OrderInvOf, SentInvOf
    <3> QED BY <3>1, <3>2, <3>3
  <2>3. \A p \in abandoned[ep] : GivenUp(ep, p.attempt)
        BY <1>1 DEF OrderInvOf, SentInvOf
  <2> QED BY <1>1, <2>1, <2>2, <2>3 DEF SentInvOf, GivenUp
<1>7. \A p \in Sent(ep) : ~(q.attempt < p.attempt)
      BY <1>2, <1>3
<1>8. ReceivedInvOf(ep)'
  <2>1. q.at <= Len(delivered[ep])
        BY <1>2, <1>3
  <2> QED BY <1>1, <1>2, <1>5, <1>7, <2>1, TakingUpKeepsReceived
<1> QED BY <1>6, <1>8 DEF OrderInvOf

\* A late request was given up, or its attempt is about to be recorded so and
\* no later one was made.
LEMMA LateKeepsOrder ==
  ASSUME TypeOK, NEW ep \in Endpoints, OrderInvOf(ep), TakeUpLate(ep)
  PROVE  OrderInvOf(ep)'
<1>1. PICK q \in abandoned[ep] :
        /\ receipts' = [receipts EXCEPT ![ep] = Append(@, q)]
        /\ abandoned' = [abandoned EXCEPT ![ep] = @ \ {q}]
      BY DEF TakeUpLate
<1>2. /\ UNCHANGED <<delivered, accepted, log, pc, success>>
      /\ receipts'[ep] = Append(receipts[ep], q)
      /\ abandoned'[ep] = abandoned[ep] \ {q}
      /\ q \in Requests
      BY <1>1 DEF TakeUpLate, TypeOK, HistoryTypes, loop
<1>3. q \in Sent(ep) /\ receipts[ep] \in Seq(Requests) /\ Len(log[ep]) \in Nat
      BY SentFields
<1>4. Sent(ep)' = Sent(ep)
  <2>1. Received(ep)' = Received(ep) \cup {q}
        BY <1>2, <1>3, ReceivedAppend
  <2> QED BY <1>1, <1>2, <2>1 DEF Sent
<1>5. /\ \A n : GivenUp(ep, n)' <=> GivenUp(ep, n)
      /\ Finished(ep)' = Finished(ep) /\ (Answered(ep)' <=> Answered(ep))
      BY <1>2 DEF GivenUp, Finished, Answered
<1>6. SentInvOf(ep)'
      BY <1>2, <1>4, <1>5 DEF OrderInvOf, SentInvOf, GivenUp
<1>7. /\ q.at <= Len(delivered[ep])
      /\ GivenUp(ep, q.attempt) \/ \A p \in Sent(ep) : ~(q.attempt < p.attempt)
  <2>1. /\ q.at <= Len(delivered[ep])
        /\ GivenUp(ep, q.attempt) \/ q.attempt = Len(log[ep]) + 1
        /\ \A p \in Sent(ep) : p.attempt <= Len(log[ep]) + 1
        BY <1>3 DEF OrderInvOf, SentInvOf
  <2>2. \A p \in Sent(ep) : p.attempt \in Nat
        BY SentFields
  <2> QED BY <1>3, <2>1, <2>2
<1>8. ReceivedInvOf(ep)'
      BY <1>2, <1>5, <1>7, TakingUpKeepsReceived
<1> QED BY <1>6, <1>8 DEF OrderInvOf

\* The log takes the outcome: what may come late of this attempt is now known
\* as given up.
LEMMA RecordKeepsOrder ==
  ASSUME TypeOK, NEW ep \in Endpoints, OrderInvOf(ep), RecordAttempt(ep)
  PROVE  OrderInvOf(ep)'
<1> DEFINE n == Len(log[ep])
           e == LogEntry(ep)
<1>1. /\ UNCHANGED <<receipts, abandoned, delivered, accepted, success>>
      /\ pc[ep] = "record" /\ pc'[ep] = "finish"
      /\ log'[ep] = Append(log[ep], e)
      BY DEF TypeOK, LoopTypes, HistoryTypes, RecordAttempt, Goto
<1>2. e \in LogEntries /\ e.success = success[ep]
      BY <1>1 DEF TypeOK, LoopTypes, Attempting, Attempts, LogEntry, LogEntries
<1>3. log[ep] \in Seq(LogEntries) /\ n \in Nat
      BY SentFields
<1> HIDE DEF e
<1>4. /\ Len(log'[ep]) = n + 1 /\ log'[ep][n + 1] = e
      /\ \A i \in 1..n : log'[ep][i] = log[ep][i]
      BY <1>1, <1>2, <1>3, AppendProperties
<1>5. /\ Sent(ep)' = Sent(ep) /\ Finished(ep) = n /\ Finished(ep)' = n
      /\ Answered(ep)' => Answered(ep)
      BY <1>1, <1>3, <1>4 DEF Sent, Received, Finished, Answered
<1>6. \A i : GivenUp(ep, i) => GivenUp(ep, i)'
  <2> TAKE i
  <2> SUFFICES ASSUME i \in 1..n, ~log[ep][i].success
               PROVE  i \in 1..(n + 1) /\ ~log'[ep][i].success
      BY <1>4 DEF GivenUp
  <2> QED BY <1>3, <1>4
<1>7. SentInvOf(ep)'
  <2>1. \A q \in Sent(ep) : q.attempt \in Nat
        BY SentFields
  <2>2. \A q \in Sent(ep) : q.attempt <= n + 1
        BY DEF OrderInvOf, SentInvOf
  <2>3. \A q \in Sent(ep) : q.attempt <= n + 2 /\ q.attempt # n + 2
        BY <1>3, <2>1, <2>2
  <2>4. \A q \in abandoned[ep] : GivenUp(ep, q.attempt)'
    <3> TAKE q \in abandoned[ep]
    <3>1. CASE GivenUp(ep, q.attempt)
          BY <1>6, <3>1
    <3>2. CASE q.attempt = n + 1 /\ ~success[ep]
          BY <1>2, <1>3, <1>4, <3>2 DEF GivenUp
    <3> QED BY <3>1, <3>2 DEF OrderInvOf, SentInvOf
  <2>5. n + 1 + 1 = n + 2
        BY <1>3
  <2> QED BY <1>1, <1>4, <1>5, <2>3, <2>4, <2>5 DEF OrderInvOf, SentInvOf, GivenUp
<1>8. ReceivedInvOf(ep)'
  <2>1. \A k, i : Answers(ep, k, receipts[ep][i]) => Answers(ep, k, receipts[ep][i])'
        BY <1>1, <1>4, <1>5 DEF Answers
  <2>2. NoGaps(ep)'
        BY <1>1 DEF OrderInvOf, ReceivedInvOf, NoGaps
  <2>3. LateWereGivenUp(ep)'
    <3>1. \A i : GivenUp(ep, receipts[ep][i].attempt) =>
                   GivenUp(ep, receipts[ep][i].attempt)'
          BY <1>1, <1>6 DEF GivenUp
    <3> QED BY <1>1, <3>1 DEF OrderInvOf, ReceivedInvOf, LateWereGivenUp
  <2>4. AnsweredArrived(ep)'
        BY <1>1, <1>5, <2>1 DEF OrderInvOf, ReceivedInvOf, AnsweredArrived
  <2> QED BY <2>2, <2>3, <2>4 DEF ReceivedInvOf
<1> QED BY <1>7, <1>8 DEF OrderInvOf

\* An event counts as delivered when the attempt that was answered is applied.
LEMMA DeliveryKeepsOrder ==
  ASSUME TypeOK, NEW ep \in Endpoints, OrderInvOf(ep), StreakInvOf(ep),
         FinishSuccess(ep)
  PROVE  OrderInvOf(ep)'
<1> DEFINE n == Len(log[ep])
           d == Len(delivered[ep])
           r == receipts[ep]
<1>1. /\ UNCHANGED <<receipts, abandoned, accepted, log>>
      /\ pc[ep] = "finish" /\ success[ep] /\ pc'[ep] = "next"
      /\ delivered'[ep] = Append(delivered[ep], current[ep].event)
      /\ current[ep].event \in Events
      BY DEF TypeOK, LoopTypes, HistoryTypes, FinishSuccess, EndIteration, Goto,
             Attempting, Attempts
<1>2. /\ delivered[ep] \in Seq(Events) /\ d \in Nat /\ n \in Nat
      /\ log[ep] \in Seq(LogEntries)
      BY SentFields
<1>3. Len(delivered'[ep]) = d + 1
      BY <1>1, <1>2, AppendProperties
<1>4. log[ep] # <<>> /\ log[ep][n].success
      BY <1>1 DEF StreakInvOf
<1>5. n # 0 /\ Finished(ep) = n - 1 /\ Finished(ep)' = n
      BY <1>1, <1>2, <1>4, EmptySeq DEF Finished
<1>6. Answered(ep) /\ ~Answered(ep)'
      BY <1>1 DEF Answered
<1>7. Sent(ep)' = Sent(ep) /\ \A i : GivenUp(ep, i)' <=> GivenUp(ep, i)
      BY <1>1 DEF Sent, Received, GivenUp
<1>8. SentInvOf(ep)'
  <2>1. \A q \in Sent(ep) : q.at \in Nat /\ q.at <= d
        BY SentFields DEF OrderInvOf, SentInvOf
  <2>2. \A q \in Sent(ep) : q.at <= d + 1
        BY <1>2, <2>1
  <2>3. /\ \A q \in Sent(ep) : q.attempt # n + 1
        /\ \A q \in abandoned[ep] : GivenUp(ep, q.attempt)
        BY <1>1 DEF OrderInvOf, SentInvOf
  <2> QED BY <1>1, <1>3, <1>7, <2>2, <2>3 DEF OrderInvOf, SentInvOf, GivenUp
<1>9. ASSUME NEW k \in 1..(d + 1)
      PROVE  \E i \in 1..Len(r) : Answers(ep, k, r[i])'
  <2>1. CASE k = d + 1
    <3>1. PICK i \in 1..Len(r) : r[i].at = d /\ r[i].attempt = Finished(ep) + 1
          BY <1>6 DEF OrderInvOf, ReceivedInvOf, AnsweredArrived
    <3>2. r[i].attempt = n /\ n \in 1..n /\ d = k - 1
          BY <1>2, <1>5, <2>1, <3>1
    <3> QED BY <1>1, <1>4, <1>5, <3>1, <3>2 DEF Answers
  <2>2. CASE k # d + 1
    <3>1. k \in 1..d
          BY <1>2, <2>2
    <3>2. PICK i \in 1..Len(r) : Answers(ep, k, r[i])
          BY <3>1 DEF OrderInvOf, ReceivedInvOf, AnsweredArrived
    <3>3. \A a : a \in 1..(n - 1) => a \in 1..n
          BY <1>2
    <3> QED BY <1>1, <1>5, <3>2, <3>3 DEF Answers
  <2> QED BY <2>1, <2>2
<1>10. NoGaps(ep)' /\ LateWereGivenUp(ep)'
       BY <1>1 DEF OrderInvOf, ReceivedInvOf, NoGaps, LateWereGivenUp, GivenUp
<1>11. AnsweredArrived(ep)'
       BY <1>1, <1>3, <1>6, <1>9 DEF AnsweredArrived
<1> QED BY <1>8, <1>10, <1>11 DEF OrderInvOf, ReceivedInvOf

\* Every step of the dispatcher keeps the order of requests.
LEMMA OrderStep ==
  TypeOK /\ QueueInv /\ StreakInv /\ OrderInv /\ [Next]_vars => OrderInv'
<1> SUFFICES ASSUME TypeOK, QueueInv, StreakInv, OrderInv, [Next]_vars
             PROVE  OrderInv'
    OBVIOUS
<1>1. \A ep \in Endpoints : OrderInvOf(ep) /\ StreakInvOf(ep)
      BY StreakInvByEndpoint DEF OrderInv
<1>2. CASE UNCHANGED vars \/ Close
  <2>1. \A ep \in Endpoints : Unconcerned(ep)
        BY <1>2 DEF vars, Close, BeginClose, CancelContext, WaitForLoops,
               CloseAgain, unchangedByClose, loop, history, Unconcerned
  <2> QED BY <1>1, <2>1, UnconcernedIsUnsent, UnsentKeepsOrder DEF OrderInv
<1>3. ASSUME NEW ep \in Endpoints, run(ep) \/ Call(ep) \/ TakeUpLate(ep)
      PROVE  OrderInv'
  <2>1. \A other \in Endpoints \ {ep} : OrderInvOf(other)'
        BY <1>1, <1>3, OthersUnconcerned, UnconcernedIsUnsent, UnsentKeepsOrder
  <2>2. OrderInvOf(ep)'
    <3>1. CASE Unsent(ep)
          BY <1>1, <3>1, UnsentKeepsOrder
    <3>2. CASE Call(ep)
          BY <1>1, <3>1, <3>2, UnsentSteps, EnqueueKeepsOrder DEF Call
    <3>3. CASE run(ep)
          BY <1>1, <3>1, <3>3, UnsentSteps, SendKeepsOrder, GivingUpKeepsOrder,
             RecordKeepsOrder, DeliveryKeepsOrder DEF run
    <3>4. CASE TakeUpLate(ep)
          BY <1>1, <3>4, LateKeepsOrder
    <3> QED BY <1>3, <3>2, <3>3, <3>4
  <2> QED BY <2>1, <2>2 DEF OrderInv
<1> QED BY <1>2, <1>3 DEF Next

\* Whatever requests time out, and however late the receiver takes them up, in
\* whatever order: it sees no event before the earlier ones, it sees an older
\* event again only in a request that was given up, and no event counts as
\* delivered whose answered attempt did not reach it (dispatch.go:144-151,
\* loop.go:61-91).
THEOREM RequestsKeepTheOrder == Spec => []ReceiverSeesQueueOrder
<1>1. Init => OrderInv
      BY DEF Init, OrderInv, OrderInvOf, SentInvOf, ReceivedInvOf, NoGaps,
             LateWereGivenUp, AnsweredArrived, Sent, Received, Answered
<1>2. TypeOK /\ OrderInv => ReceiverSeesQueueOrder
  <2> SUFFICES ASSUME TypeOK, NEW ep \in Endpoints, OrderInvOf(ep)
               PROVE  LET r == receipts[ep] IN
                      /\ \A i \in 1..Len(r) :
                           /\ r[i].event = accepted[ep][r[i].at + 1]
                           /\ \A n \in 0..(r[i].at - 1) :
                                \E j \in 1..(i - 1) : r[j].at = n
                      /\ \A i, j \in 1..Len(r) : r[i].attempt < r[j].attempt =>
                           /\ r[i].at <= r[j].at
                           /\ j < i => GivenUp(ep, r[i].attempt)
                      /\ \A k \in 1..Len(delivered[ep]) :
                           \E i \in 1..Len(r) : Answers(ep, k, r[i])
      BY DEF OrderInv, ReceiverSeesQueueOrder
  <2>1. \A i \in 1..Len(receipts[ep]) : receipts[ep][i] \in Sent(ep)
        BY SentFields
  <2> QED BY <2>1 DEF OrderInvOf, SentInvOf, ReceivedInvOf, NoGaps,
                      LateWereGivenUp, AnsweredArrived
<1> QED BY <1>1, <1>2, OrderStep, InitStreakInv, StreakStep, InitQueueInv,
           QueueInvStep, TypeCorrect, PTL DEF Spec
-----------------------------------------------------------------------------
(* The log and the deliveries *)

\* What LogShowsDeliveries says of one endpoint; and between recordAttempt and
\* finishAttempt the last entry is the attempt about to be applied.
LogInvOf(ep) ==
  LET ok == SuccessesUpTo(ep, Finished(ep)) IN
  /\ Cardinality(ok) = Len(delivered[ep])
  /\ \A i \in ok :
       log[ep][i].event = delivered[ep][Cardinality(SuccessesUpTo(ep, i))]
  /\ pc[ep] = "finish" =>
       log[ep] # <<>> /\ log[ep][Len(log[ep])] = LogEntry(ep)

LogInv == \A ep \in Endpoints : LogInvOf(ep)

\* Nothing is logged for ep or applied to its queue.
LogUntouched(ep) ==
  /\ log'[ep] = log[ep] /\ delivered'[ep] = delivered[ep]
  /\ pc[ep] = "finish" <=> pc'[ep] = "finish"
  /\ pc[ep] = "finish" => LogEntry(ep)' = LogEntry(ep)

LEMMA UntouchedKeepsLogInv ==
  ASSUME NEW ep \in Endpoints, LogInvOf(ep), LogUntouched(ep)
  PROVE  LogInvOf(ep)'
<1>1. Finished(ep)' = Finished(ep)
      BY DEF LogUntouched, Finished
<1>2. \A n : SuccessesUpTo(ep, n)' = SuccessesUpTo(ep, n)
      BY DEF LogUntouched, SuccessesUpTo
<1>3. SuccessesUpTo(ep, Finished(ep))' = SuccessesUpTo(ep, Finished(ep))
      BY <1>1 DEF LogUntouched, SuccessesUpTo
<1> QED BY <1>1, <1>2, <1>3 DEF LogInvOf, LogUntouched

\* The steps of ep that neither log nor deliver, and what it does to others.
LEMMA LogUntouchedSteps ==
  ASSUME TypeOK, NEW ep \in Endpoints, NEW other \in Endpoints,
         \/ StartLoop(ep) \/ NothingToDeliver(ep) \/ HandOut(ep)
         \/ IdleWake(ep) \/ SendReaches(ep) \/ SendFails(ep)
         \/ RespondOk(ep) \/ RespondFails(ep) \/ RetryElapsed(ep)
         \/ LoopExit(ep) \/ SignalWake(ep) \/ Reactivate(ep)
         \/ \E ev \in Events : Enqueue(ep, ev)
         \/ \E cfg \in Configs : RegisterEndpoint(ep, cfg)
                                   \/ UpdateEndpoint(ep, cfg)
         \/ \E n \in 0..MaxSynthetic : InjectFailures(ep, n)
         \/ /\ other # ep
            /\ RecordAttempt(ep) \/ FinishSuccess(ep) \/ FinishFailure(ep)
  PROVE  LogUntouched(other)
BY DEF TypeOK, LoopTypes, HistoryTypes, LogUntouched, LogEntry, Goto, loop, history,
       StartLoop, NothingToDeliver, HandOut, OwesFailure, IdleWake, SendReaches,
       SendFails, RespondOk, RespondFails, Outcome, RetryElapsed, LoopExit, MayExit,
       SignalWake, Reactivate, Enqueue, RegisterEndpoint, MayRegister, Registered,
       UpdateEndpoint, InjectFailures, RecordAttempt, FinishSuccess, FinishFailure,
       EndIteration

\* The successes up to an entry are finitely many, and it is one of them.
LEMMA SuccessCount ==
  ASSUME NEW ep, NEW n \in Nat
  PROVE  /\ IsFiniteSet(SuccessesUpTo(ep, n))
         /\ Cardinality(SuccessesUpTo(ep, n)) \in Nat
         /\ \A i \in SuccessesUpTo(ep, n) :
              /\ Cardinality(SuccessesUpTo(ep, i)) \in 1..Cardinality(SuccessesUpTo(ep, n))
              /\ i \in 1..n
<1>1. ASSUME NEW m \in Nat
      PROVE  IsFiniteSet(SuccessesUpTo(ep, m)) /\ Cardinality(SuccessesUpTo(ep, m)) \in Nat
  <2>1. IsFiniteSet(1..m) /\ SuccessesUpTo(ep, m) \subseteq 1..m
        BY FS_Interval DEF SuccessesUpTo
  <2> QED BY <2>1, FS_Subset, FS_CardinalityType
<1>2. ASSUME NEW i \in SuccessesUpTo(ep, n)
      PROVE  /\ Cardinality(SuccessesUpTo(ep, i)) \in 1..Cardinality(SuccessesUpTo(ep, n))
             /\ i \in 1..n
  <2>1. /\ i \in 1..n /\ i \in Nat
        /\ SuccessesUpTo(ep, i) \subseteq SuccessesUpTo(ep, n)
        /\ i \in SuccessesUpTo(ep, i)
        BY DEF SuccessesUpTo
  <2>2. Cardinality(SuccessesUpTo(ep, i)) <= Cardinality(SuccessesUpTo(ep, n))
        BY <1>1, <2>1, FS_Subset
  <2>3. Cardinality(SuccessesUpTo(ep, i)) # 0
        BY <1>1, <2>1, FS_EmptySet
  <2> QED BY <1>1, <2>1, <2>2, <2>3
<1> QED BY <1>1, <1>2

\* One entry more in the log, not applied yet.
LEMMA RecordKeepsLogInv ==
  ASSUME TypeOK, NEW ep \in Endpoints, LogInvOf(ep), RecordAttempt(ep)
  PROVE  LogInvOf(ep)'
<1> DEFINE n == Len(log[ep])
           e == LogEntry(ep)
<1>1. /\ log[ep] \in Seq(LogEntries) /\ n \in Nat
      /\ log'[ep] = Append(log[ep], e) /\ delivered'[ep] = delivered[ep]
      /\ pc[ep] = "record" /\ pc'[ep] = "finish" /\ LogEntry(ep)' = e
      BY DEF TypeOK, LoopTypes, HistoryTypes, RecordAttempt, LogEntry, Goto
<1>2. e \in LogEntries
      BY <1>1 DEF TypeOK, LoopTypes, Attempting, Attempts, LogEntry, LogEntries
<1>3. /\ Len(log'[ep]) = n + 1 /\ log'[ep][n + 1] = e /\ log'[ep] # <<>>
      /\ \A i \in 1..n : log'[ep][i] = log[ep][i]
      BY <1>1, <1>2, AppendProperties
<1>4. Finished(ep) = n /\ Finished(ep)' = n
      BY <1>1, <1>3 DEF Finished
<1>5. \A m \in 0..n : SuccessesUpTo(ep, m)' = SuccessesUpTo(ep, m)
      BY <1>1, <1>3 DEF SuccessesUpTo
<1>6. SuccessesUpTo(ep, Finished(ep))' = SuccessesUpTo(ep, n)
      BY <1>1, <1>3, <1>4 DEF SuccessesUpTo
<1>7. \A i \in SuccessesUpTo(ep, n) : i \in 1..n
      BY DEF SuccessesUpTo
<1> HIDE DEF e
<1> QED BY <1>1, <1>3, <1>4, <1>5, <1>6, <1>7 DEF LogInvOf

\* The last entry is applied: its event is delivered if it was a success.
LEMMA FinishKeepsLogInv ==
  ASSUME TypeOK, NEW ep \in Endpoints, LogInvOf(ep),
         FinishSuccess(ep) \/ FinishFailure(ep)
  PROVE  LogInvOf(ep)'
<1> DEFINE n == Len(log[ep])
           d == delivered[ep]
           ok == SuccessesUpTo(ep, n - 1)
<1>1. /\ log[ep] \in Seq(LogEntries) /\ log'[ep] = log[ep] /\ d \in Seq(Events)
      /\ pc[ep] = "finish" /\ pc'[ep] # "finish"
      BY DEF TypeOK, LoopTypes, HistoryTypes, FinishSuccess, FinishFailure, EndIteration,
             Goto, history
<1>2. /\ n \in Nat \ {0} /\ Finished(ep) = n - 1 /\ Finished(ep)' = n
      /\ log[ep][n] = LogEntry(ep) /\ n - 1 \in Nat
  <2>1. log[ep] # <<>> /\ log[ep][n] = LogEntry(ep)
        BY <1>1 DEF LogInvOf
  <2> QED BY <1>1, <2>1, EmptySeq DEF Finished
<1>3. \A m : SuccessesUpTo(ep, m)' = SuccessesUpTo(ep, m)
      BY <1>1 DEF SuccessesUpTo
<1>4. SuccessesUpTo(ep, Finished(ep))' = SuccessesUpTo(ep, n)
      BY <1>1, <1>2 DEF SuccessesUpTo
<1>5. /\ Cardinality(ok) = Len(d) /\ IsFiniteSet(ok)
      /\ \A i \in ok : /\ i \in 1..(n - 1)
                       /\ Cardinality(SuccessesUpTo(ep, i)) \in 1..Len(d)
                       /\ log[ep][i].event = d[Cardinality(SuccessesUpTo(ep, i))]
      BY <1>2, SuccessCount DEF LogInvOf
<1>6. CASE FinishSuccess(ep)
  <2>1. delivered'[ep] = Append(d, current[ep].event) /\ success[ep]
        BY <1>6 DEF TypeOK, HistoryTypes, FinishSuccess
  <2>2. current[ep].event \in Events
        BY <1>1 DEF TypeOK, LoopTypes, Attempting, Attempts
  <2>3. log[ep][n].success /\ log[ep][n].event = current[ep].event
        BY <1>2, <2>1 DEF LogEntry
  <2>4. SuccessesUpTo(ep, n) = ok \cup {n} /\ n \notin ok
        BY <1>2, <2>3 DEF SuccessesUpTo
  <2>5. Cardinality(SuccessesUpTo(ep, n)) = Len(d) + 1
        BY <1>5, <2>4, FS_AddElement
  <2>6. /\ Len(delivered'[ep]) = Len(d) + 1 /\ Len(d) \in Nat
        /\ delivered'[ep][Len(d) + 1] = current[ep].event
        /\ \A k \in 1..Len(d) : delivered'[ep][k] = d[k]
        BY <1>1, <2>1, <2>2, AppendProperties
  <2>7. \A i \in SuccessesUpTo(ep, n) :
          log[ep][i].event = delivered'[ep][Cardinality(SuccessesUpTo(ep, i))]
        BY <1>5, <2>3, <2>4, <2>5, <2>6
  <2> QED BY <1>1, <1>3, <1>4, <2>5, <2>6, <2>7 DEF LogInvOf
<1>7. CASE FinishFailure(ep)
  <2>1. delivered'[ep] = d /\ ~success[ep]
        BY <1>7 DEF FinishFailure, history
  <2>2. ~log[ep][n].success
        BY <1>2, <2>1 DEF LogEntry
  <2>3. SuccessesUpTo(ep, n) = ok
        BY <1>2, <2>2 DEF SuccessesUpTo
  <2> QED BY <1>1, <1>3, <1>4, <1>5, <2>1, <2>3 DEF LogInvOf
<1> QED BY <1>6, <1>7

LEMMA LogStep == TypeOK /\ LogInv /\ [Next]_vars => LogInv'
<1> SUFFICES ASSUME TypeOK, LogInv, [Next]_vars, NEW ep \in Endpoints
             PROVE  LogInvOf(ep)'
    BY DEF LogInv
<1>1. LogInvOf(ep)
      BY DEF LogInv
<1>2. CASE UNCHANGED vars \/ Close \/ \E e \in Endpoints : TakeUpLate(e)
  <2>1. LogUntouched(ep)
        BY <1>2 DEF TakeUpLate, vars, Close, BeginClose, CancelContext, WaitForLoops, CloseAgain,
               unchangedByClose, LogUntouched, LogEntry, loop, history
  <2> QED BY <1>1, <2>1, UntouchedKeepsLogInv
<1>3. ASSUME NEW e \in Endpoints, Call(e) PROVE LogInvOf(ep)'
      BY <1>1, <1>3, LogUntouchedSteps, UntouchedKeepsLogInv DEF Call
<1>4. ASSUME NEW e \in Endpoints, run(e) PROVE LogInvOf(ep)'
  <2>1. CASE e # ep
        BY <1>1, <1>4, <2>1, LogUntouchedSteps, UntouchedKeepsLogInv DEF run
  <2>2. CASE e = ep
        BY <1>1, <1>4, <2>2, LogUntouchedSteps, UntouchedKeepsLogInv,
           RecordKeepsLogInv, FinishKeepsLogInv DEF run
  <2> QED BY <2>1, <2>2
<1> QED BY <1>2, <1>3, <1>4 DEF Next

LEMMA InitLogInv == Init => LogInv
<1> SUFFICES ASSUME Init, NEW ep \in Endpoints PROVE LogInvOf(ep)
    BY DEF LogInv
<1>1. Finished(ep) = 0 /\ delivered[ep] = <<>> /\ pc[ep] # "finish"
      BY DEF Init, Finished
<1>2. SuccessesUpTo(ep, Finished(ep)) = {}
      BY <1>1 DEF SuccessesUpTo
<1> QED BY <1>1, <1>2, FS_EmptySet DEF LogInvOf

\* The delivery log tells which events left the queue and in which order,
\* although an outcome is logged before it is applied, under another lock
\* (loop.go:33,42, log.go:23-27).
THEOREM LogTellsDeliveries == Spec => []LogShowsDeliveries
<1>1. LogInv => LogShowsDeliveries
      BY DEF LogInv, LogInvOf, LogShowsDeliveries
<1> QED BY <1>1, InitLogInv, LogStep, TypeCorrect, PTL DEF Spec
-----------------------------------------------------------------------------
(* Winding down *)

\* The streak stops at the threshold: an attempt that ends was handed out while
\* the queue was not interrupted, and nothing else adds to the streak.
StreakStops == \A ep \in Endpoints : consecutiveFailures[ep] <= FailureThreshold

LEMMA StreakStopsStep ==
  TypeOK /\ QueueInv /\ StreakStops /\ [Next]_vars => StreakStops'
<1> SUFFICES ASSUME TypeOK, QueueInv, StreakStops, [Next]_vars
             PROVE  StreakStops'
    OBVIOUS
<1> USE DispatchAssumption DEF TypeOK, EndpointTypes, StreakStops, failureState
<1>1. CASE UNCHANGED consecutiveFailures
      BY <1>1
<1>2. ASSUME NEW ep \in Endpoints, Reactivate(ep)
      PROVE  StreakStops'
      BY <1>2 DEF Reactivate
<1>3. ASSUME NEW ep \in Endpoints, FinishSuccess(ep)
      PROVE  StreakStops'
      BY <1>3 DEF FinishSuccess, AfterSuccess
<1>4. ASSUME NEW ep \in Endpoints, FinishFailure(ep)
      PROVE  StreakStops'
  <2>1. ~interrupted[ep]
        BY <1>4 DEF FinishFailure, QueueInv, AttemptStaysValid, Attempting
  <2>2. consecutiveFailures[ep] < FailureThreshold
        BY <2>1 DEF QueueInv, InterruptedIffThreshold
  <2> QED BY <1>4, <2>2 DEF FinishFailure
<1>5. CASE UNCHANGED vars \/ Close \/ \E e \in Endpoints : TakeUpLate(e)
      BY <1>1, <1>5 DEF TakeUpLate, vars, Close, BeginClose, CancelContext, WaitForLoops,
                        CloseAgain, unchangedByClose
<1>6. ASSUME NEW ep \in Endpoints, Call(ep), ~Reactivate(ep)
      PROVE  UNCHANGED consecutiveFailures
      BY <1>6 DEF Call, RegisterEndpoint, MayRegister, UpdateEndpoint, Enqueue,
                  SignalWake, InjectFailures
<1>7. ASSUME NEW ep \in Endpoints, run(ep), ~FinishSuccess(ep), ~FinishFailure(ep)
      PROVE  UNCHANGED consecutiveFailures
      BY <1>7 DEF run, StartLoop, NothingToDeliver, HandOut, IdleWake,
                  SendReaches, SendFails, RespondOk, RespondFails, Outcome,
                  RecordAttempt, RetryElapsed, LoopExit
<1> QED BY <1>1, <1>2, <1>3, <1>4, <1>5, <1>6, <1>7 DEF Next

\* Each step of a loop lowers the first of the four measures it changes: a
\* delivery the queue, a failure what is left to the threshold, the signal
\* consumed or passed on the signals to come, any other step the way to rest.
LEMMA LoopStepsRest ==
  ASSUME TypeOK, TypeOK', QueueInv, StreakStops, StreakStops',
         NEW ep \in Endpoints, run(ep) \/ SignalWake(ep)
  PROVE  ToDo(ep)' \in Measures(4) /\ Nearer(ToDo(ep)', ToDo(ep))
<1> DEFINE a1 == Len(pending'[ep])
           b1 == FailureThreshold - consecutiveFailures'[ep]
           c1 == 2 * waking'[ep] + (IF wake'[ep] THEN 1 ELSE 0)
           d1 == PlacesLeft[pc'[ep]]
           a2 == Len(pending[ep])
           b2 == FailureThreshold - consecutiveFailures[ep]
           c2 == 2 * waking[ep] + (IF wake[ep] THEN 1 ELSE 0)
           d2 == PlacesLeft[pc[ep]]
           Lower == \/ a1 < a2
                    \/ a1 = a2 /\ b1 < b2
                    \/ a1 = a2 /\ b1 = b2 /\ c1 < c2
                    \/ a1 = a2 /\ b1 = b2 /\ c1 = c2 /\ d1 < d2
<1> USE DispatchAssumption DEF failureState, signals, Goto
<1>1. /\ pending[ep] \in Seq(Events) /\ pending'[ep] \in Seq(Events)
      /\ consecutiveFailures[ep] \in Nat /\ consecutiveFailures'[ep] \in Nat
      /\ waking[ep] \in Nat /\ waking'[ep] \in Nat
      /\ pc[ep] \in Places /\ pc'[ep] \in Places
      /\ pc \in [Endpoints -> Places] /\ wake \in [Endpoints -> BOOLEAN]
      BY DEF TypeOK, EndpointTypes, LoopTypes
<1>2. \A place \in Places : PlacesLeft[place] \in Nat
      BY DEF PlacesLeft, Places
<1>3. a1 \in Nat /\ b1 \in Nat /\ c1 \in Nat /\ d1 \in Nat
  <2>1. a1 \in Nat
        BY <1>1
  <2>2. b1 \in Nat
        BY <1>1 DEF StreakStops
  <2>3. c1 \in Nat
        BY <1>1
  <2>4. d1 \in Nat
        BY <1>1, <1>2
  <2> QED BY <2>1, <2>2, <2>3, <2>4
<1>4. ASSUME FinishSuccess(ep) PROVE Lower
  <2>1. pending[ep] # <<>>
        BY <1>4 DEF FinishSuccess, QueueInv, AttemptStaysValid, Attempting
  <2>2. pending'[ep] = Tail(pending[ep])
        BY <1>4, <2>1 DEF FinishSuccess, Popped, TypeOK, EndpointTypes
  <2>3. a1 < a2
        BY <1>1, <2>1, <2>2
  <2> QED BY <2>3
<1>5. ASSUME FinishFailure(ep) PROVE Lower
  <2>1. a1 = a2 /\ consecutiveFailures'[ep] = consecutiveFailures[ep] + 1
        BY <1>5 DEF FinishFailure, TypeOK, EndpointTypes
  <2>2. b1 < b2
        BY <1>1, <2>1
  <2> QED BY <2>1, <2>2
<1>6. ASSUME IdleWake(ep) \/ SignalWake(ep) PROVE Lower
  <2>1. a1 = a2 /\ b1 = b2
        BY <1>6 DEF IdleWake, SignalWake
  <2>2. c1 < c2
        BY <1>1, <1>6 DEF IdleWake, SignalWake, TypeOK, EndpointTypes
  <2> QED BY <2>1, <2>2
<1>7. ASSUME \/ StartLoop(ep) \/ NothingToDeliver(ep) \/ HandOut(ep)
             \/ SendReaches(ep) \/ SendFails(ep) \/ RespondOk(ep)
             \/ RespondFails(ep) \/ RecordAttempt(ep) \/ RetryElapsed(ep)
             \/ LoopExit(ep)
      PROVE  Lower
  <2>1. UNCHANGED <<pending, consecutiveFailures, waking, wake>>
        BY <1>7 DEF StartLoop, NothingToDeliver, HandOut, SendReaches, SendFails,
                    RespondOk, RespondFails, Outcome, RecordAttempt,
                    RetryElapsed, LoopExit
  <2>2. \/ pc[ep] = "spawn" /\ pc'[ep] = "next"
        \/ pc[ep] = "next" /\ pc'[ep] \in {"idle", "record", "deliver"}
        \/ pc[ep] = "deliver" /\ pc'[ep] \in {"await", "record"}
        \/ pc[ep] = "await" /\ pc'[ep] = "record"
        \/ pc[ep] = "record" /\ pc'[ep] = "finish"
        \/ pc[ep] = "retry" /\ pc'[ep] \in {"next", "done"}
        \/ pc[ep] = "idle" /\ pc'[ep] = "done"
        BY <1>1, <1>7
           DEF StartLoop, NothingToDeliver, HandOut, SendReaches, SendFails,
               RespondOk, RespondFails, Outcome, RecordAttempt, RetryElapsed,
               LoopExit, MayExit
  <2>3. d1 < d2
        BY <2>2 DEF PlacesLeft
  <2> QED BY <2>1, <2>3
<1>8. Lower
      BY <1>4, <1>5, <1>6, <1>7 DEF run
<1>9. ToDo(ep)' = <<a1, b1, c1, d1>> /\ ToDo(ep) = <<a2, b2, c2, d2>>
      BY DEF ToDo
<1> HIDE DEF a1, b1, c1, d1, a2, b2, c2, d2
<1>10. <<a1, b1, c1, d1>> \in Measures(4)
       BY <1>3, FourMeasures
<1>11. Nearer(<<a1, b1, c1, d1>>, <<a2, b2, c2, d2>>)
       BY <1>8, NearerOfFour
<1> QED BY <1>9, <1>10, <1>11

\* Whatever a loop does on its own brings it nearer to rest, so that it comes
\* to rest after finitely many steps of its own for any number of events, any
\* threshold and any faults: a Close that cancelled the context does not wait
\* for a loop that spins (loop.go:11-48, dispatch.go:115-126).
THEOREM LoopsRest == Spec => LoopsWindDown
<1>1. Init => StreakStops
      BY DispatchAssumption DEF Init, StreakStops
<1>2. /\ TypeOK /\ TypeOK' /\ QueueInv /\ StreakStops /\ StreakStops'
      /\ [Next]_vars
      => [\A ep \in Endpoints :
            run(ep) \/ SignalWake(ep) =>
              ToDo(ep)' \in Measures(4) /\ Nearer(ToDo(ep)', ToDo(ep))]_vars
      BY LoopStepsRest
<1> QED BY <1>1, <1>2, StreakStopsStep, QueueInvariance, TypeCorrect, PTL
        DEF Spec, LoopsWindDown
=============================================================================
