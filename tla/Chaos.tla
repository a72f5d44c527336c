------------------------------- MODULE Chaos -------------------------------
(***************************************************************************)
(* The chaos scenarios that count on the dispatcher's failure streak       *)
(* (providers/asaas/chaos.go): retry-storm and queue-interrupt inject      *)
(* synthetic failures at every endpoint an event went to, then enqueue the *)
(* event there again, one call of the dispatcher after the other, while    *)
(* the delivery loops run and other requests come in.  The dispatcher is   *)
(* Dispatch, step by step; which event went where is the last-event store  *)
(* (Facade!ReplaysAreReplays: it was queued at each of those endpoints).   *)
(***************************************************************************)
EXTENDS Dispatch, SequencesExt

CONSTANTS Callers,                  \* chaos requests in progress
          DefaultFailureThreshold,  \* dispatch.DefaultFailureThreshold
          MaxScenarios              \* bound: chaos requests

ASSUME ChaosAssumption ==
  /\ DefaultFailureThreshold \in Nat \ {0}
  /\ MaxScenarios \in Nat
  /\ MaxScenarios < MaxAccepted
  /\ MaxScenarios * DefaultFailureThreshold <= MaxSynthetic
  /\ MaxScenarios * FailureThreshold <= MaxSynthetic

VARIABLES
  place,      \* where each request is
  plan,       \* its locals: the event, the failures, the endpoints left
  scenarios,  \* how much of MaxScenarios is used
  crowded,    \* history: endpoints where a storm met an unsettled queue
  asked,      \* history: endpoints queue-interrupt has injected into
  awaited,    \* history: endpoints queue-interrupt is done with
  stirred     \* history: endpoints in asked injected into again or resumed

chaos == <<place, plan, scenarios>>
chaosHistory == <<crowded, asked, awaited, stirred>>
chaosVars == <<vars, chaos, chaosHistory>>

NoPlan == [kind |-> None, event |-> None, n |-> 0, left |-> {}, again |-> {}]

ChaosInit ==
  /\ Init
  /\ place = [c \in Callers |-> "idle"]
  /\ plan = [c \in Callers |-> NoPlan]
  /\ scenarios = 0
  /\ crowded = {} /\ asked = {} /\ awaited = {} /\ stirred = {}

Advance(c, to, locals) ==
  /\ place' = [place EXCEPT ![c] = to]
  /\ plan' = [plan EXCEPT ![c] = IF to = "idle" THEN NoPlan ELSE locals]
-----------------------------------------------------------------------------
\* resolveChaosTarget: an event that was fired, and the endpoints it went to.
Fired(ev, eps) == eps # {} /\ \A ep \in eps : ev \in ToSet(accepted[ep])

Scenario(c, kind, n, ev, eps) ==
  /\ place[c] = "idle" /\ scenarios < MaxScenarios
  /\ Fired(ev, eps)
  /\ scenarios' = scenarios + 1
  /\ Advance(c, "inject", [kind |-> kind, event |-> ev, n |-> n,
                           left |-> eps, again |-> eps])
  /\ UNCHANGED <<vars, chaosHistory>>

UpToThreshold(n) == n > 0 /\ n <= FailureThreshold
BelowThreshold(n) == n > 0 /\ n < FailureThreshold

RetryStorm(c, n, ev, eps) ==
  BelowThreshold(n) /\ Scenario(c, "storm", n, ev, eps)

OneTooFew == DefaultFailureThreshold - 1
Injected == DefaultFailureThreshold

QueueInterrupt(c, ev, eps) == Scenario(c, "interrupt", Injected, ev, eps)

\* No failures owed, counted or under way.
Settled(ep) ==
  /\ syntheticFailures[ep] = 0 /\ consecutiveFailures[ep] = 0
  /\ pc[ep] \in Attempting => ~current[ep].synthetic

InjectInto(c, ep) ==
  LET p    == plan[c]
      left == p.left \ {ep}
  IN /\ place[c] = "inject" /\ ep \in p.left
     /\ InjectFailures(ep, p.n)
     /\ Advance(c, IF left = {} THEN "enqueue" ELSE "inject",
                [p EXCEPT !.left = left])
     /\ crowded' = IF Settled(ep) THEN crowded ELSE crowded \cup {ep}
     /\ asked' = IF p.kind = "interrupt" THEN asked \cup {ep} ELSE asked
     /\ stirred' = IF ep \in asked THEN stirred \cup {ep} ELSE stirred
     /\ UNCHANGED <<scenarios, awaited>>

\* InjectFailures fails only on a closed dispatcher; the handler gives up.
InjectRefused(c) ==
  /\ place[c] = "inject" /\ closed
  /\ Advance(c, "idle", NoPlan)
  /\ UNCHANGED <<vars, scenarios, chaosHistory>>

\* The event again; the error of a closed dispatcher is ignored.
EnqueueAgain(c, ep) ==
  LET p    == plan[c]
      left == p.again \ {ep}
  IN /\ place[c] = "enqueue" /\ ep \in p.again
     /\ Enqueue(ep, p.event) \/ (closed /\ UNCHANGED vars)
     /\ Advance(c, IF left = {} THEN "idle" ELSE "enqueue",
                [p EXCEPT !.again = left])
     /\ awaited' = IF p.kind = "interrupt" THEN awaited \cup {ep} ELSE awaited
     /\ UNCHANGED <<scenarios, crowded, asked, stirred>>
-----------------------------------------------------------------------------
(* The other requests and the dispatcher, as they are in Dispatch *)

\* The bound leaves room for what the scenarios enqueue.
FireEvent(ep, ev) ==
  /\ Len(accepted[ep]) + MaxScenarios < MaxAccepted
  /\ Enqueue(ep, ev)
  /\ UNCHANGED <<chaos, chaosHistory>>

ResumeQueue(ep) ==
  /\ Reactivate(ep)
  /\ stirred' = IF ep \in asked THEN stirred \cup {ep} ELSE stirred
  /\ UNCHANGED <<chaos, crowded, asked, awaited>>

Loop(ep) == run(ep) /\ UNCHANGED <<chaos, chaosHistory>>
Wake(ep) == SignalWake(ep) /\ UNCHANGED <<chaos, chaosHistory>>

Late(ep) == TakeUpLate(ep) /\ UNCHANGED <<chaos, chaosHistory>>

Register(ep) ==
  /\ \E cfg \in Configs : RegisterEndpoint(ep, cfg)
  /\ UNCHANGED <<chaos, chaosHistory>>

CloseDispatcher == Close /\ UNCHANGED <<chaos, chaosHistory>>

Proceed(c) ==
  InjectRefused(c) \/ \E ep \in Endpoints : InjectInto(c, ep) \/ EnqueueAgain(c, ep)

ChaosNext ==
  \/ CloseDispatcher
  \/ \E ep \in Endpoints :
       \/ Register(ep) \/ Loop(ep) \/ Late(ep) \/ Wake(ep) \/ ResumeQueue(ep)
       \/ \E ev \in Events : FireEvent(ep, ev)
  \/ \E c \in Callers :
       \/ Proceed(c)
       \/ \E ev \in Events, eps \in SUBSET Endpoints :
            \/ QueueInterrupt(c, ev, eps)
            \/ \E n \in 1..FailureThreshold : RetryStorm(c, n, ev, eps)

ChaosSpec == ChaosInit /\ [][ChaosNext]_chaosVars

\* As in Dispatch; a chaos request goes on.
ChaosFairness ==
  /\ \A ep \in Endpoints : WF_chaosVars(Loop(ep)) /\ WF_chaosVars(Wake(ep))
  /\ \A c \in Callers : WF_chaosVars(Proceed(c))

FairChaosSpec == ChaosSpec /\ ChaosFairness
-----------------------------------------------------------------------------
Interrupters(ep) == faults > 0 \/ cancelled \/ ep \in asked

\* A retry storm that finds its queue settled never interrupts it, while the
\* receiver answers and nobody asked for an interruption (chaos.go:102-111).
LoneStormEnds ==
  \A ep \in Endpoints : interrupted[ep] => Interrupters(ep) \/ ep \in crowded

\* What chaos.go:103-107 says of every accepted retry storm: it eventually
\* delivers, and does not become an interruption of the queue.
StormNeverInterrupts ==
  \A ep \in Endpoints : interrupted[ep] => Interrupters(ep)

\* A synthetic failure that was handed out and not applied yet.
UnderWay(ep) == IF pc[ep] \in Attempting /\ current[ep].synthetic THEN 1 ELSE 0

\* Once queue-interrupt is done with a queue, nothing that runs meanwhile can
\* save it: until it is interrupted it has something to fail at, and the
\* failures counted, under way and owed reach the threshold, although a real
\* delivery that was in flight may still succeed (chaos.go:139-142).
InterruptionIsOwed ==
  \A ep \in awaited \ stirred :
    \/ interrupted[ep] \/ closed
    \/ /\ pending[ep] # <<>>
       /\ consecutiveFailures[ep] + UnderWay(ep) + syntheticFailures[ep]
            >= FailureThreshold

\* Queue-interrupt does what it is for, with a threshold of at most the
\* default: the queue ends up interrupted, unless it was resumed or injected
\* into meanwhile, or the dispatcher was closed (chaos.go:139-142).
InterruptInterrupts ==
  \A ep \in Endpoints :
    ep \in awaited ~> interrupted[ep] \/ ep \in stirred \/ closed
=============================================================================
