--------------------------- MODULE DeliveryQueue ---------------------------
(***************************************************************************)
(* What the webhook dispatcher promises about each endpoint, with nothing  *)
(* of how it keeps the promise: a first-in first-out queue whose head is   *)
(* tried again until it is delivered, and which pauses after               *)
(* FailureThreshold failures in a row until somebody resumes it.  There    *)
(* are no goroutines, no wake-up channel, no lock and no shutdown here.    *)
(* Dispatch implements this module (Dispatch!RefinesDeliveryQueue).        *)
(***************************************************************************)
EXTENDS Integers, Sequences

CONSTANTS Endpoints,         \* names of webhook endpoints
          Events,            \* ids of outbound events
          FailureThreshold   \* failures in a row that pause a queue

VARIABLES accepted,    \* accepted[ep]: every event ever queued, in order
          delivered,   \* delivered[ep]: every event delivered, in order
          streak,      \* streak[ep]: failures since the last success or resume
          paused       \* paused[ep]: deliveries are suspended

qvars == <<accepted, delivered, streak, paused>>

QueueInit ==
  /\ accepted  = [ep \in Endpoints |-> <<>>]
  /\ delivered = [ep \in Endpoints |-> <<>>]
  /\ streak    = [ep \in Endpoints |-> 0]
  /\ paused    = [ep \in Endpoints |-> FALSE]

\* Some event of ep waits for delivery and the queue is running.
Ready(ep) == ~paused[ep] /\ Len(delivered[ep]) < Len(accepted[ep])

Accept(ep, ev) ==
  /\ accepted' = [accepted EXCEPT ![ep] = Append(@, ev)]
  /\ UNCHANGED <<delivered, streak, paused>>

\* The oldest undelivered event is delivered; nothing can overtake it.
Deliver(ep) ==
  /\ Ready(ep)
  /\ delivered' = [delivered EXCEPT ![ep] = Append(@, accepted[ep][Len(@) + 1])]
  /\ streak' = [streak EXCEPT ![ep] = 0]
  /\ UNCHANGED <<accepted, paused>>

\* A failed attempt loses nothing; the one that completes the streak pauses.
Fail(ep) ==
  /\ Ready(ep)
  /\ streak' = [streak EXCEPT ![ep] = @ + 1]
  /\ paused' = IF streak[ep] + 1 >= FailureThreshold
               THEN [paused EXCEPT ![ep] = TRUE] ELSE paused
  /\ UNCHANGED <<accepted, delivered>>

Resume(ep) ==
  /\ streak' = [streak EXCEPT ![ep] = 0]
  /\ paused' = [paused EXCEPT ![ep] = FALSE]
  /\ UNCHANGED <<accepted, delivered>>

QueueNext ==
  \E ep \in Endpoints :
    \/ \E ev \in Events : Accept(ep, ev)
    \/ Deliver(ep)
    \/ Fail(ep)
    \/ Resume(ep)

QueueSpec == QueueInit /\ [][QueueNext]_qvars
=============================================================================
