----------------------------- MODULE AdminState -----------------------------
(***************************************************************************)
(* GET /_localpsp/state next to the dispatcher it reports on: the handler  *)
(* reads an endpoint's queue under the dispatcher's lock, lets the lock    *)
(* go, and reads the delivery log under the lock again.  In between the    *)
(* loop and its callers go on.  The two reads make one response.           *)
(***************************************************************************)
EXTENDS Dispatch

VARIABLE snapshot   \* the queue as the handler has read it, or NoSnapshot

adminVars == <<vars, snapshot>>

\* accepted is history: the events enqueued when the queue was read.
NoSnapshot == [ep |-> None, Pending |-> 0, ConsecutiveFailures |-> 0,
               Interrupted |-> FALSE, accepted |-> 0]

\* Without the event under delivery.
StateOfTheRest(ep) ==
  [ep |-> ep,
   Pending |-> Len(pending[ep]) - (IF pc[ep] \in Attempting THEN 1 ELSE 0),
   ConsecutiveFailures |-> consecutiveFailures[ep],
   Interrupted |-> interrupted[ep], accepted |-> Len(accepted[ep])]

State(ep) == [ep |-> ep, Pending |-> Len(pending[ep]),
              ConsecutiveFailures |-> consecutiveFailures[ep],
              Interrupted |-> interrupted[ep],
              accepted |-> Len(accepted[ep])]

AdminInit == Init /\ snapshot = NoSnapshot

ReadState(ep) ==
  /\ snapshot = NoSnapshot /\ Registered(ep)
  /\ snapshot' = State(ep)
  /\ UNCHANGED vars

DeliveryLog(seen) == log[seen.ep]

\* Reads the log and responds.
Respond ==
  /\ snapshot # NoSnapshot
  /\ snapshot' = NoSnapshot
  /\ UNCHANGED vars

AdminNext ==
  \/ Next /\ UNCHANGED snapshot
  \/ \E ep \in Endpoints : ReadState(ep)
  \/ Respond

AdminSpec == AdminInit /\ [][AdminNext]_adminVars
-----------------------------------------------------------------------------
(* Invariants: whenever the handler responds, and it may do so in every state *)
(* that has a snapshot. *)

Successes(entries) == Cardinality({i \in DOMAIN entries : entries[i].success})

\* No event is missing from a response: every event enqueued when the queue
\* was read is pending in it or was delivered according to its log, whatever
\* is delivered between the two reads (admin.go:147-157, loop.go:33-42).
ResponseAccountsForEvents ==
  snapshot # NoSnapshot =>
    snapshot.accepted <= snapshot.Pending + Successes(DeliveryLog(snapshot))

\* The log in a response explains the failures in it: as many as the streak
\* counts are there in a row, and a queue reported as interrupted shows the
\* threshold's worth of them (admin.go:147-157, loop.go:33-42,92-96).
ResponseExplainsFailures ==
  snapshot # NoSnapshot =>
    LET entries == DeliveryLog(snapshot)
        streak  == snapshot.ConsecutiveFailures
    IN /\ \E before \in 0..Len(entries) : \A i \in 1..streak :
            before + i \in DOMAIN entries /\ ~entries[before + i].success
       /\ snapshot.Interrupted => streak >= FailureThreshold
=============================================================================
