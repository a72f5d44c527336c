-------------------------- MODULE AdminStateProofs --------------------------
(* What TLAPS proves of AdminState for every value of its constants. *)
EXTENDS AdminState, DispatchProofs

\* With a reader of its state beside it, the dispatcher does what it does
\* without one: whatever holds of every behaviour of Dispatch holds here.
THEOREM ReaderChangesNothing == AdminSpec => Spec
<1>1. AdminInit => Init
      BY DEF AdminInit
<1>2. [AdminNext]_adminVars => [Next]_vars
      BY DEF AdminNext, adminVars, ReadState, Respond
<1> QED BY <1>1, <1>2, PTL DEF AdminSpec, Spec

\* What the proofs below need of the dispatcher.
DispatchInv == TypeOK /\ QueueInv /\ StreakInv /\ LogInv

LEMMA DispatchInvAlways == Spec => []DispatchInv
<1> QED BY TypeCorrect, QueueInvariance, InitStreakInv, StreakStep, InitLogInv,
           LogStep, PTL DEF Spec, DispatchInv

\* Delivered events and log entries are only ever added to.
LEMMA HistoryGrows ==
  ASSUME TypeOK, [Next]_vars, NEW ep \in Endpoints
  PROVE  /\ Len(delivered[ep]) <= Len(delivered'[ep])
         /\ Len(log[ep]) <= Len(log'[ep])
         /\ \A i \in 1..Len(log[ep]) : log'[ep][i] = log[ep][i]
<1> DEFINE Same == delivered'[ep] = delivered[ep] /\ log'[ep] = log[ep]
<1>1. /\ delivered[ep] \in Seq(Events) /\ log[ep] \in Seq(LogEntries)
      /\ Len(delivered[ep]) \in Nat /\ Len(log[ep]) \in Nat
      BY DEF TypeOK, HistoryTypes
<1>2. ASSUME Same
      PROVE  /\ Len(delivered[ep]) <= Len(delivered'[ep])
             /\ Len(log[ep]) <= Len(log'[ep])
             /\ \A i \in 1..Len(log[ep]) : log'[ep][i] = log[ep][i]
      BY <1>1, <1>2
<1>3. CASE UNCHANGED vars \/ Close \/ \E e \in Endpoints : TakeUpLate(e)
      BY <1>2, <1>3 DEF TakeUpLate, vars, Close, BeginClose, CancelContext, WaitForLoops,
                        CloseAgain, unchangedByClose, history
<1>4. ASSUME NEW e \in Endpoints, Call(e)
      PROVE  Same
      BY <1>4, LogUntouchedSteps DEF Call, LogUntouched
<1>5. ASSUME NEW e \in Endpoints, run(e), ~FinishSuccess(e), ~RecordAttempt(e)
      PROVE  Same
  <2>1. CASE FinishFailure(e)
        BY <2>1 DEF FinishFailure, history
  <2>2. CASE ~FinishFailure(e)
        BY <1>5, <2>2, LogUntouchedSteps DEF run, LogUntouched
  <2> QED BY <2>1, <2>2
<1>6. ASSUME NEW e \in Endpoints, e # ep, FinishSuccess(e) \/ RecordAttempt(e)
      PROVE  Same
      BY <1>6, LogUntouchedSteps DEF LogUntouched
<1>7. ASSUME FinishSuccess(ep)
      PROVE  log'[ep] = log[ep] /\ Len(delivered'[ep]) = Len(delivered[ep]) + 1
  <2>1. /\ log' = log /\ current[ep].event \in Events
        /\ delivered'[ep] = Append(delivered[ep], current[ep].event)
        BY <1>7 DEF FinishSuccess, TypeOK, HistoryTypes, LoopTypes, Attempting, Attempts
  <2> QED BY <1>1, <2>1, AppendProperties
<1>8. ASSUME RecordAttempt(ep)
      PROVE  /\ delivered'[ep] = delivered[ep] /\ Len(log'[ep]) = Len(log[ep]) + 1
             /\ \A i \in 1..Len(log[ep]) : log'[ep][i] = log[ep][i]
  <2>1. LogEntry(ep) \in LogEntries
        BY <1>8 DEF RecordAttempt, LogEntry, TypeOK, LoopTypes, Attempting, Attempts, LogEntries
  <2>2. delivered' = delivered /\ log'[ep] = Append(log[ep], LogEntry(ep))
        BY <1>8 DEF RecordAttempt, TypeOK, HistoryTypes
  <2> QED BY <1>1, <2>1, <2>2, AppendProperties
<1> HIDE DEF Same
<1>9. ASSUME NEW e \in Endpoints, run(e)
       PROVE  \/ Same \/ FinishSuccess(ep) \/ RecordAttempt(ep)
       BY <1>5, <1>6, <1>9
<1>10. ASSUME FinishSuccess(ep) \/ RecordAttempt(ep)
       PROVE  /\ Len(delivered[ep]) <= Len(delivered'[ep])
              /\ Len(log[ep]) <= Len(log'[ep])
              /\ \A i \in 1..Len(log[ep]) : log'[ep][i] = log[ep][i]
       BY <1>1, <1>7, <1>8, <1>10
<1> QED BY <1>2, <1>3, <1>4, <1>9, <1>10 DEF Next
-----------------------------------------------------------------------------
\* A run of n failures among the entries.
FailuresInRow(entries, n) ==
  \E before \in 0..Len(entries) : \A i \in 1..n :
    before + i \in 1..Len(entries) /\ ~entries[before + i].success

\* What the handler has read of a queue is explained by the log and by the
\* deliveries it may yet read of.
Explained(seen) ==
  /\ seen.ep \in Endpoints
  /\ seen.ConsecutiveFailures \in Nat
  /\ seen.Pending \in Nat /\ seen.accepted \in Nat
  /\ seen.accepted <= seen.Pending + Len(delivered[seen.ep])
  /\ FailuresInRow(log[seen.ep], seen.ConsecutiveFailures)
  /\ seen.Interrupted => seen.ConsecutiveFailures >= FailureThreshold

SnapshotInv == snapshot # NoSnapshot => Explained(snapshot)

\* The length of a sequence made of two.
LEMMA LengthsAdd ==
  ASSUME NEW S, NEW s \in Seq(S), NEW t \in Seq(S)
  PROVE  Len(s \o t) = Len(t) + Len(s)
<1>1. Len(s \o t) = Len(s) + Len(t) /\ Len(s) \in Nat /\ Len(t) \in Nat
      BY ConcatProperties
<1> QED BY <1>1

\* The read of the queue finds the streak at the end of the log, and every
\* event accepted either pending or delivered (endpoint.go:167-182).
LEMMA StateIsExplained ==
  ASSUME DispatchInv, NEW ep \in Endpoints
  PROVE  Explained(State(ep))
<1> DEFINE s == consecutiveFailures[ep]
           n == Finished(ep)
<1>1. /\ s \in Nat /\ pending[ep] \in Seq(Events) /\ delivered[ep] \in Seq(Events)
      /\ log[ep] \in Seq(LogEntries) /\ reactivatedAt[ep] \in Int
      BY DEF DispatchInv, TypeOK, EndpointTypes, HistoryTypes
<1>2. Len(accepted[ep]) = Len(pending[ep]) + Len(delivered[ep])
  <2>1. accepted[ep] = delivered[ep] \o pending[ep]
        BY DEF DispatchInv, QueueInv, QueueConservation
  <2> QED BY <1>1, <2>1, LengthsAdd
<1>3. FailuresInRow(log[ep], s)
  <2>1. /\ s <= n - reactivatedAt[ep] /\ reactivatedAt[ep] >= 0
        /\ \A i \in 1..s : ~log[ep][n + 1 - i].success
        BY StreakInvByEndpoint DEF DispatchInv, StreakInvOf
  <2>2. n \in Int /\ n <= Len(log[ep]) /\ Len(log[ep]) \in Nat
    <3> DEFINE l == Len(log[ep])
    <3>1. l \in Nat
          BY <1>1
    <3>2. n = l - (IF pc[ep] = "finish" THEN 1 ELSE 0)
          BY DEF Finished
    <3> HIDE DEF l, n
    <3>3. n \in Int /\ n <= l
          BY <3>1, <3>2
    <3> QED BY <3>1, <3>3 DEF l
  <2> HIDE DEF n
  <2>3. n - s \in 0..Len(log[ep])
        BY <1>1, <2>1, <2>2
  <2>4. ASSUME NEW i \in 1..s
        PROVE  /\ (n - s) + i \in 1..Len(log[ep])
               /\ ~log[ep][(n - s) + i].success
    <3>1. s + 1 - i \in 1..s /\ n + 1 - (s + 1 - i) = (n - s) + i
          BY <1>1, <2>2
    <3>2. ~log[ep][(n - s) + i].success
          BY <2>1, <3>1
    <3>3. (n - s) + i \in 1..Len(log[ep])
          BY <1>1, <2>2, <2>3
    <3> QED BY <3>2, <3>3
  <2> QED BY <2>3, <2>4 DEF FailuresInRow
<1>4. interrupted[ep] => s >= FailureThreshold
      BY DEF DispatchInv, QueueInv, InterruptedIffThreshold
<1>5. /\ Len(pending[ep]) \in Nat /\ Len(accepted[ep]) \in Nat
      /\ Len(delivered[ep]) \in Nat
      BY <1>1 DEF DispatchInv, TypeOK, HistoryTypes
<1>6. /\ State(ep).ep = ep /\ State(ep).Pending = Len(pending[ep])
      /\ State(ep).ConsecutiveFailures = s /\ State(ep).Interrupted = interrupted[ep]
      /\ State(ep).accepted = Len(accepted[ep])
      BY DEF State
<1>7. State(ep).accepted <= State(ep).Pending + Len(delivered[State(ep).ep])
      BY <1>2, <1>5, <1>6
<1> QED BY <1>1, <1>3, <1>4, <1>5, <1>6, <1>7, Zenon DEF Explained

\* The dispatcher goes on between the two reads (admin.go:148-157).
LEMMA StaysExplained ==
  ASSUME TypeOK, TypeOK', [Next]_vars, NEW seen, Explained(seen)
  PROVE  Explained(seen)'
<1> DEFINE ep == seen.ep
           s == seen.ConsecutiveFailures
<1>1. ep \in Endpoints /\ s \in Nat
      BY DEF Explained
<1>2. /\ Len(delivered[ep]) <= Len(delivered'[ep])
      /\ Len(log[ep]) <= Len(log'[ep])
      /\ \A i \in 1..Len(log[ep]) : log'[ep][i] = log[ep][i]
      BY <1>1, HistoryGrows
<1>3. /\ Len(delivered[ep]) \in Nat /\ Len(log[ep]) \in Nat
      /\ Len(delivered'[ep]) \in Nat /\ Len(log'[ep]) \in Nat
  <2>1. /\ log \in [Endpoints -> Seq(LogEntries)] /\ delivered \in [Endpoints -> Seq(Events)]
        /\ log' \in [Endpoints -> Seq(LogEntries)]
        /\ delivered' \in [Endpoints -> Seq(Events)]
        BY DEF TypeOK, HistoryTypes
  <2>2. ep \in Endpoints
        BY <1>1
  <2> QED BY ONLY <2>1, <2>2
<1>4. FailuresInRow(log'[ep], s)
  <2>1. PICK before \in 0..Len(log[ep]) : \A i \in 1..s :
          before + i \in 1..Len(log[ep]) /\ ~log[ep][before + i].success
        BY DEF Explained, FailuresInRow
  <2>2. before \in 0..Len(log'[ep])
        BY <1>2, <1>3
  <2>3. \A i \in 1..s : before + i \in 1..Len(log'[ep]) /\ ~log'[ep][before + i].success
        BY <1>2, <1>3, <2>1
  <2> QED BY <2>2, <2>3 DEF FailuresInRow
<1>5. seen.accepted <= seen.Pending + Len(delivered'[ep])
      BY <1>2, <1>3 DEF Explained
<1> QED BY <1>4, <1>5 DEF Explained

LEMMA SnapshotStep ==
  DispatchInv /\ DispatchInv' /\ SnapshotInv /\ [AdminNext]_adminVars => SnapshotInv'
<1> SUFFICES ASSUME DispatchInv, DispatchInv', SnapshotInv, [AdminNext]_adminVars
             PROVE  SnapshotInv'
    OBVIOUS
<1>1. ASSUME NEW ep \in Endpoints, ReadState(ep) PROVE SnapshotInv'
  <2>1. Explained(State(ep))
        BY StateIsExplained
  <2>2. snapshot' = State(ep) /\ UNCHANGED <<log, delivered>>
        BY <1>1 DEF ReadState, vars, history
  <2> QED BY <2>1, <2>2 DEF SnapshotInv, Explained
<1>2. CASE Respond
      BY <1>2 DEF Respond, SnapshotInv
<1>3. CASE [Next]_vars /\ UNCHANGED snapshot
  <2>1. SUFFICES ASSUME snapshot # NoSnapshot PROVE Explained(snapshot)'
        BY <1>3 DEF SnapshotInv
  <2>2. Explained(snapshot)
        BY <2>1 DEF SnapshotInv
  <2>3. ASSUME NEW seen, Explained(seen) PROVE Explained(seen)'
        BY <1>3, <2>3, StaysExplained DEF DispatchInv
  <2> QED BY <1>3, <2>2, <2>3 DEF Explained
<1> QED BY <1>1, <1>2, <1>3 DEF AdminNext, adminVars

LEMMA SnapshotInvAlways == AdminSpec => []SnapshotInv
<1>1. AdminInit => SnapshotInv
      BY DEF AdminInit, SnapshotInv
<1> QED BY <1>1, SnapshotStep, ReaderChangesNothing, DispatchInvAlways, PTL
        DEF AdminSpec

\* A response of the state endpoint explains itself: its log shows as many
\* failures in a row as its streak counts, and the threshold's worth for a queue
\* it calls interrupted, although queue and log were read one after the other
\* (admin.go:148-157).
THEOREM ResponsesExplainFailures == AdminSpec => []ResponseExplainsFailures
<1>1. DispatchInv /\ SnapshotInv => ResponseExplainsFailures
  <2> SUFFICES ASSUME DispatchInv, snapshot # NoSnapshot, Explained(snapshot)
               PROVE  ResponseExplainsFailures
      BY DEF SnapshotInv, ResponseExplainsFailures
  <2>1. log[snapshot.ep] \in Seq(LogEntries)
        BY DEF Explained, DispatchInv, TypeOK, HistoryTypes
  <2>2. DOMAIN log[snapshot.ep] = 1..Len(log[snapshot.ep])
        BY <2>1
  <2> QED BY <2>2 DEF Explained, FailuresInRow, ResponseExplainsFailures, DeliveryLog
<1> QED BY <1>1, SnapshotInvAlways, ReaderChangesNothing, DispatchInvAlways, PTL

\* No event is missing from a response: each one enqueued when the queue was
\* read is pending in it or a success in its log (admin.go:148-157,
\* loop.go:33,42).
THEOREM ResponsesAccountForEvents == AdminSpec => []ResponseAccountsForEvents
<1>1. DispatchInv /\ SnapshotInv => ResponseAccountsForEvents
  <2> SUFFICES ASSUME DispatchInv, snapshot # NoSnapshot, Explained(snapshot)
               PROVE  snapshot.accepted <=
                        snapshot.Pending + Successes(DeliveryLog(snapshot))
      BY DEF SnapshotInv, ResponseAccountsForEvents
  <2> DEFINE ep == snapshot.ep
             n == Len(log[ep])
             ok == {i \in DOMAIN log[ep] : log[ep][i].success}
  <2>1. /\ ep \in Endpoints /\ log[ep] \in Seq(LogEntries)
        /\ delivered[ep] \in Seq(Events)
        BY DEF Explained, DispatchInv, TypeOK, HistoryTypes
  <2>2. DOMAIN log[ep] = 1..n /\ n \in Nat /\ Finished(ep) \in Int /\ Finished(ep) <= n
    <3>1. DOMAIN log[ep] = 1..n /\ n \in Nat
          BY <2>1
    <3>2. Finished(ep) = n - (IF pc[ep] = "finish" THEN 1 ELSE 0)
          BY DEF Finished
    <3> HIDE DEF n
    <3>3. Finished(ep) \in Int /\ Finished(ep) <= n
          BY <3>1, <3>2
    <3> QED BY <3>1, <3>3
  <2>3. SuccessesUpTo(ep, Finished(ep)) \subseteq ok
        BY <2>2 DEF SuccessesUpTo
  <2>4. IsFiniteSet(ok)
    <3>1. ok \subseteq 1..n /\ IsFiniteSet(1..n)
          BY <2>2, FS_Interval
    <3> QED BY <3>1, FS_Subset
  <2>5. Cardinality(SuccessesUpTo(ep, Finished(ep))) <= Cardinality(ok)
        BY <2>3, <2>4, FS_Subset
  <2>6. Cardinality(SuccessesUpTo(ep, Finished(ep))) = Len(delivered[ep])
        BY <2>1 DEF DispatchInv, LogInv, LogInvOf
  <2>7. Cardinality(ok) \in Nat /\ Len(delivered[ep]) \in Nat
        BY <2>1, <2>4, FS_CardinalityType
  <2>8. Successes(DeliveryLog(snapshot)) = Cardinality(ok)
        BY DEF Successes, DeliveryLog
  <2>9. /\ snapshot.accepted \in Nat /\ snapshot.Pending \in Nat
        /\ snapshot.accepted <= snapshot.Pending + Len(delivered[ep])
        BY DEF Explained
  <2> DEFINE d == Len(delivered[ep])
             k == Cardinality(ok)
  <2>10. d <= k /\ d \in Nat /\ k \in Nat
         BY <2>5, <2>6, <2>7
  <2> HIDE DEF d, k
  <2>11. snapshot.accepted <= snapshot.Pending + k
         BY <2>9, <2>10 DEF d
  <2> QED BY <2>8, <2>11 DEF k
<1> QED BY <1>1, SnapshotInvAlways, ReaderChangesNothing, DispatchInvAlways, PTL
=============================================================================
