------------------------------ MODULE Calendar ------------------------------
(***************************************************************************)
(* The engine's tables as the file holds them: instants are text, written  *)
(* by formatTime, compared by SQLite and parsed again by every scan, under *)
(* a clock that a client may move as far as it likes, forward or back.     *)
(* The engine's operations are one step each (Engine!RefinesLedger) and no *)
(* statement fails here.  Amounts are not in the rows: what a build makes  *)
(* of them depends on nothing else (Requested).                            *)
(***************************************************************************)
EXTENDS Values

CONSTANTS CustomerIds, ChargeIds, SubscriptionIds,
          Times,         \* bound: instants the clock is moved to
          Starts,        \* wall clock times the process is started at
          Dues,          \* due dates clients ask for
          Days,          \* what clients ask the clock to advance by
          Amounts,       \* in cents, what clients charge
          MaxDuration,   \* the largest time.Duration
          MaxAmount,     \* the largest int64 amount
          MaxRestarts    \* bound: times the process is started again

ASSUME CalendarAssumption ==
  /\ Times \subseteq Int /\ Starts \subseteq Times /\ Days \subseteq Int
  /\ \A due \in Dues : FourDigits(due)
  /\ Amounts \subseteq Nat \ {0}
  /\ MaxDuration \in Nat /\ MaxAmount \in Nat /\ MaxRestarts \in Nat

VARIABLES
  machine,         \* how this build converts what does not fit
  now,             \* the virtual clock
  customers,       \* id -> created_at
  charges,         \* id -> the row
  subscriptions,   \* id -> next_due_date and created_at
  swept,           \* history: the last advance that succeeded
  strayed,         \* history: a row was written outside of four digits
  restarts

vars == <<machine, now, customers, charges, subscriptions, swept, strayed,
          restarts>>

Statuses == {"created", "confirmed", "received", "overdue", "refunded"}

chargeTransitions == [created   |-> {"confirmed", "received", "overdue"},
                      confirmed |-> {"received", "refunded"},
                      received  |-> {"refunded"},
                      overdue   |-> {"confirmed", "received"},
                      refunded  |-> {}]

\* The amount a charge is created with when a client asks for so many cents,
\* as a number in reais.
Requested(build, cents) ==
  reaisToCents(build, centsToReais(cents), MaxAmount)

\* The amounts for which AmountsSurvive is claimed: their reais leave two bits
\* of the significand, or they are beyond twice the largest amount.
AmountsClear ==
  \A cents \in Amounts :
    4 * cents < 2^Precision \/ cents >= 2 * (MaxAmount + 1)

\* What each build makes of the amounts it does not store as they were asked.
Misread ==
  {r \in {[build |-> build, cents |-> cents, amount |-> Requested(build, cents)] :
            build \in Machines, cents \in Amounts} : r.amount # r.cents}

Empty == [id \in {} |-> 0]
Extend(f, id, row) == [i \in DOMAIN f \cup {id} |-> IF i = id THEN row ELSE f[i]]

Init ==
  /\ machine \in Machines
  /\ now \in Starts
  /\ customers = Empty /\ charges = Empty /\ subscriptions = Empty
  /\ swept = [asOf |-> now, ids |-> {}]
  /\ strayed = FALSE
  /\ restarts = 0

\* scanCharge and scanSubscription: every instant of the row has to parse.
ScansCharge(row) == Parses(row.due) /\ Parses(row.created) /\ Parses(row.updated)
ScansSubscription(row) == Parses(row.next) /\ Parses(row.created)

Writes == strayed' = (strayed \/ ~FourDigits(now'))
-----------------------------------------------------------------------------
CreateCustomer(id) ==
  /\ id \notin DOMAIN customers
  /\ customers' = Extend(customers, id, FormatTime(now))
  /\ UNCHANGED <<machine, now, charges, subscriptions, swept, restarts>>
  /\ Writes

\* getCustomer of a new charge or subscription; it is scanned too.
GetCustomer(cust) == cust \in DOMAIN customers /\ Parses(customers[cust])

CreatePayment(id, cust, due) ==
  /\ id \notin DOMAIN charges
  /\ GetCustomer(cust)
  /\ charges' = Extend(charges, id,
       [due |-> FormatTime(due), status |-> "created",
        created |-> FormatTime(now), updated |-> FormatTime(now),
        asked |-> due])
  /\ UNCHANGED <<machine, now, customers, subscriptions, swept, restarts>>
  /\ Writes

CreateSubscription(id, cust, next) ==
  /\ id \notin DOMAIN subscriptions
  /\ GetCustomer(cust)
  /\ subscriptions' = Extend(subscriptions, id,
       [next |-> FormatTime(next), created |-> FormatTime(now)])
  /\ UNCHANGED <<machine, now, customers, charges, swept, restarts>>
  /\ Writes

MoveUnread(id, to) == to \in chargeTransitions[charges[id].status]
MayMove(id, to) ==
  /\ ScansCharge(charges[id])
  /\ to \in chargeTransitions[charges[id].status]

TransitionCharge(id, to) ==
  /\ id \in DOMAIN charges /\ MayMove(id, to)
  /\ charges' = [charges EXCEPT ![id].status = to,
                                ![id].updated = FormatTime(now)]
  /\ UNCHANGED <<machine, now, customers, subscriptions, swept, restarts>>
  /\ Writes

\* listChargesDue compares text with text.
DueBy(t) == {id \in DOMAIN charges : /\ charges[id].status = "created"
                                     /\ AtOrBefore(charges[id].due, FormatTime(t))}

\* A row that does not scan is skipped instead.
SkipsUnreadable(ids) == TRUE
Listed(ids) == \A id \in ids : ScansCharge(charges[id])

\* parseAdvanceDuration of a number of days.
AdvanceBy(days) == ToInt64(machine, days, MaxDuration)

\* Asaas's word for it instead of the engine's.
MadeOverdueForAsaas(row, target) ==
  [row EXCEPT !.status = "OVERDUE", !.updated = FormatTime(target)]

MadeOverdue(row, target) ==
  [row EXCEPT !.status = "overdue", !.updated = FormatTime(target)]

\* One due row that does not scan, and nothing moves.
AdvanceClock(days) ==
  LET target == now + AdvanceBy(days) IN
  /\ target \in Times
  /\ Listed(DueBy(target))
  /\ now' = target
  /\ charges' = [id \in DOMAIN charges |->
                   IF id \in DueBy(target) THEN MadeOverdue(charges[id], target)
                   ELSE charges[id]]
  /\ swept' = [asOf |-> target, ids |-> DOMAIN charges]
  /\ strayed' = (strayed \/ (DueBy(target) # {} /\ ~FourDigits(target)))
  /\ UNCHANGED <<machine, customers, subscriptions, restarts>>

\* Otherwise the transaction is rolled back, and the clock is not moved.
AdvanceRefused(days) ==
  LET target == now + AdvanceBy(days) IN
  /\ target \in Times
  /\ ~Listed(DueBy(target))
  /\ UNCHANGED vars

\* The same file, the wall clock's time.
Restart ==
  /\ restarts < MaxRestarts
  /\ restarts' = restarts + 1
  /\ now' \in Starts
  /\ swept' = [asOf |-> now', ids |-> {}]
  /\ UNCHANGED <<machine, customers, charges, subscriptions, strayed>>

Next ==
  \/ Restart
  \/ \E id \in CustomerIds : CreateCustomer(id)
  \/ \E id \in ChargeIds, cust \in CustomerIds, due \in Dues :
       CreatePayment(id, cust, due)
  \/ \E id \in SubscriptionIds, cust \in CustomerIds, due \in Dues :
       CreateSubscription(id, cust, due)
  \/ \E id \in ChargeIds, to \in Statuses : TransitionCharge(id, to)
  \/ \E days \in Days : AdvanceClock(days) \/ AdvanceRefused(days)

Spec == Init /\ [][Next]_vars

\* GET /_localpsp/state lists all three tables, and fails with any row.
ListState ==
  /\ \A id \in DOMAIN customers : Parses(customers[id])
  /\ \A id \in DOMAIN charges : ScansCharge(charges[id])
  /\ \A id \in DOMAIN subscriptions : ScansSubscription(subscriptions[id])
-----------------------------------------------------------------------------
(* Invariants *)

TypeOK ==
  /\ machine \in Machines /\ now \in Times
  /\ DOMAIN customers \subseteq CustomerIds
  /\ DOMAIN charges \subseteq ChargeIds
  /\ DOMAIN subscriptions \subseteq SubscriptionIds
  /\ \A id \in DOMAIN charges : charges[id].status \in Statuses
  /\ swept.asOf \in Times /\ swept.ids \subseteq DOMAIN charges
  /\ strayed \in BOOLEAN /\ restarts \in 0..MaxRestarts

\* Comparing text finds every charge that is due: an advance to an instant
\* with a year of four digits leaves no charge unpaid past its due date,
\* wherever the clock has been before (store.go:13-17, engine.go:281-284).
SweepMissesNone ==
  FourDigits(swept.asOf) =>
    \A id \in swept.ids :
      charges[id].status = "created" => charges[id].asked > swept.asOf

\* As long as nothing was written at a year that is not of four digits, every
\* row scans, and the state can be listed (store.go:79-85, admin.go:91-105).
StateAnswersInTime == strayed \/ ListState

\* The amount a charge is stored with is the one that was asked for, although
\* that comes as a binary fraction of reais.  What does not fit is refused, or
\* is the largest amount there is (money.go:5-11, engine.go:148).
AmountsSurvive ==
  \A r \in Misread : r.build = machine =>
    r.cents > MaxAmount /\ (r.amount <= 0 \/ r.amount = MaxAmount)
-----------------------------------------------------------------------------
(* Action properties *)

\* A charge that does not scan is stuck in the file: no operation and no
\* restart changes it any more, and no advance makes it overdue.
UnreadableStaysAsItIs ==
  [][\A id \in DOMAIN charges :
       ~ScansCharge(charges[id]) => charges'[id] = charges[id]]_vars

\* While such a charge is unpaid it holds the clock: an advance to its due date
\* or later, up to the last year of four digits, is refused every time, and
\* only a process that starts later gets there.  (Beyond those years the order
\* of text is not the order of time: an advance that the charge's text is not
\* listed for succeeds, although the due date has passed.)
UnreadableHoldsClock ==
  [][\A id \in DOMAIN charges :
       charges[id].status = "created" /\ ~ScansCharge(charges[id])
         => \/ now' = now \/ restarts' # restarts
            \/ FourDigits(now') => charges[id].asked > now']_vars

\* What admin.go:208 says of an advance, for a duration that is not negative:
\* it moves the engine's virtual clock forward.
AdvanceMovesForward ==
  [][\A days \in Days : days >= 0 /\ AdvanceClock(days) => now' >= now]_vars
=============================================================================
