------------------------------- MODULE Engine -------------------------------
(***************************************************************************)
(* engine/: the charges, the virtual clock and the seeded id counter, with *)
(* every caller's operation taken apart into what it does under Engine.mu: *)
(* the SQL statements on the single connection, each of which may fail,    *)
(* the transaction of AdvanceClock, the id counter, and the clock, which   *)
(* moves last.  The process may stop at any point and be started again on  *)
(* the same database file.                                                 *)
(*                                                                         *)
(* A call refused for its arguments alone (billing type, amount, interval) *)
(* changes nothing and has no action; reads (Get..., List...) have none.   *)
(* An id is the counter value it was derived from: the hash of seed and    *)
(* counter is taken to be injective (id.go:9-11).                          *)
(***************************************************************************)
EXTENDS Integers, Sequences, FiniteSets

CONSTANTS Callers,       \* goroutines that call the engine
          None,          \* no holder of mu, no open transaction
          Times,         \* instants of the virtual clock
          Durations,     \* durations the clock is advanced by
          Persist,       \* the DSN names a file, not ":memory:"
          MaxId,         \* bound: ids minted by one process
          MaxFailures,   \* bound: SQL statements that fail
          MaxRestarts    \* bound: times the process is started again

ASSUME EngineAssumption ==
  /\ IsFiniteSet(Callers) /\ None \notin Callers
  /\ Times \subseteq Int /\ Durations \subseteq Int
  /\ \A t \in Times : \E d \in Durations : t + d \in Times
  /\ Persist \in BOOLEAN
  /\ MaxId \in Nat /\ MaxFailures \in Nat /\ MaxRestarts \in Nat

VARIABLES
  mu,              \* who holds Engine.mu
  now,             \* clock.Clock.now
  counter,         \* idGenerator.counter
  customers,       \* primary keys of the customers table
  subscriptions,   \* primary keys of the subscriptions table
  charges,         \* the charges table
  tx,              \* the charges as the open transaction sees them, or None
  pc,              \* where each caller is in its operation
  call,            \* its arguments and locals
  trail,           \* history: the statuses each charge has had
  swept,           \* history: the last completed AdvanceClock
  flipped,         \* history: charges each caller's last call made overdue
  failures, restarts   \* how much of the bounds is used

tables == <<customers, subscriptions, charges>>
history == <<trail, swept, flipped>>
budgets == <<failures, restarts>>
vars == <<mu, now, counter, tables, tx, pc, call, history, budgets>>

Ids == 1..MaxId
Statuses == {"created", "confirmed", "received", "overdue", "refunded"}
Charges == [due : Times, status : Statuses, updatedAt : Times]

chargeTransitions == [created   |-> {"confirmed", "received", "overdue"},
                      confirmed |-> {"received", "refunded"},
                      received  |-> {"refunded"},
                      overdue   |-> {"confirmed", "received"},
                      refunded  |-> {}]

AnyOtherStatus(from, to) == from # to
CanTransition(from, to) == to \in chargeTransitions[from]

\* Operations that mint an id, then insert into a table; NextID only mints.
Creating == {"customer", "subscription", "charge"}
Minting == Creating \cup {"id"}
Operations == Minting \cup {"transition", "advance"}

\* One shape for the arguments and locals of every operation: the id of the
\* charge at hand, the due date or the target instant, the status asked for,
\* the duration, the due charges read and those still to be written, and
\* whether the operation succeeded.
Calls == [op : Operations, id : 0..MaxId, time : Times, to : Statuses,
          by : Durations \cup {0}, due : SUBSET Ids, left : SUBSET Ids,
          ok : BOOLEAN]

Empty == [id \in {} |-> 0]
-----------------------------------------------------------------------------
Init ==
  /\ mu = None
  /\ now \in Times
  /\ counter = 0
  /\ customers = {} /\ subscriptions = {} /\ charges = Empty
  /\ tx = None
  /\ pc = [c \in Callers |-> "idle"]
  /\ call = [c \in Callers |-> None]
  /\ trail = Empty
  /\ swept = [asOf |-> now, ids |-> {}]
  /\ flipped = [c \in Callers |-> {}]
  /\ failures = 0 /\ restarts = 0

Goto(c, place) == pc' = [pc EXCEPT ![c] = place]
Unminted == {c \in Callers : pc[c] \in {"get", "mint"}
                               /\ call[c].op \in Minting}
IdsLeft == counter + Cardinality(Unminted) < MaxId

\* A statement fails, for the storage's reasons or the request's context.
StatementFails == failures < MaxFailures /\ failures' = failures + 1

\* The single connection of the pool (store.go:66) is held by an open
\* transaction until Commit or Rollback; any other statement waits for it.
ConnectionFree == tx = None
-----------------------------------------------------------------------------
(* Calling and returning *)

Request(op, id, time, to) ==
  [op |-> op, id |-> id, time |-> time, to |-> to, by |-> 0,
   due |-> {}, left |-> {}, ok |-> FALSE]

\* What an operation does first once it holds mu.
FirstStep(op) ==
  CASE op \in {"charge", "subscription", "transition"} -> "get"
    [] op \in {"customer", "id"} -> "mint"
    [] op = "advance" -> "list"

NoMutex == TRUE
Unlocked == mu = None

\* A caller that waits for mu has done nothing yet, and is as good as idle.
Begin(c, request) ==
  /\ pc[c] = "idle" /\ Unlocked
  /\ mu' = c
  /\ call' = [call EXCEPT ![c] = request]
  /\ Goto(c, FirstStep(request.op))
  /\ UNCHANGED <<now, counter, tables, tx, history, budgets>>

\* The operations, each taken apart below into what it does under mu.
NextID(c) == IdsLeft /\ Begin(c, Request("id", 0, now, "created"))
CreateCustomer(c) ==
  IdsLeft /\ Begin(c, Request("customer", 0, now, "created"))
CreateCharge(c, due) ==
  IdsLeft /\ Begin(c, Request("charge", 0, due, "created"))
CreateSubscription(c) ==
  IdsLeft /\ Begin(c, Request("subscription", 0, now, "created"))
TransitionCharge(c, id, to) == Begin(c, Request("transition", id, now, to))
AdvanceClock(c) == Begin(c, Request("advance", 0, now, "created"))

\* The deferred unlock, with the result already decided.
Return(c) ==
  /\ pc[c] = "unlock"
  /\ mu' = None
  /\ call' = [call EXCEPT ![c] = None]
  /\ flipped' = [flipped EXCEPT ![c] = {}]
  /\ Goto(c, "idle")
  /\ UNCHANGED <<now, counter, tables, tx, trail, swept, budgets>>

\* A statement outside any transaction that fails ends the operation.
FailBefore(c, places) ==
  /\ pc[c] \in places /\ ConnectionFree
  /\ StatementFails
  /\ Goto(c, "unlock")
  /\ UNCHANGED <<mu, now, counter, tables, tx, call, history, restarts>>
-----------------------------------------------------------------------------
(* CreateCustomer, CreateCharge, CreateSubscription, NextID *)

\* getCustomer: the customer of a new charge or subscription.
GetCustomer(c) ==
  /\ pc[c] = "get" /\ call[c].op \in Creating /\ ConnectionFree
  /\ \/ customers # {} /\ Goto(c, "mint")
     \/ Goto(c, "unlock")
  /\ UNCHANGED <<mu, now, counter, tables, tx, call, history, budgets>>

CounterOnce == IF counter = 0 THEN 1 ELSE counter
NextCounter == counter + 1

Mint(c) ==
  /\ pc[c] = "mint"
  /\ counter' = NextCounter
  /\ call' = [call EXCEPT ![c].id = NextCounter, ![c].ok = (call[c].op = "id")]
  /\ Goto(c, IF call[c].op = "id" THEN "unlock" ELSE "insert")
  /\ UNCHANGED <<mu, now, tables, tx, history, budgets>>

\* The table an operation inserts into, by its primary keys.
TableOf(op) ==
  CASE op = "customer" -> customers
    [] op = "subscription" -> subscriptions
    [] op = "charge" -> DOMAIN charges

Extend(f, id, value) == [i \in DOMAIN f \cup {id} |-> IF i = id THEN value ELSE f[i]]

NewCharge(due) == [due |-> due, status |-> "created", updatedAt |-> now]

\* The row is new; the call succeeds.
Inserts(c, op) ==
  /\ pc[c] = "insert" /\ ConnectionFree
  /\ call[c].op = op /\ call[c].id \notin TableOf(op)
  /\ call' = [call EXCEPT ![c].ok = TRUE]
  /\ Goto(c, "unlock")

InsertCustomer(c) ==
  /\ Inserts(c, "customer")
  /\ customers' = customers \cup {call[c].id}
  /\ UNCHANGED <<mu, now, counter, subscriptions, charges, tx, history, budgets>>

InsertSubscription(c) ==
  /\ Inserts(c, "subscription")
  /\ subscriptions' = subscriptions \cup {call[c].id}
  /\ UNCHANGED <<mu, now, counter, customers, charges, tx, history, budgets>>

InsertCharge(c) ==
  /\ Inserts(c, "charge")
  /\ charges' = Extend(charges, call[c].id, NewCharge(call[c].time))
  /\ trail' = Extend(trail, call[c].id, <<"created">>)
  /\ UNCHANGED <<mu, now, counter, customers, subscriptions, tx, swept,
                 flipped, budgets>>

\* UNIQUE constraint failed: the id is spent, nothing is stored.
InsertCollides(c) ==
  /\ pc[c] = "insert" /\ ConnectionFree
  /\ call[c].id \in TableOf(call[c].op)
  /\ Goto(c, "unlock")
  /\ UNCHANGED <<mu, now, counter, tables, tx, call, history, budgets>>
-----------------------------------------------------------------------------
(* TransitionCharge *)

\* getCharge and the check of the lifecycle on the copy it returned.
GetCharge(c) ==
  LET id == call[c].id IN
  /\ pc[c] = "get" /\ call[c].op = "transition" /\ ConnectionFree
  /\ Goto(c, IF id \in DOMAIN charges
                  /\ CanTransition(charges[id].status, call[c].to)
             THEN "update" ELSE "unlock")
  /\ UNCHANGED <<mu, now, counter, tables, tx, call, history, budgets>>

UpdateCharge(c) ==
  LET id == call[c].id IN
  /\ pc[c] = "update" /\ ConnectionFree
  /\ charges' = [charges EXCEPT ![id].status = call[c].to, ![id].updatedAt = now]
  /\ trail' = [trail EXCEPT ![id] = Append(@, call[c].to)]
  /\ call' = [call EXCEPT ![c].ok = TRUE]
  /\ Goto(c, "unlock")
  /\ UNCHANGED <<mu, now, counter, customers, subscriptions, tx, swept,
                 flipped, budgets>>
-----------------------------------------------------------------------------
(* AdvanceClock *)

DueBefore(t) == {id \in DOMAIN charges :
                   charges[id].status = "created" /\ charges[id].due < t}
DueBy(t) == {id \in DOMAIN charges :
               charges[id].status = "created" /\ charges[id].due <= t}

\* The target is computed, not committed.  The duration is drawn here, so that
\* the bound Times never stops a call that holds mu.
ListDue(c) ==
  /\ pc[c] = "list" /\ ConnectionFree
  /\ \E d \in Durations :
       /\ now + d \in Times
       /\ call' = [call EXCEPT ![c].by = d, ![c].time = now + d,
                               ![c].due = DueBy(now + d),
                               ![c].left = DueBy(now + d)]
       /\ Goto(c, IF DueBy(now + d) = {} THEN "moveClock" ELSE "begin")
  /\ UNCHANGED <<mu, now, counter, tables, tx, history, budgets>>

BeginTx(c) ==
  /\ pc[c] = "begin" /\ ConnectionFree
  /\ tx' = charges
  /\ Goto(c, "exec")
  /\ UNCHANGED <<mu, now, counter, tables, call, history, budgets>>

\* One UPDATE of the batch, visible to the transaction only.
Exec(c) ==
  /\ pc[c] = "exec"
  /\ \E id \in call[c].left :
       /\ tx' = [tx EXCEPT ![id].status = "overdue",
                           ![id].updatedAt = call[c].time]
       /\ call' = [call EXCEPT ![c].left = @ \ {id}]
       /\ Goto(c, IF call[c].left = {id} THEN "commit" ELSE "exec")
  /\ UNCHANGED <<mu, now, counter, tables, history, budgets>>

ExecFails(c) ==
  /\ pc[c] = "exec" /\ StatementFails
  /\ Goto(c, "rollback")
  /\ UNCHANGED <<mu, now, counter, tables, tx, call, history, restarts>>

\* An error path that returns with the transaction still open.
RollbackForgotten(c) ==
  /\ pc[c] = "rollback"
  /\ Goto(c, "unlock")
  /\ UNCHANGED <<mu, now, counter, tables, tx, call, history, budgets>>

Rollback(c) ==
  /\ pc[c] = "rollback"
  /\ tx' = None
  /\ Goto(c, "unlock")
  /\ UNCHANGED <<mu, now, counter, tables, call, history, budgets>>

\* What the commit makes different.
Changed(old, new) == {id \in DOMAIN old : old[id].status # new[id].status}

Commit(c) ==
  /\ pc[c] = "commit"
  /\ charges' = tx
  /\ tx' = None
  /\ trail' = [id \in DOMAIN trail |->
                 IF id \in Changed(charges, tx)
                 THEN Append(trail[id], tx[id].status) ELSE trail[id]]
  /\ flipped' = [flipped EXCEPT ![c] = Changed(charges, tx)]
  /\ Goto(c, "moveClock")
  /\ UNCHANGED <<mu, now, counter, customers, subscriptions, call, swept,
                 budgets>>

\* An error of Commit that nobody looks at.
CommitUnchecked(c) ==
  /\ pc[c] = "commit" /\ StatementFails
  /\ tx' = None
  /\ Goto(c, "moveClock")
  /\ UNCHANGED <<mu, now, counter, tables, call, history, restarts>>

\* A failed Commit leaves the database as it was and ends the transaction.
CommitFails(c) ==
  /\ pc[c] = "commit" /\ StatementFails
  /\ tx' = None
  /\ Goto(c, "unlock")
  /\ UNCHANGED <<mu, now, counter, tables, call, history, restarts>>

AdvancedTwice(c) == call[c].time + call[c].by
Advanced(c) == now + call[c].by

\* Only now does the clock move.
MoveClock(c) ==
  /\ pc[c] = "moveClock"
  /\ now' = Advanced(c)
  /\ call' = [call EXCEPT ![c].ok = TRUE]
  /\ swept' = [asOf |-> call[c].time, ids |-> DOMAIN charges]
  /\ Goto(c, "unlock")
  /\ UNCHANGED <<mu, counter, tables, tx, trail, flipped, budgets>>
-----------------------------------------------------------------------------
\* The process stops, wherever its callers are, and starts again: the clock
\* at the wall clock's time, the counter at zero, an open transaction gone,
\* the tables gone too unless they are in a file.
Restart ==
  /\ restarts < MaxRestarts
  /\ restarts' = restarts + 1
  /\ mu' = None /\ tx' = None /\ counter' = 0
  /\ now' \in Times
  /\ pc' = [c \in Callers |-> "idle"]
  /\ call' = [c \in Callers |-> None]
  /\ swept' = [asOf |-> now', ids |-> {}]
  /\ flipped' = [c \in Callers |-> {}]
  /\ IF Persist
     THEN UNCHANGED <<tables, trail>>
     ELSE customers' = {} /\ subscriptions' = {} /\ charges' = Empty /\ trail' = Empty
  /\ UNCHANGED failures

Start(c) ==
  \/ NextID(c) \/ CreateCustomer(c) \/ CreateSubscription(c) \/ AdvanceClock(c)
  \/ \E due \in Times : CreateCharge(c, due)
  \/ \E id \in Ids, to \in Statuses : TransitionCharge(c, id, to)

Step(c) ==
  \/ Return(c)
  \/ FailBefore(c, {"get", "insert", "update", "list", "begin"})
  \/ GetCustomer(c) \/ Mint(c) \/ InsertCollides(c)
  \/ InsertCustomer(c) \/ InsertSubscription(c) \/ InsertCharge(c)
  \/ GetCharge(c) \/ UpdateCharge(c)
  \/ ListDue(c) \/ BeginTx(c) \/ Exec(c) \/ ExecFails(c) \/ Rollback(c)
  \/ Commit(c) \/ CommitFails(c) \/ MoveClock(c)

Next == Restart \/ \E c \in Callers : Start(c) \/ Step(c)

Spec == Init /\ [][Next]_vars
-----------------------------------------------------------------------------
(* Invariants *)

Places == {"idle", "get", "mint", "insert", "update", "list", "begin",
           "exec", "rollback", "commit", "moveClock", "unlock"}

TypeOK ==
  /\ mu \in Callers \cup {None}
  /\ now \in Times
  /\ counter \in 0..MaxId
  /\ customers \subseteq Ids /\ subscriptions \subseteq Ids
  /\ DOMAIN charges \subseteq Ids
  /\ \A id \in DOMAIN charges : charges[id] \in Charges
  /\ tx # None => DOMAIN tx = DOMAIN charges /\ \A id \in DOMAIN tx : tx[id] \in Charges
  /\ pc \in [Callers -> Places]
  /\ \A c \in Callers : call[c] # None => call[c] \in Calls
  /\ DOMAIN trail = DOMAIN charges
  /\ swept \in [asOf : Times, ids : SUBSET Ids]
  /\ flipped \in [Callers -> SUBSET Ids]
  /\ failures \in 0..MaxFailures /\ restarts \in 0..MaxRestarts

\* A charge has only ever moved along its lifecycle, across operations that
\* race each other and restarts: a payment confirmed while the clock passes
\* its due date is never overdue as well, and nothing leaves refunded
\* (charge.go:47-60; getCharge and updateChargeStatus are two statements,
\* engine.go:195-202, and so are listChargesDue and the batch, :301-323).
LegalTrails ==
  \A id \in DOMAIN charges :
    LET t == trail[id] IN
    /\ t[1] = "created" /\ t[Len(t)] = charges[id].status
    /\ \A i \in 2..Len(t) : t[i] \in chargeTransitions[t[i - 1]]

\* No charge that was there when the clock last moved is still unpaid past its
\* due date: an advance misses none, whatever failed, rolled back or was
\* retried before it (engine.go:281-284).
NoDueChargeLeftBehind ==
  \A id \in swept.ids :
    charges[id].status = "created" => charges[id].due > swept.asOf

\* AdvanceClock tells its caller of exactly the charges it made overdue, and
\* of none after an error (engine.go:287-292).
ReportMatchesDatabase ==
  \A c \in Callers : pc[c] = "unlock" /\ call[c].op = "advance" =>
    flipped[c] = IF call[c].ok THEN call[c].due ELSE {}

\* Outside the lock no transaction is open: every error path gives the one
\* connection back, or the next statement would wait for ever (store.go:63-66).
NoConnectionLeak == mu = None => tx = None

\* A new id is new: no insert meets its own id (engine.go:70, id.go:9-11).
FreshIds ==
  \A c \in Callers : pc[c] = "insert" => call[c].id \notin TableOf(call[c].op)

\* That is so until the file is opened again, whatever failed in between: a
\* failed insert spends its id, and no two callers are given the same one.
FreshUntilReopened == restarts = 0 => FreshIds
-----------------------------------------------------------------------------
(* Refinement *)

\* The operations are indivisible: a batch of overdue charges and the move of
\* the clock happen together or not at all, although the batch is committed
\* before the clock moves.
CommittedAdvance == {c \in Callers : pc[c] = "moveClock"}

BooksTime ==
  IF CommittedAdvance = {} THEN now
  ELSE call[CHOOSE c \in CommittedAdvance : TRUE].time

Books == INSTANCE Ledger WITH
  ChargeIds <- Ids, Durable <- Persist, ledger <- charges, time <- BooksTime

RefinesLedger == Books!LedgerSpec
=============================================================================
