------------------------------- MODULE Ledger -------------------------------
(***************************************************************************)
(* What the engine promises to its callers: a table of charges and a       *)
(* virtual clock on which every operation is one indivisible step, or no   *)
(* step at all.  There is no mutex, no SQL statement, no transaction and   *)
(* no storage error here.  Engine implements it (Engine!RefinesLedger).    *)
(***************************************************************************)
EXTENDS Integers

CONSTANTS ChargeIds,   \* ids a charge may get
          Times,       \* instants of the virtual clock
          Durable      \* the table survives a restart of the process

VARIABLES time,        \* the virtual clock
          ledger       \* the charges: a function from ids to records

Statuses == {"created", "confirmed", "received", "overdue", "refunded"}

\* The lifecycle: what each status may become.
Allowed == [created   |-> {"confirmed", "received", "overdue"},
            confirmed |-> {"received", "refunded"},
            received  |-> {"refunded"},
            overdue   |-> {"confirmed", "received"},
            refunded  |-> {}]

LedgerInit == time \in Times /\ ledger = [id \in {} |-> 0]

Open(id, due) ==
  /\ id \notin DOMAIN ledger
  /\ ledger' = [i \in DOMAIN ledger \cup {id} |->
                  IF i = id
                  THEN [due |-> due, status |-> "created", updatedAt |-> time]
                  ELSE ledger[i]]
  /\ UNCHANGED time

Move(id, to) ==
  /\ id \in DOMAIN ledger /\ to \in Allowed[ledger[id].status]
  /\ ledger' = [ledger EXCEPT ![id].status = to, ![id].updatedAt = time]
  /\ UNCHANGED time

\* The clock and every charge that falls due move together.
Advance(target) ==
  /\ time' = target
  /\ ledger' = [id \in DOMAIN ledger |->
                  IF ledger[id].status = "created" /\ ledger[id].due <= target
                  THEN [ledger[id] EXCEPT !.status = "overdue",
                                          !.updatedAt = target]
                  ELSE ledger[id]]

Reopen ==
  /\ time' \in Times
  /\ ledger' = IF Durable THEN ledger ELSE [id \in {} |-> 0]

LedgerNext ==
  \/ \E id \in ChargeIds, due \in Times : Open(id, due)
  \/ \E id \in ChargeIds, to \in Statuses : Move(id, to)
  \/ \E target \in Times : Advance(target)
  \/ Reopen

LedgerSpec == LedgerInit /\ [][LedgerNext]_<<time, ledger>>
=============================================================================
