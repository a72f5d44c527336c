---------------------------- MODULE EngineProofs ----------------------------
(* What TLAPS proves of Engine for every value of its constants. *)
EXTENDS Engine, FiniteSetTheorems, TLAPS

Types ==
  /\ mu \in Callers \cup {None}
  /\ now \in Times /\ counter \in 0..MaxId
  /\ customers \subseteq Ids /\ subscriptions \subseteq Ids
  /\ DOMAIN charges \subseteq Ids /\ charges \in [DOMAIN charges -> Charges]
  /\ trail \in [DOMAIN charges -> Seq(Statuses)]
  /\ pc \in [Callers -> Places]
  /\ call \in [Callers -> Calls \cup {None}]
  /\ swept \in [asOf : Times, ids : SUBSET Ids]
  /\ flipped \in [Callers -> SUBSET Ids]
  /\ failures \in 0..MaxFailures /\ restarts \in 0..MaxRestarts

\* Whoever does not hold mu is outside.
Quiet(c) == pc[c] = "idle" /\ call[c] = None /\ flipped[c] = {}
Excluded ==
  /\ \A c \in Callers : mu # c => Quiet(c)
  /\ mu = None => tx = None

\* The holder of mu: which operation is where.
AtItsPlace(c) ==
  /\ call[c] \in Calls /\ pc[c] # "idle"
  /\ pc[c] = "get" => call[c].op \in {"charge", "subscription", "transition"}
  /\ pc[c] = "mint" => call[c].op \in Minting
  /\ pc[c] = "insert" => call[c].op \in Creating
  /\ pc[c] = "update" => call[c].op = "transition"
  /\ pc[c] \in {"list", "begin", "exec", "rollback", "commit", "moveClock"}
       => call[c].op = "advance"

\* An id that is new stays new until it is inserted.
Minted(c) ==
  /\ pc[c] \in {"get", "mint"} /\ call[c].op \in Minting => counter < MaxId
  /\ pc[c] = "insert" =>
       /\ call[c].id = counter /\ counter \in Ids
       /\ restarts = 0 => counter \notin customers \cup subscriptions \cup DOMAIN charges

\* What was read from the charge is still so when it is written.
ReadStillTrue(c) ==
  pc[c] = "update" =>
    /\ call[c].id \in DOMAIN charges
    /\ CanTransition(charges[call[c].id].status, call[c].to)

\* The charges with some of them made overdue.
Overdue(row, t) == [row EXCEPT !.status = "overdue", !.updatedAt = t]
Flip(ids, t) ==
  [id \in DOMAIN charges |-> IF id \in ids THEN Overdue(charges[id], t) ELSE charges[id]]

\* The transaction shows the due charges written so far.
Batch(c) ==
  /\ pc[c] \notin {"exec", "rollback", "commit"} => tx = None
  /\ pc[c] \in {"begin", "exec", "commit", "moveClock"} => call[c].time = now + call[c].by
  /\ pc[c] \in {"begin", "exec", "commit"} => call[c].due = DueBy(call[c].time)
  /\ pc[c] = "begin" => call[c].left = call[c].due
  /\ pc[c] \in {"exec", "commit"} =>
       /\ call[c].left \subseteq call[c].due
       /\ tx = Flip(call[c].due \ call[c].left, call[c].time)
  /\ pc[c] = "commit" => call[c].left = {}
  /\ pc[c] = "rollback" => tx \in [DOMAIN charges -> Charges]
  /\ pc[c] = "moveClock" => DueBy(call[c].time) = {}

Report(c) ==
  /\ pc[c] \notin {"moveClock", "unlock"} => flipped[c] = {}
  /\ pc[c] = "moveClock" => flipped[c] = call[c].due
  /\ call[c].op = "advance" =>
       /\ pc[c] # "unlock" => ~call[c].ok
       /\ pc[c] = "unlock" => flipped[c] = IF call[c].ok THEN call[c].due ELSE {}

Inside(c) ==
  AtItsPlace(c) /\ Minted(c) /\ ReadStillTrue(c) /\ Batch(c) /\ Report(c)

\* The ids in the tables come from this process's counter, or from another's.
Known ==
  restarts = 0 => customers \cup subscriptions \cup DOMAIN charges \subseteq 1..counter

Recorded ==
  /\ Known /\ LegalTrails /\ NoDueChargeLeftBehind
  /\ \A id \in DOMAIN charges : Len(trail[id]) >= 1
  /\ swept.ids \subseteq DOMAIN charges

EngineInv == Types /\ Excluded /\ (mu # None => Inside(mu)) /\ Recorded

-----------------------------------------------------------------------------
(* Who is inside *)

\* Callers other than c stand still.
Only(c) ==
  \A d \in Callers \ {c} :
    pc'[d] = pc[d] /\ call'[d] = call[d] /\ flipped'[d] = flipped[d]

\* Whoever is in an operation holds mu.
LEMMA HolderIsInside ==
  ASSUME EngineInv, NEW c \in Callers, pc[c] # "idle"
  PROVE  mu = c /\ Inside(c) /\ Types /\ Recorded /\ Excluded
BY EngineAssumption DEF EngineInv, Excluded, Quiet

\* While mu is free everybody is outside, and no id is on order.
LEMMA FreeMeansOutside ==
  ASSUME EngineInv, mu = None
  PROVE  /\ \A d \in Callers : Quiet(d)
         /\ tx = None /\ Unminted = {} /\ Cardinality(Unminted) = 0
<1>1. \A d \in Callers : Quiet(d)
      BY EngineAssumption DEF EngineInv, Excluded
<1>2. Unminted = {}
      BY <1>1 DEF Unminted, Quiet
<1> QED BY <1>1, <1>2, FS_EmptySet DEF EngineInv, Excluded

\* A step of the holder after which it still holds mu.
LEMMA HolderGoesOn ==
  ASSUME EngineInv, NEW c \in Callers, mu = c, mu' = c, Only(c),
         Types', Inside(c)', Recorded'
  PROVE  EngineInv'
<1>1. c # None
      BY EngineAssumption
<1>2. Excluded'
      BY <1>1, EngineAssumption DEF EngineInv, Excluded, Only, Quiet
<1> QED BY <1>1, <1>2 DEF EngineInv

\* A step that leaves the tables and the counter alone.
LEMMA TablesAlone ==
  ASSUME Recorded, UNCHANGED <<tables, trail, swept, counter, restarts>>
  PROVE  Recorded'
BY DEF Recorded, Known, LegalTrails, NoDueChargeLeftBehind, tables

\* What Goto does.
LEMMA GotoMoves ==
  ASSUME Types, NEW c \in Callers, NEW place \in Places, Goto(c, place)
  PROVE  /\ pc' \in [Callers -> Places] /\ pc'[c] = place
         /\ \A d \in Callers \ {c} : pc'[d] = pc[d]
BY DEF Types, Goto

\* The bound on failing statements is respected.
LEMMA OneMoreFailure ==
  ASSUME Types, StatementFails
  PROVE  failures' \in 0..MaxFailures
<1>1. failures \in 0..MaxFailures /\ failures < MaxFailures /\ failures' = failures + 1
      BY DEF Types, StatementFails
<1> QED BY <1>1, EngineAssumption

\* A call is a record of its fields.
LEMMA CallFields ==
  ASSUME NEW k \in Calls
  PROVE  /\ [k EXCEPT !.ok = TRUE] \in Calls
         /\ \A i \in 0..MaxId, ok \in BOOLEAN : [k EXCEPT !.id = i, !.ok = ok] \in Calls
         /\ \A left \in SUBSET Ids : [k EXCEPT !.left = left] \in Calls
         /\ \A d \in Durations, t \in Times, due \in SUBSET Ids :
              [k EXCEPT !.by = d, !.time = t, !.due = due, !.left = due] \in Calls
BY DEF Calls

\* A row made overdue is a row.
LEMMA OverdueRow ==
  ASSUME NEW row \in Charges, NEW t \in Times
  PROVE  /\ Overdue(row, t) \in Charges
         /\ Overdue(row, t).status = "overdue"
         /\ Overdue(row, t).due = row.due
BY DEF Charges, Statuses, Overdue

\* The charges with some of them made overdue are a table of charges.
LEMMA FlipIsTable ==
  ASSUME Types, NEW t \in Times, NEW ids
  PROVE  /\ Flip(ids, t) \in [DOMAIN charges -> Charges]
         /\ \A id \in DOMAIN charges : Flip(ids, t)[id] =
              IF id \in ids THEN Overdue(charges[id], t) ELSE charges[id]
BY OverdueRow DEF Types, Flip

-----------------------------------------------------------------------------
(* Steps that leave the tables and the clock alone *)

\* Such a step of the holder to another place inside, with its locals changed
\* or not, keeps the invariant if what the new place says is true.
LEMMA InsideStep ==
  ASSUME EngineInv, NEW c \in Callers, pc[c] # "idle",
         NEW place \in Places \ {"idle"}, Goto(c, place),
         call' = [call EXCEPT ![c] = call'[c]], call'[c] \in Calls,
         UNCHANGED <<mu, now, counter, tables, history, restarts>>,
         failures' \in 0..MaxFailures,
         Inside(c)'
  PROVE  EngineInv'
<1>1. mu = c /\ Types /\ Recorded
      BY HolderIsInside
<1>2. /\ pc' \in [Callers -> Places] /\ pc'[c] = place
      /\ \A d \in Callers \ {c} : pc'[d] = pc[d]
      BY <1>1, GotoMoves
<1>3. Only(c)
      BY <1>1, <1>2 DEF Only, history, Types
<1>4. Types'
      BY <1>1, <1>2 DEF Types, tables, history
<1>5. Recorded'
      BY <1>1, TablesAlone DEF history
<1> QED BY <1>1, <1>3, <1>4, <1>5, HolderGoesOn

\* A statement that fails, a lookup that finds nothing, an insert that meets
\* its own id: the operation ends without effect.
LEMMA GivesUp ==
  ASSUME EngineInv, NEW c \in Callers,
         pc[c] \in {"get", "insert", "update", "list", "begin"},
         Goto(c, "unlock"),
         UNCHANGED <<mu, now, counter, tables, tx, call, history, restarts>>,
         failures' \in 0..MaxFailures
  PROVE  EngineInv'
<1>1. pc[c] # "idle" /\ mu = c /\ Types /\ Inside(c)
      BY HolderIsInside
<1>2. pc'[c] = "unlock" /\ call'[c] = call[c] /\ flipped'[c] = flipped[c] /\ tx' = tx
      BY <1>1, GotoMoves DEF Places, history
<1>3. Inside(c)'
  <2> USE <1>1, <1>2 DEF Inside
  <2>1. AtItsPlace(c)'   BY DEF AtItsPlace
  <2>2. Minted(c)'       BY DEF Minted
  <2>3. ReadStillTrue(c)' BY DEF ReadStillTrue
  <2>4. Batch(c)'        BY DEF Batch
  <2>5. Report(c)'       BY DEF Report
  <2> QED BY <2>1, <2>2, <2>3, <2>4, <2>5
<1>4. call' = [call EXCEPT ![c] = call'[c]] /\ call'[c] \in Calls
      BY <1>1 DEF Inside, AtItsPlace, Types
<1> QED BY <1>1, <1>3, <1>4, InsideStep DEF Places

\* A statement outside a transaction that fails.
LEMMA FailBeforeKeeps ==
  ASSUME EngineInv, NEW c \in Callers,
         FailBefore(c, {"get", "insert", "update", "list", "begin"})
  PROVE  EngineInv'
<1>1. failures' \in 0..MaxFailures
      BY OneMoreFailure DEF FailBefore, EngineInv
<1> QED BY <1>1, GivesUp DEF FailBefore

\* The customer of a new charge or subscription is found, or not.
LEMMA GetCustomerKeeps ==
  ASSUME EngineInv, NEW c \in Callers, GetCustomer(c)
  PROVE  EngineInv'
<1> USE DEF GetCustomer
<1>1. pc[c] # "idle" /\ mu = c /\ Types /\ Inside(c) /\ failures' \in 0..MaxFailures
      BY HolderIsInside DEF EngineInv, Types, budgets
<1>2. CASE Goto(c, "unlock")
      BY <1>1, <1>2, GivesUp DEF budgets
<1>3. CASE Goto(c, "mint")
  <2>1. pc'[c] = "mint" /\ call' = call /\ flipped' = flipped /\ tx' = tx
        BY <1>1, <1>3, GotoMoves DEF Places, history
  <2>2. Inside(c)'
    <3> USE <1>1, <2>1 DEF Inside
    <3>1. AtItsPlace(c)'    BY DEF AtItsPlace, Minting
    <3>2. Minted(c)'        BY DEF Minted, budgets
    <3>3. ReadStillTrue(c)' BY DEF ReadStillTrue
    <3>4. Batch(c)'         BY DEF Batch
    <3>5. Report(c)'        BY DEF Report
    <3> QED BY <3>1, <3>2, <3>3, <3>4, <3>5
  <2>3. call' = [call EXCEPT ![c] = call'[c]] /\ call'[c] \in Calls
        BY <1>1, <2>1 DEF Inside, AtItsPlace, Types
  <2> QED BY <1>1, <1>3, <2>2, <2>3, InsideStep DEF Places, budgets
<1> QED BY <1>2, <1>3

\* The counter moves on, and the id it gives is in no table.
LEMMA MintKeeps ==
  ASSUME EngineInv, NEW c \in Callers, Mint(c)
  PROVE  EngineInv'
<1> USE DEF Mint, NextCounter
<1> DEFINE done == call[c].op = "id"
           k == [call[c] EXCEPT !.id = counter + 1, !.ok = done]
           place == IF call[c].op = "id" THEN "unlock" ELSE "insert"
<1>1. pc[c] # "idle" /\ mu = c /\ Types /\ Inside(c) /\ Recorded
      BY HolderIsInside
<1>2. counter' \in 1..MaxId /\ counter' = counter + 1
  <2>1. counter \in 0..MaxId /\ counter < MaxId
        BY <1>1 DEF Inside, Minted, AtItsPlace, Types
  <2> QED BY <2>1, EngineAssumption
<1>3. call[c] \in Calls /\ call' = [call EXCEPT ![c] = k] /\ call'[c] = k
      BY <1>1 DEF Inside, AtItsPlace, Types
<1>4. k \in Calls /\ k.op = call[c].op /\ k.id = counter + 1
  <2>1. done \in BOOLEAN /\ counter + 1 \in 0..MaxId
        BY <1>2, EngineAssumption
  <2> HIDE DEF done
  <2> QED BY <1>3, <2>1 DEF Calls
<1>5. /\ pc' \in [Callers -> Places] /\ pc'[c] = place
      /\ \A d \in Callers \ {c} : pc'[d] = pc[d]
      BY <1>1, GotoMoves DEF Places
<1> HIDE DEF k
<1>6. Only(c)
      BY <1>1, <1>3, <1>5 DEF Only, history, Types
<1>7. Types'
  <2>1. call' \in [Callers -> Calls \cup {None}]
        BY <1>1, <1>3, <1>4 DEF Types
  <2>2. counter' \in 0..MaxId
        BY <1>2, EngineAssumption
  <2> QED BY <1>1, <1>5, <2>1, <2>2 DEF Types, tables, history, budgets
<1>8. Inside(c)'
  <2> USE <1>1, <1>3, <1>4, <1>5 DEF Inside
  <2>1. AtItsPlace(c)'    BY DEF AtItsPlace, Minting
  <2>2. Minted(c)'
        BY <1>2 DEF Minted, Ids, Recorded, Known, Types, tables, budgets
  <2>3. ReadStillTrue(c)' BY DEF ReadStillTrue
  <2>4. Batch(c)'         BY DEF Batch
  <2>5. Report(c)'        BY DEF Report, AtItsPlace, Minting, Creating, history
  <2> QED BY <2>1, <2>2, <2>3, <2>4, <2>5
<1>9. Recorded'
      BY <1>1, <1>2 DEF Recorded, Known, LegalTrails, NoDueChargeLeftBehind,
                        tables, history, budgets, Types
<1> QED BY <1>1, <1>6, <1>7, <1>8, <1>9, HolderGoesOn

\* An insert that meets its own id.
LEMMA InsertCollidesKeeps ==
  ASSUME EngineInv, NEW c \in Callers, InsertCollides(c)
  PROVE  EngineInv'
BY GivesUp DEF InsertCollides, budgets, EngineInv, Types

\* The charge may make the transition asked for, or not.
LEMMA GetChargeKeeps ==
  ASSUME EngineInv, NEW c \in Callers, GetCharge(c)
  PROVE  EngineInv'
<1> USE DEF GetCharge
<1>1. pc[c] # "idle" /\ mu = c /\ Types /\ Inside(c) /\ failures' \in 0..MaxFailures
      BY HolderIsInside DEF EngineInv, Types, budgets
<1>2. CASE Goto(c, "unlock")
      BY <1>1, <1>2, GivesUp DEF budgets
<1>3. CASE /\ Goto(c, "update") /\ call[c].id \in DOMAIN charges
           /\ CanTransition(charges[call[c].id].status, call[c].to)
  <2>1. pc'[c] = "update" /\ call' = call /\ flipped' = flipped /\ tx' = tx
        BY <1>1, <1>3, GotoMoves DEF Places, history
  <2>2. Inside(c)'
    <3> USE <1>1, <2>1 DEF Inside
    <3>1. AtItsPlace(c)'    BY DEF AtItsPlace
    <3>2. Minted(c)'        BY DEF Minted
    <3>3. ReadStillTrue(c)' BY <1>3 DEF ReadStillTrue, CanTransition, tables
    <3>4. Batch(c)'         BY DEF Batch
    <3>5. Report(c)'        BY DEF Report
    <3> QED BY <3>1, <3>2, <3>3, <3>4, <3>5
  <2>3. call' = [call EXCEPT ![c] = call'[c]] /\ call'[c] \in Calls
        BY <1>1, <2>1 DEF Inside, AtItsPlace, Types
  <2> QED BY <1>1, <1>3, <2>2, <2>3, InsideStep DEF Places, budgets
<1> QED BY <1>2, <1>3

\* The due charges are read.
LEMMA ListDueKeeps ==
  ASSUME EngineInv, NEW c \in Callers, ListDue(c)
  PROVE  EngineInv'
<1>1. pc[c] = "list" /\ pc[c] # "idle" /\ mu = c /\ Types /\ Inside(c)
      BY HolderIsInside DEF ListDue
<1>2. call[c] \in Calls /\ ~call[c].ok /\ call[c].op = "advance"
      /\ flipped[c] = {} /\ tx = None
      BY <1>1 DEF Inside, AtItsPlace, Report, Batch
<1>3. PICK d \in Durations :
        /\ now + d \in Times
        /\ call' = [call EXCEPT ![c].by = d, ![c].time = now + d,
                                ![c].due = DueBy(now + d),
                                ![c].left = DueBy(now + d)]
        /\ Goto(c, IF DueBy(now + d) = {} THEN "moveClock" ELSE "begin")
      BY DEF ListDue
<1> DEFINE due == DueBy(now + d)
           place == IF due = {} THEN "moveClock" ELSE "begin"
           k == [call[c] EXCEPT !.by = d, !.time = now + d, !.due = due, !.left = due]
<1>4. due \in SUBSET Ids
      BY <1>1 DEF DueBy, Types
<1>5. call' = [call EXCEPT ![c] = k] /\ call'[c] = k
      BY <1>1, <1>3 DEF Types
<1>6. k \in Calls /\ k.op = "advance" /\ ~k.ok /\ k.by = d /\ k.time = now + d
      /\ k.due = due /\ k.left = due
      BY <1>2, <1>3, <1>4 DEF Calls
<1>7. UNCHANGED <<mu, now, counter, tables, tx, history, restarts, failures>>
      BY DEF ListDue, budgets
<1>8. pc'[c] = place
      BY <1>1, <1>3, GotoMoves DEF Places
<1> HIDE DEF k
<1>9. DueBy(call[c].time)' = due
      BY <1>5, <1>6, <1>7 DEF DueBy, tables
<1>10. Inside(c)'
  <2> USE <1>2, <1>5, <1>6, <1>7, <1>8 DEF Inside
  <2>1. AtItsPlace(c)'    BY DEF AtItsPlace
  <2>2. Minted(c)'        BY DEF Minted
  <2>3. ReadStillTrue(c)' BY DEF ReadStillTrue
  <2>4. Batch(c)'
    <3> HIDE DEF due
    <3> QED BY <1>9 DEF Batch
  <2>5. Report(c)'        BY DEF Report, history
  <2> QED BY <2>1, <2>2, <2>3, <2>4, <2>5
<1>11. failures' \in 0..MaxFailures /\ place \in Places \ {"idle"}
      BY <1>1, <1>7 DEF Types, Places
<1> QED BY <1>1, <1>3, <1>5, <1>6, <1>7, <1>10, <1>11, InsideStep

\* The transaction opens on the charges as they are.
LEMMA BeginTxKeeps ==
  ASSUME EngineInv, NEW c \in Callers, BeginTx(c)
  PROVE  EngineInv'
<1> USE DEF BeginTx
<1>1. pc[c] = "begin" /\ pc[c] # "idle" /\ mu = c /\ Types /\ Inside(c)
      /\ failures' \in 0..MaxFailures
      BY HolderIsInside DEF budgets, Types
<1>2. pc'[c] = "exec" /\ call'[c] = call[c] /\ flipped'[c] = flipped[c]
      BY <1>1, GotoMoves DEF Places, history
<1>3. DueBy(call[c].time)' = DueBy(call[c].time)
      BY DEF DueBy, tables
<1>4. Flip({}, call[c].time)' = charges
      BY <1>1 DEF Flip, tables, Types
<1>5. Inside(c)'
  <2> USE <1>1, <1>2 DEF Inside
  <2>1. AtItsPlace(c)'    BY DEF AtItsPlace
  <2>2. Minted(c)'        BY DEF Minted
  <2>3. ReadStillTrue(c)' BY DEF ReadStillTrue
  <2>4. Batch(c)'
    <3>1. call[c].due \ call[c].left = {}
          BY DEF Batch
    <3> QED BY <1>3, <1>4, <3>1 DEF Batch
  <2>5. Report(c)'        BY DEF Report
  <2> QED BY <2>1, <2>2, <2>3, <2>4, <2>5
<1>6. call' = [call EXCEPT ![c] = call'[c]] /\ call'[c] \in Calls
      BY <1>1 DEF Inside, AtItsPlace, Types
<1> QED BY <1>1, <1>5, <1>6, InsideStep DEF Places, budgets

\* An UPDATE of the batch fails.
LEMMA ExecFailsKeeps ==
  ASSUME EngineInv, NEW c \in Callers, ExecFails(c)
  PROVE  EngineInv'
<1> USE DEF ExecFails
<1>1. pc[c] = "exec" /\ pc[c] # "idle" /\ mu = c /\ Types /\ Inside(c)
      BY HolderIsInside
<1>2. pc'[c] = "rollback" /\ call'[c] = call[c] /\ flipped'[c] = flipped[c]
      BY <1>1, GotoMoves DEF Places, history
<1>3. tx' \in [DOMAIN charges' -> Charges]
  <2>1. tx = Flip(call[c].due \ call[c].left, call[c].time) /\ call[c].time \in Times
        BY <1>1 DEF Inside, Batch, AtItsPlace, Calls
  <2> QED BY <1>1, <2>1, FlipIsTable DEF tables
<1>4. Inside(c)'
  <2> USE <1>1, <1>2 DEF Inside
  <2>1. AtItsPlace(c)'    BY DEF AtItsPlace
  <2>2. Minted(c)'        BY DEF Minted
  <2>3. ReadStillTrue(c)' BY DEF ReadStillTrue
  <2>4. Batch(c)'         BY <1>3 DEF Batch
  <2>5. Report(c)'        BY DEF Report
  <2> QED BY <2>1, <2>2, <2>3, <2>4, <2>5
<1>5. call' = [call EXCEPT ![c] = call'[c]] /\ call'[c] \in Calls
      BY <1>1 DEF Inside, AtItsPlace, Types
<1>6. failures' \in 0..MaxFailures
      BY <1>1, OneMoreFailure
<1> QED BY <1>1, <1>4, <1>5, <1>6, InsideStep DEF Places

\* Rollback and a commit that fails end the transaction without effect.
LEMMA TransactionEnds ==
  ASSUME EngineInv, NEW c \in Callers, pc[c] \in {"rollback", "commit"},
         Goto(c, "unlock"), tx' = None,
         UNCHANGED <<mu, now, counter, tables, call, history, restarts>>,
         failures' \in 0..MaxFailures
  PROVE  EngineInv'
<1>1. pc[c] # "idle" /\ mu = c /\ Types /\ Inside(c)
      BY HolderIsInside
<1>2. pc'[c] = "unlock" /\ call'[c] = call[c] /\ flipped'[c] = flipped[c]
      BY <1>1, GotoMoves DEF Places, history
<1>3. Inside(c)'
  <2> USE <1>1, <1>2 DEF Inside
  <2>1. AtItsPlace(c)'    BY DEF AtItsPlace
  <2>2. Minted(c)'        BY DEF Minted
  <2>3. ReadStillTrue(c)' BY DEF ReadStillTrue
  <2>4. Batch(c)'         BY DEF Batch
  <2>5. Report(c)'        BY DEF Report
  <2> QED BY <2>1, <2>2, <2>3, <2>4, <2>5
<1>4. call' = [call EXCEPT ![c] = call'[c]] /\ call'[c] \in Calls
      BY <1>1 DEF Inside, AtItsPlace, Types
<1> QED BY <1>1, <1>3, <1>4, InsideStep DEF Places

\* Rollback, and the COMMIT that fails.
LEMMA RollbackKeeps ==
  ASSUME EngineInv, NEW c \in Callers, Rollback(c) \/ CommitFails(c)
  PROVE  EngineInv'
<1>1. CASE Rollback(c)
      BY <1>1, TransactionEnds DEF Rollback, budgets, EngineInv, Types
<1>2. CASE CommitFails(c)
  <2>1. failures' \in 0..MaxFailures
        BY <1>2, OneMoreFailure DEF CommitFails, EngineInv
  <2> QED BY <1>2, <2>1, TransactionEnds DEF CommitFails
<1> QED BY <1>1, <1>2

\* One more due charge is overdue in the transaction.
LEMMA ExecKeeps ==
  ASSUME EngineInv, NEW c \in Callers, Exec(c)
  PROVE  EngineInv'
<1>1. pc[c] = "exec" /\ pc[c] # "idle" /\ mu = c /\ Types /\ Inside(c)
      BY HolderIsInside DEF Exec
<1> DEFINE t == call[c].time
           due == call[c].due
           left == call[c].left
<1>2. /\ call[c] \in Calls /\ call[c].op = "advance" /\ ~call[c].ok
      /\ t \in Times /\ t = now + call[c].by
      /\ due = DueBy(t) /\ left \subseteq due /\ due \subseteq DOMAIN charges
      /\ left \in SUBSET Ids
      /\ tx = Flip(due \ left, t) /\ flipped[c] = {}
      BY <1>1 DEF Inside, AtItsPlace, Batch, Report, Calls, DueBy, Types
<1>3. PICK id \in left :
        /\ tx' = [tx EXCEPT ![id].status = "overdue", ![id].updatedAt = t]
        /\ call' = [call EXCEPT ![c].left = @ \ {id}]
        /\ Goto(c, IF left = {id} THEN "commit" ELSE "exec")
      BY DEF Exec
<1>4. UNCHANGED <<mu, now, counter, tables, history, restarts, failures>>
      BY DEF Exec, budgets
<1> DEFINE k == [call[c] EXCEPT !.left = left \ {id}]
           place == IF left = {id} THEN "commit" ELSE "exec"
<1>5. call' = [call EXCEPT ![c] = k] /\ call'[c] = k
      BY <1>1, <1>3 DEF Types
<1>6. k \in Calls /\ k.op = "advance" /\ ~k.ok /\ k.by = call[c].by /\ k.time = t
      /\ k.due = due /\ k.left = left \ {id}
      BY <1>2 DEF Calls
<1>7. pc'[c] = place
      BY <1>1, <1>3, GotoMoves DEF Places
<1>8. tx' = Flip(due \ (left \ {id}), t)
  <2>1. id \in DOMAIN charges /\ id \notin due \ left
        BY <1>2
  <2>2. /\ tx \in [DOMAIN charges -> Charges]
        /\ \A i \in DOMAIN charges :
             tx[i] = IF i \in due \ left THEN Overdue(charges[i], t) ELSE charges[i]
        BY <1>1, <1>2, FlipIsTable
  <2>3. tx' = [tx EXCEPT ![id] = Overdue(tx[id], t)]
        BY <1>3 DEF Overdue
  <2>4. tx' = [i \in DOMAIN charges |->
                 IF i = id THEN Overdue(charges[id], t) ELSE tx[i]]
        BY <2>1, <2>2, <2>3
  <2>5. \A i \in DOMAIN charges : i \in due \ (left \ {id}) <=> i \in due \ left \/ i = id
        BY <1>2, <1>3
  <2> HIDE DEF due, left, t
  <2> QED BY <2>1, <2>2, <2>4, <2>5 DEF Flip
<1>9. DueBy(call[c].time)' = due
      BY <1>2, <1>4, <1>5, <1>6 DEF DueBy, tables
<1>10. (Flip(call[c].due \ call[c].left, call[c].time))' = Flip(due \ (left \ {id}), t)
  <2>1. /\ call'[c].due = due /\ call'[c].left = left \ {id} /\ call'[c].time = t
        /\ charges' = charges
        BY <1>4, <1>5, <1>6 DEF tables
  <2> HIDE DEF due, left, t
  <2> QED BY <2>1 DEF Flip
<1>11. k.left \subseteq k.due /\ (place = "commit" => k.left = {})
      BY <1>2, <1>3, <1>6
<1>12. Inside(c)'
  <2> HIDE DEF k, due, left, t
  <2> USE <1>2, <1>4, <1>5, <1>6, <1>7 DEF Inside
  <2>1. AtItsPlace(c)'    BY DEF AtItsPlace
  <2>2. Minted(c)'        BY DEF Minted
  <2>3. ReadStillTrue(c)' BY DEF ReadStillTrue
  <2>4. Batch(c)'         BY <1>8, <1>9, <1>10, <1>11 DEF Batch
  <2>5. Report(c)'        BY DEF Report, history
  <2> QED BY <2>1, <2>2, <2>3, <2>4, <2>5
<1>13. failures' \in 0..MaxFailures /\ place \in Places \ {"idle"}
      BY <1>1, <1>4 DEF Types, Places
<1> HIDE DEF k
<1> QED BY <1>1, <1>3, <1>4, <1>5, <1>6, <1>12, <1>13, InsideStep

-----------------------------------------------------------------------------
(* The trail of a charge *)

\* A trail that starts at "created" and follows the lifecycle.
Legal(t) ==
  /\ t \in Seq(Statuses) /\ Len(t) >= 1 /\ t[1] = "created"
  /\ \A i \in 2..Len(t) : t[i] \in chargeTransitions[t[i - 1]]

\* One more legal status keeps a trail legal.
LEMMA LongerTrail ==
  ASSUME NEW t, Legal(t), NEW s \in Statuses, s \in chargeTransitions[t[Len(t)]]
  PROVE  Legal(Append(t, s)) /\ Append(t, s)[Len(Append(t, s))] = s
<1> DEFINE u == Append(t, s)
<1>1. /\ u \in Seq(Statuses) /\ Len(u) = Len(t) + 1 /\ Len(t) \in Nat /\ Len(t) >= 1
      /\ \A i \in 1..Len(t) : u[i] = t[i]
      /\ u[Len(t) + 1] = s
      BY DEF Legal
<1>2. u[1] = "created"
      BY <1>1 DEF Legal
<1>3. ASSUME NEW i \in 2..Len(u) PROVE u[i] \in chargeTransitions[u[i - 1]]
  <2>1. i - 1 \in 1..Len(t) /\ u[i - 1] = t[i - 1]
        BY <1>1
  <2>2. CASE i \in 2..Len(t)
        BY <1>1, <2>1, <2>2 DEF Legal
  <2>3. CASE i = Len(t) + 1
        BY <1>1, <2>1, <2>3
  <2> QED BY <1>1, <2>2, <2>3
<1> HIDE DEF u
<1>4. Legal(u) /\ u[Len(u)] = s
      BY <1>1, <1>2, <1>3 DEF Legal
<1> QED BY <1>4 DEF u

\* The record of the engine says that every trail is legal and ends at the
\* charge's status.
LEMMA TrailsAreLegal ==
  Types /\ Recorded <=>
    /\ Types /\ Known /\ NoDueChargeLeftBehind /\ swept.ids \subseteq DOMAIN charges
    /\ \A id \in DOMAIN charges :
         Legal(trail[id]) /\ trail[id][Len(trail[id])] = charges[id].status
<1>1. Types => \A id \in DOMAIN charges : trail[id] \in Seq(Statuses)
      BY DEF Types
<1> QED BY <1>1 DEF Recorded, LegalTrails, Legal

-----------------------------------------------------------------------------
(* Steps that write to a table *)

\* An insert or an update that succeeds leaves nothing under way.
LEMMA EndsWell ==
  ASSUME EngineInv, NEW c \in Callers, pc[c] \in {"insert", "update"},
         Goto(c, "unlock"), call' = [call EXCEPT ![c].ok = TRUE],
         UNCHANGED <<mu, now, counter, tx, swept, flipped, budgets>>
  PROVE  /\ mu' = c /\ Only(c) /\ Inside(c)'
         /\ pc' \in [Callers -> Places] /\ call' \in [Callers -> Calls \cup {None}]
<1>1. pc[c] # "idle" /\ mu = c /\ Types /\ Inside(c)
      BY HolderIsInside
<1>2. /\ pc' \in [Callers -> Places] /\ pc'[c] = "unlock"
      /\ \A d \in Callers \ {c} : pc'[d] = pc[d]
      BY <1>1, GotoMoves DEF Places
<1> DEFINE k == [call[c] EXCEPT !.ok = TRUE]
<1>3. call[c] \in Calls /\ call[c].op # "advance" /\ flipped[c] = {} /\ tx = None
      BY <1>1 DEF Inside, AtItsPlace, Creating, Report, Batch
<1>4. call' = [call EXCEPT ![c] = k] /\ call'[c] = k /\ k \in Calls /\ k.op = call[c].op
  <2>1. k \in Calls
        BY <1>3, CallFields
  <2>2. k.op = call[c].op
        BY <1>3 DEF Calls
  <2> QED BY <1>1, <2>1, <2>2 DEF Types
<1> HIDE DEF k
<1>5. call' \in [Callers -> Calls \cup {None}]
      BY <1>1, <1>4 DEF Types
<1>6. Only(c)
      BY <1>1, <1>2, <1>4 DEF Only, Types
<1>7. Inside(c)'
  <2> USE <1>1, <1>2, <1>3, <1>4 DEF Inside
  <2>1. AtItsPlace(c)'    BY DEF AtItsPlace
  <2>2. Minted(c)'        BY DEF Minted
  <2>3. ReadStillTrue(c)' BY DEF ReadStillTrue
  <2>4. Batch(c)'         BY DEF Batch
  <2>5. Report(c)'        BY DEF Report
  <2> QED BY <2>1, <2>2, <2>3, <2>4, <2>5
<1> QED BY <1>1, <1>2, <1>5, <1>6, <1>7

\* A new customer or subscription.
LEMMA InsertKeyKeeps ==
  ASSUME EngineInv, NEW c \in Callers, InsertCustomer(c) \/ InsertSubscription(c)
  PROVE  EngineInv'
<1>1. /\ pc[c] = "insert" /\ Goto(c, "unlock") /\ call' = [call EXCEPT ![c].ok = TRUE]
      /\ UNCHANGED <<mu, now, counter, charges, tx, trail, swept, flipped, budgets>>
      /\ customers' \subseteq customers \cup {call[c].id}
      /\ subscriptions' \subseteq subscriptions \cup {call[c].id}
      BY DEF InsertCustomer, InsertSubscription, Inserts, history
<1>2. mu = c /\ Types /\ Recorded /\ call[c].id = counter /\ counter \in Ids
      BY <1>1, HolderIsInside DEF Inside, Minted
<1>3. /\ mu' = c /\ Only(c) /\ Inside(c)'
      /\ pc' \in [Callers -> Places] /\ call' \in [Callers -> Calls \cup {None}]
      BY <1>1, EndsWell
<1>4. Types'
      BY <1>1, <1>2, <1>3 DEF Types, budgets
<1>5. Known'
  <2>1. counter \in 1..counter
        BY <1>2 DEF Ids
  <2> QED BY <1>1, <1>2, <2>1 DEF Recorded, Known, budgets
<1>6. Recorded'
      BY <1>1, <1>2, <1>5 DEF Recorded, LegalTrails, NoDueChargeLeftBehind
<1> QED BY <1>2, <1>3, <1>4, <1>6, HolderGoesOn

\* A new charge.
LEMMA InsertChargeKeeps ==
  ASSUME EngineInv, NEW c \in Callers, InsertCharge(c)
  PROVE  EngineInv'
<1> DEFINE id == call[c].id
           row == NewCharge(call[c].time)
<1>1. /\ pc[c] = "insert" /\ Goto(c, "unlock") /\ call' = [call EXCEPT ![c].ok = TRUE]
      /\ UNCHANGED <<mu, now, counter, customers, subscriptions, tx, swept, flipped, budgets>>
      /\ id \notin DOMAIN charges
      /\ charges' = Extend(charges, id, row) /\ trail' = Extend(trail, id, <<"created">>)
      BY DEF InsertCharge, Inserts, TableOf
<1>2. /\ mu = c /\ Types /\ Recorded /\ id = counter /\ id \in Ids
      /\ call[c] \in Calls
      BY <1>1, HolderIsInside DEF Inside, Minted, AtItsPlace
<1>3. /\ mu' = c /\ Only(c) /\ Inside(c)'
      /\ pc' \in [Callers -> Places] /\ call' \in [Callers -> Calls \cup {None}]
      BY <1>1, EndsWell
<1>4. row \in Charges /\ row.status = "created"
      BY <1>2 DEF NewCharge, Charges, Calls, Types, Statuses
<1> HIDE DEF row
<1>5. /\ DOMAIN charges' = DOMAIN charges \cup {id} /\ charges'[id] = row
      /\ \A i \in DOMAIN charges : charges'[i] = charges[i]
      /\ charges' \in [DOMAIN charges' -> Charges]
  <2> HIDE DEF id
  <2> QED BY <1>1, <1>2, <1>4 DEF Extend, Types
<1>6. /\ trail' \in [DOMAIN charges' -> Seq(Statuses)] /\ trail'[id] = <<"created">>
      /\ \A i \in DOMAIN charges : trail'[i] = trail[i]
  <2>1. <<"created">> \in Seq(Statuses)
        BY DEF Statuses
  <2> HIDE DEF id
  <2> QED BY <1>1, <1>2, <1>5, <2>1 DEF Extend, Types
<1>7. Types'
      BY <1>1, <1>2, <1>3, <1>5, <1>6 DEF Types, budgets
<1>8. Recorded'
  <2>1. Known'
    <3>1. counter \in 1..counter
          BY <1>2 DEF Ids
    <3> QED BY <1>1, <1>2, <1>5, <3>1 DEF Recorded, Known, budgets
  <2>2. NoDueChargeLeftBehind' /\ swept'.ids \subseteq DOMAIN charges'
        BY <1>1, <1>2, <1>5 DEF Recorded, NoDueChargeLeftBehind
  <2>3. Legal(<<"created">>)
        BY DEF Legal, Statuses
  <2>4. \A i \in DOMAIN charges' :
          Legal(trail'[i]) /\ trail'[i][Len(trail'[i])] = charges'[i].status
    <3> SUFFICES ASSUME NEW i \in DOMAIN charges'
                 PROVE  Legal(trail'[i]) /\ trail'[i][Len(trail'[i])] = charges'[i].status
        OBVIOUS
    <3>1. CASE i = id
      <4>1. trail'[i] = <<"created">> /\ charges'[i].status = "created"
            BY <1>4, <1>5, <1>6, <3>1
      <4>2. Len(<<"created">>) = 1 /\ <<"created">>[1] = "created"
            OBVIOUS
      <4> QED BY <4>1, <4>2, <2>3
    <3>2. CASE i # id
      <4>1. i \in DOMAIN charges /\ trail'[i] = trail[i] /\ charges'[i] = charges[i]
            BY <1>5, <1>6, <3>2
      <4> QED BY <1>2, <4>1, TrailsAreLegal
    <3> QED BY <3>1, <3>2
  <2> QED BY <2>1, <2>2, <2>4 DEF Recorded, LegalTrails, Legal
<1> QED BY <1>2, <1>3, <1>7, <1>8, HolderGoesOn

\* A status change: the charge is still what the check was made on.
LEMMA UpdateChargeKeeps ==
  ASSUME EngineInv, NEW c \in Callers, UpdateCharge(c)
  PROVE  EngineInv'
<1> DEFINE id == call[c].id
           to == call[c].to
           row == [charges[id] EXCEPT !.status = to, !.updatedAt = now]
<1>1. /\ pc[c] = "update" /\ Goto(c, "unlock") /\ call' = [call EXCEPT ![c].ok = TRUE]
      /\ UNCHANGED <<mu, now, counter, customers, subscriptions, tx, swept, flipped, budgets>>
      /\ charges' = [charges EXCEPT ![id] = row]
      /\ trail' = [trail EXCEPT ![id] = Append(trail[id], to)]
      BY DEF UpdateCharge
<1>2. /\ mu = c /\ Types /\ Recorded /\ id \in DOMAIN charges /\ to \in Statuses
      /\ to \in chargeTransitions[charges[id].status]
      BY <1>1, HolderIsInside DEF Inside, ReadStillTrue, AtItsPlace, CanTransition, Calls
<1>3. /\ mu' = c /\ Only(c) /\ Inside(c)'
      /\ pc' \in [Callers -> Places] /\ call' \in [Callers -> Calls \cup {None}]
      BY <1>1, EndsWell
<1>4. charges[id] \in Charges
      BY <1>2 DEF Types
<1>5. to # "created"
      BY <1>2, <1>4 DEF chargeTransitions, Charges, Statuses
<1>6. row \in Charges /\ row.status = to
  <2> HIDE DEF id, to
  <2> QED BY <1>2, <1>4 DEF Charges, Types
<1> HIDE DEF row
<1>7. /\ DOMAIN charges' = DOMAIN charges /\ charges'[id] = row
      /\ \A i \in DOMAIN charges \ {id} : charges'[i] = charges[i]
      /\ charges' \in [DOMAIN charges' -> Charges]
  <2> HIDE DEF id
  <2> QED BY <1>1, <1>2, <1>6 DEF Types
<1>8. /\ Legal(trail[id]) /\ trail[id][Len(trail[id])] = charges[id].status
      /\ trail[id] \in Seq(Statuses)
      BY <1>2, TrailsAreLegal DEF Types
<1>9. /\ Legal(Append(trail[id], to))
      /\ Append(trail[id], to)[Len(Append(trail[id], to))] = to
  <2> HIDE DEF id, to
  <2> QED BY <1>2, <1>8, LongerTrail
<1>10. /\ trail' \in [DOMAIN charges' -> Seq(Statuses)]
       /\ trail'[id] = Append(trail[id], to)
       /\ \A i \in DOMAIN charges \ {id} : trail'[i] = trail[i]
  <2>1. Append(trail[id], to) \in Seq(Statuses)
        BY <1>9 DEF Legal
  <2> HIDE DEF id, to
  <2> QED BY <1>1, <1>2, <1>7, <2>1 DEF Types
<1>11. Types'
       BY <1>1, <1>2, <1>3, <1>7, <1>10 DEF Types, budgets
<1>12. Recorded'
  <2>1. Known'
        BY <1>1, <1>2, <1>7 DEF Recorded, Known, budgets
  <2>2. NoDueChargeLeftBehind' /\ swept'.ids \subseteq DOMAIN charges'
    <3> HIDE DEF id, to
    <3> QED BY <1>1, <1>2, <1>5, <1>6, <1>7 DEF Recorded, NoDueChargeLeftBehind
  <2>3. \A i \in DOMAIN charges' :
          Legal(trail'[i]) /\ trail'[i][Len(trail'[i])] = charges'[i].status
    <3> SUFFICES ASSUME NEW i \in DOMAIN charges'
                 PROVE  Legal(trail'[i]) /\ trail'[i][Len(trail'[i])] = charges'[i].status
        OBVIOUS
    <3>1. CASE i = id
          BY <1>6, <1>7, <1>9, <1>10, <3>1
    <3>2. CASE i # id
      <4>1. i \in DOMAIN charges /\ trail'[i] = trail[i] /\ charges'[i] = charges[i]
            BY <1>7, <1>10, <3>2
      <4> QED BY <1>2, <4>1, TrailsAreLegal
    <3> QED BY <3>1, <3>2
  <2> QED BY <2>1, <2>2, <2>3 DEF Recorded, LegalTrails, Legal
<1> QED BY <1>2, <1>3, <1>11, <1>12, HolderGoesOn

\* The batch takes effect: what was due is overdue, and nothing else changed.
LEMMA CommitMakesOverdue ==
  ASSUME EngineInv, NEW c \in Callers, Commit(c)
  PROVE  LET t == call[c].time IN
         LET due == DueBy(t) IN
         /\ call[c].due = due /\ due \subseteq DOMAIN charges /\ t \in Times
         /\ charges' = Flip(due, t)
         /\ charges' \in [DOMAIN charges -> Charges] /\ DOMAIN charges' = DOMAIN charges
         /\ \A id \in DOMAIN charges : charges'[id].due = charges[id].due
         /\ \A id \in due : charges'[id].status = "overdue" /\ charges[id].status = "created"
         /\ \A id \in DOMAIN charges \ due : charges'[id] = charges[id]
         /\ Changed(charges, tx) = due
<1> DEFINE t == call[c].time
           due == DueBy(t)
<1>1. pc[c] = "commit" /\ charges' = tx /\ Types /\ Inside(c)
      BY HolderIsInside DEF Commit
<1>2. call[c].due = due /\ t \in Times /\ call[c].left = {} /\ call[c].due \ {} = due
      BY <1>1 DEF Inside, Batch, AtItsPlace, Calls
<1>3. tx = Flip(due, t)
      BY <1>1, <1>2 DEF Inside, Batch
<1>4. due \subseteq DOMAIN charges /\ \A id \in due : charges[id].status = "created"
      BY DEF DueBy
<1> HIDE DEF due, t
<1>5. /\ tx \in [DOMAIN charges -> Charges] /\ DOMAIN tx = DOMAIN charges
      /\ \A id \in due : tx[id] = Overdue(charges[id], t)
      /\ \A id \in DOMAIN charges \ due : tx[id] = charges[id]
      BY <1>1, <1>2, <1>3, <1>4, FlipIsTable
<1>6. \A id \in due : /\ tx[id].status = "overdue" /\ tx[id].due = charges[id].due
      BY <1>1, <1>2, <1>4, <1>5, OverdueRow DEF Types
<1>7. Changed(charges, tx) = due
      BY <1>4, <1>5, <1>6 DEF Changed
<1>8. \A id \in DOMAIN charges : charges'[id].due = charges[id].due
      BY <1>1, <1>5, <1>6
<1>9. /\ call[c].due = due /\ due \subseteq DOMAIN charges /\ t \in Times
      /\ charges' = Flip(due, t)
      /\ charges' \in [DOMAIN charges -> Charges] /\ DOMAIN charges' = DOMAIN charges
      /\ \A id \in DOMAIN charges : charges'[id].due = charges[id].due
      /\ \A id \in due : charges'[id].status = "overdue" /\ charges[id].status = "created"
      /\ \A id \in DOMAIN charges \ due : charges'[id] = charges[id]
      /\ Changed(charges, tx) = due
      BY <1>1, <1>2, <1>3, <1>4, <1>5, <1>6, <1>7, <1>8
<1> QED BY <1>9 DEF due, t

\* The commit keeps the invariant; the clock has not moved yet.
LEMMA CommitKeeps ==
  ASSUME EngineInv, NEW c \in Callers, Commit(c)
  PROVE  EngineInv'
<1> DEFINE t == call[c].time
           due == DueBy(t)
<1>1. pc[c] = "commit" /\ mu = c /\ Types /\ Inside(c) /\ Recorded
      BY HolderIsInside DEF Commit
<1>2. /\ call[c] \in Calls /\ call[c].op = "advance" /\ ~call[c].ok
      /\ t = now + call[c].by /\ t \in Times
      BY <1>1 DEF Inside, AtItsPlace, Batch, Report, Calls
<1>3. /\ call[c].due = due /\ due \subseteq DOMAIN charges
      /\ charges' \in [DOMAIN charges -> Charges] /\ DOMAIN charges' = DOMAIN charges
      /\ \A id \in DOMAIN charges : charges'[id].due = charges[id].due
      /\ \A id \in due : charges'[id].status = "overdue" /\ charges[id].status = "created"
      /\ \A id \in DOMAIN charges \ due : charges'[id] = charges[id]
      /\ Changed(charges, tx) = due
      BY CommitMakesOverdue
<1>4. /\ UNCHANGED <<mu, now, counter, customers, subscriptions, call, swept, budgets>>
      /\ charges' = tx /\ tx' = None /\ Goto(c, "moveClock")
      BY DEF Commit
<1>5. DueBy(call[c].time)' = {}
  <2>1. DueBy(t)' = {id \in DOMAIN charges' :
                       charges'[id].status = "created" /\ charges'[id].due <= t}
        BY <1>4 DEF DueBy
  <2>2. \A id \in DOMAIN charges \ due :
          ~(charges[id].status = "created" /\ charges[id].due <= t)
        BY DEF DueBy
  <2>3. (call[c].time)' = t
        BY <1>4
  <2> HIDE DEF due, t
  <2>4. {id \in DOMAIN charges' :
           charges'[id].status = "created" /\ charges'[id].due <= t} = {}
        BY <1>3, <2>2
  <2> QED BY <2>1, <2>3, <2>4 DEF t
<1> HIDE DEF due
<1>6. flipped' = [flipped EXCEPT ![c] = due]
      BY <1>3 DEF Commit
<1>7. /\ pc' \in [Callers -> Places] /\ pc'[c] = "moveClock"
      /\ \A d \in Callers \ {c} : pc'[d] = pc[d]
      BY <1>1, <1>4, GotoMoves DEF Places
<1>8. Only(c) /\ flipped'[c] = due
      BY <1>1, <1>4, <1>6, <1>7 DEF Only, Types
<1>9. \A id \in due : /\ Legal(Append(trail[id], "overdue"))
                      /\ Append(trail[id], "overdue")[Len(Append(trail[id], "overdue"))] = "overdue"
  <2> SUFFICES ASSUME NEW id \in due
               PROVE  /\ Legal(Append(trail[id], "overdue"))
                      /\ Append(trail[id], "overdue")[Len(Append(trail[id], "overdue"))] = "overdue"
      OBVIOUS
  <2>1. Legal(trail[id]) /\ trail[id][Len(trail[id])] = "created"
        BY <1>1, <1>3, TrailsAreLegal
  <2>2. "overdue" \in chargeTransitions["created"] /\ "overdue" \in Statuses
        BY DEF chargeTransitions, Statuses
  <2> QED BY <2>1, <2>2, LongerTrail
<1>10. /\ DOMAIN trail' = DOMAIN charges'
       /\ \A id \in due : trail'[id] = Append(trail[id], "overdue")
       /\ \A id \in DOMAIN charges \ due : trail'[id] = trail[id]
       /\ trail' = [id \in DOMAIN charges' |-> trail'[id]]
  <2>1. trail' = [id \in DOMAIN trail |->
                    IF id \in due THEN Append(trail[id], charges'[id].status) ELSE trail[id]]
        BY <1>3, <1>4 DEF Commit
  <2>2. DOMAIN trail = DOMAIN charges
        BY <1>1 DEF Types
  <2> QED BY <1>3, <2>1, <2>2
<1>11. \A id \in DOMAIN charges' :
          Legal(trail'[id]) /\ trail'[id][Len(trail'[id])] = charges'[id].status
  <2> SUFFICES ASSUME NEW id \in DOMAIN charges'
               PROVE  Legal(trail'[id]) /\ trail'[id][Len(trail'[id])] = charges'[id].status
      OBVIOUS
  <2>1. CASE id \in due
        BY <1>3, <1>9, <1>10, <2>1
  <2>2. CASE id \notin due
    <3>1. id \in DOMAIN charges /\ trail'[id] = trail[id] /\ charges'[id] = charges[id]
          BY <1>3, <1>10, <2>2
    <3> QED BY <1>1, <3>1, TrailsAreLegal
  <2> QED BY <2>1, <2>2
<1>12. trail' \in [DOMAIN charges' -> Seq(Statuses)]
  <2>1. \A id \in DOMAIN charges' : trail'[id] \in Seq(Statuses)
        BY <1>11 DEF Legal
  <2> QED BY <1>10, <2>1
<1>13. Types'
  <2>1. flipped' \in [Callers -> SUBSET Ids]
        BY <1>1, <1>3, <1>6 DEF Types
  <2> QED BY <1>1, <1>3, <1>4, <1>7, <1>12, <2>1 DEF Types, budgets
<1>14. Inside(c)'
  <2> USE <1>1, <1>2, <1>3, <1>4, <1>7, <1>8 DEF Inside
  <2>1. AtItsPlace(c)'    BY DEF AtItsPlace
  <2>2. Minted(c)'        BY DEF Minted
  <2>3. ReadStillTrue(c)' BY DEF ReadStillTrue
  <2>4. Batch(c)'         BY <1>5 DEF Batch
  <2>5. Report(c)'        BY DEF Report
  <2> QED BY <2>1, <2>2, <2>3, <2>4, <2>5
<1>15. Recorded'
  <2>1. Known'
        BY <1>1, <1>3, <1>4 DEF Recorded, Known, budgets
  <2>2. NoDueChargeLeftBehind' /\ swept'.ids \subseteq DOMAIN charges'
        BY <1>1, <1>3, <1>4 DEF Recorded, NoDueChargeLeftBehind
  <2> QED BY <1>11, <2>1, <2>2 DEF Recorded, LegalTrails, Legal
<1> QED BY <1>1, <1>4, <1>8, <1>13, <1>14, <1>15, HolderGoesOn

\* The clock moves: by then no unpaid charge is due.
LEMMA MoveClockKeeps ==
  ASSUME EngineInv, NEW c \in Callers, MoveClock(c)
  PROVE  EngineInv'
<1> DEFINE k == [call[c] EXCEPT !.ok = TRUE]
           t == call[c].time
<1>1. pc[c] = "moveClock" /\ mu = c /\ Types /\ Inside(c) /\ Recorded
      BY HolderIsInside DEF MoveClock
<1>2. /\ call[c] \in Calls /\ call[c].op = "advance" /\ tx = None
      /\ t = now + call[c].by /\ t \in Times /\ DueBy(t) = {}
      /\ flipped[c] = call[c].due
      BY <1>1 DEF Inside, AtItsPlace, Batch, Report, Calls
<1>3. /\ now' = t /\ swept' = [asOf |-> t, ids |-> DOMAIN charges]
      /\ call' = [call EXCEPT ![c] = k] /\ Goto(c, "unlock")
      /\ UNCHANGED <<mu, counter, tables, tx, trail, flipped, budgets>>
      BY <1>2 DEF MoveClock, Advanced
<1>4. k \in Calls
      BY <1>2, CallFields
<1>5. k.ok /\ k.due = call[c].due /\ k.op = "advance"
      BY <1>2 DEF Calls
<1>6. call'[c] = k /\ call' \in [Callers -> Calls \cup {None}]
      BY <1>1, <1>3, <1>4 DEF Types
<1> HIDE DEF k, t
<1>7. /\ pc' \in [Callers -> Places] /\ pc'[c] = "unlock"
      /\ \A d \in Callers \ {c} : pc'[d] = pc[d]
      BY <1>1, <1>3, GotoMoves DEF Places
<1>8. Only(c)
      BY <1>1, <1>3, <1>6, <1>7 DEF Only, Types
<1>9. Types'
      BY <1>1, <1>2, <1>3, <1>6, <1>7 DEF Types, tables, budgets
<1>10. Inside(c)'
  <2> USE <1>1, <1>2, <1>3, <1>4, <1>5, <1>6, <1>7 DEF Inside
  <2>1. AtItsPlace(c)'    BY DEF AtItsPlace
  <2>2. Minted(c)'        BY DEF Minted
  <2>3. ReadStillTrue(c)' BY DEF ReadStillTrue
  <2>4. Batch(c)'         BY DEF Batch
  <2>5. Report(c)'        BY DEF Report
  <2> QED BY <2>1, <2>2, <2>3, <2>4, <2>5
<1>11. NoDueChargeLeftBehind'
  <2> SUFFICES ASSUME NEW id \in DOMAIN charges, charges[id].status = "created"
               PROVE  charges[id].due > t
      BY <1>3 DEF NoDueChargeLeftBehind, tables
  <2>1. ~(charges[id].due <= t)
        BY <1>2 DEF DueBy
  <2>2. charges[id].due \in Int /\ t \in Int
        BY <1>1, <1>2, EngineAssumption DEF Types, Charges
  <2> QED BY <2>1, <2>2
<1>12. Recorded'
      BY <1>1, <1>3, <1>11 DEF Recorded, Known, LegalTrails, tables, budgets
<1> QED BY <1>1, <1>3, <1>8, <1>9, <1>10, <1>12, HolderGoesOn

-----------------------------------------------------------------------------
(* Entering, leaving, restarting *)

\* The deferred unlock leaves nothing behind.
LEMMA ReturnKeeps ==
  ASSUME EngineInv, NEW c \in Callers, Return(c)
  PROVE  EngineInv'
<1> USE DEF Return
<1>1. pc[c] = "unlock" /\ mu = c /\ Types /\ Inside(c) /\ Recorded /\ Excluded
      BY HolderIsInside
<1>2. tx = None
      BY <1>1 DEF Inside, Batch
<1>3. /\ pc' = [pc EXCEPT ![c] = "idle"] /\ call' = [call EXCEPT ![c] = None]
      /\ flipped' = [flipped EXCEPT ![c] = {}]
      BY DEF Goto
<1>4. Excluded'
      BY <1>1, <1>2, <1>3 DEF Excluded, Quiet, Types
<1>5. Types'
      BY <1>1, <1>3 DEF Types, tables, budgets, Places
<1>6. Recorded'
      BY <1>1, TablesAlone DEF budgets
<1> QED BY <1>4, <1>5, <1>6 DEF EngineInv

\* Whoever begins is alone; an operation that mints an id finds one to mint.
LEMMA BeginKeeps ==
  ASSUME EngineInv, NEW c \in Callers, NEW request \in Calls, Begin(c, request),
         ~request.ok, request.op \in Minting => IdsLeft
  PROVE  EngineInv'
<1> DEFINE place == FirstStep(request.op)
<1>1. /\ mu = None /\ Types /\ Recorded /\ Excluded
      /\ mu' = c /\ call' = [call EXCEPT ![c] = request] /\ Goto(c, place)
      /\ UNCHANGED <<now, counter, tables, tx, history, budgets>>
      BY DEF Begin, Unlocked, EngineInv
<1>2. /\ \A d \in Callers : Quiet(d)
      /\ tx = None /\ Cardinality(Unminted) = 0
      BY <1>1, FreeMeansOutside
<1>3. request.op \in Minting => counter < MaxId
      BY <1>1, <1>2 DEF Types, IdsLeft
<1>4. request.op \in Operations
      BY DEF Calls
<1>5. /\ place \in {"get", "mint", "list"}
      /\ place = "get" => request.op \in {"charge", "subscription", "transition"}
      /\ place = "mint" => request.op \in Minting
      /\ place = "list" => request.op = "advance"
      /\ request.op = "advance" => place = "list"
      BY <1>4 DEF FirstStep, Operations, Minting, Creating
<1> HIDE DEF place
<1>6. /\ pc' \in [Callers -> Places] /\ pc'[c] = place
      /\ \A d \in Callers \ {c} : pc'[d] = pc[d]
      BY <1>1, <1>5, GotoMoves DEF Places
<1>7. call'[c] = request /\ \A d \in Callers \ {c} : call'[d] = call[d]
      BY <1>1 DEF Types
<1>8. flipped' = flipped /\ flipped'[c] = {}
      BY <1>1, <1>2 DEF history, Quiet
<1>9. Excluded'
      BY <1>1, <1>2, <1>6, <1>7, <1>8, EngineAssumption DEF Excluded, Quiet
<1>10. Types'
      BY <1>1, <1>6 DEF Types, tables, history, budgets
<1>11. Recorded'
      BY <1>1, TablesAlone DEF budgets, history
<1>12. Inside(c)'
  <2> USE <1>1, <1>2, <1>5, <1>6, <1>7, <1>8 DEF Inside
  <2>1. AtItsPlace(c)'    BY DEF AtItsPlace
  <2>2. Minted(c)'        BY <1>3 DEF Minted
  <2>3. ReadStillTrue(c)' BY DEF ReadStillTrue
  <2>4. Batch(c)'         BY DEF Batch
  <2>5. Report(c)'        BY DEF Report
  <2> QED BY <2>1, <2>2, <2>3, <2>4, <2>5
<1> QED BY <1>1, <1>9, <1>10, <1>11, <1>12 DEF EngineInv

\* Every operation starts with a request of its own kind.
LEMMA StartsARequest ==
  ASSUME EngineInv, NEW c \in Callers, Start(c)
  PROVE  \E request \in Calls :
           /\ Begin(c, request) /\ ~request.ok
           /\ request.op \in Minting => IdsLeft
<1>1. now \in Times /\ MaxId \in Nat
      BY EngineAssumption DEF EngineInv, Types
<1>2. \A op \in Operations, id \in Ids \cup {0}, time \in Times, to \in Statuses :
        /\ Request(op, id, time, to) \in Calls /\ ~Request(op, id, time, to).ok
        /\ Request(op, id, time, to).op = op
      BY <1>1 DEF Request, Calls, Ids
<1>3. /\ {"id", "customer", "subscription", "charge", "transition", "advance"} \subseteq Operations
      /\ "created" \in Statuses /\ {"transition", "advance"} \cap Minting = {}
      BY DEF Operations, Minting, Creating, Statuses
<1>4. PICK op \in Operations, id \in Ids \cup {0}, time \in Times, to \in Statuses :
        Begin(c, Request(op, id, time, to)) /\ (op \in Minting => IdsLeft)
      BY <1>1, <1>3 DEF Start, NextID, CreateCustomer, CreateSubscription,
                        AdvanceClock, CreateCharge, TransitionCharge
<1> QED BY <1>2, <1>4

\* After a restart everybody is outside and, in memory, nothing is stored.
LEMMA RestartKeeps ==
  ASSUME EngineInv, Restart
  PROVE  EngineInv'
<1> USE DEF Restart
<1>1. Types /\ Recorded
      BY DEF EngineInv
<1>2. restarts' \in 1..MaxRestarts
  <2>1. restarts \in 0..MaxRestarts /\ restarts < MaxRestarts /\ restarts' = restarts + 1
        BY <1>1 DEF Types
  <2> QED BY <2>1, EngineAssumption
<1>3. \/ UNCHANGED <<tables, trail>>
      \/ customers' = {} /\ subscriptions' = {} /\ charges' = Empty /\ trail' = Empty
      OBVIOUS
<1>4. Excluded'
      BY DEF Excluded, Quiet
<1>5. Types'
  <2>1. 0 \in 0..MaxId /\ restarts' \in 0..MaxRestarts
        BY <1>2, EngineAssumption
  <2>2. /\ customers' \subseteq Ids /\ subscriptions' \subseteq Ids
        /\ DOMAIN charges' \subseteq Ids /\ charges' \in [DOMAIN charges' -> Charges]
        /\ trail' \in [DOMAIN charges' -> Seq(Statuses)]
        BY <1>1, <1>3 DEF Types, tables, Empty
  <2>3. /\ pc' \in [Callers -> Places] /\ call' \in [Callers -> Calls \cup {None}]
        /\ flipped' \in [Callers -> SUBSET Ids]
        /\ swept' \in [asOf : Times, ids : SUBSET Ids]
        BY DEF Places
  <2> QED BY <1>1, <2>1, <2>2, <2>3 DEF Types
<1>6. Recorded'
  <2>1. Known'
        BY <1>2 DEF Known
  <2>2. NoDueChargeLeftBehind' /\ swept'.ids \subseteq DOMAIN charges'
        BY DEF NoDueChargeLeftBehind
  <2>3. LegalTrails' /\ \A id \in DOMAIN charges' : Len(trail'[id]) >= 1
        BY <1>1, <1>3 DEF Recorded, LegalTrails, tables, Empty
  <2> QED BY <2>1, <2>2, <2>3 DEF Recorded
<1> QED BY <1>4, <1>5, <1>6 DEF EngineInv

\* At the start everybody is outside and nothing is stored.
LEMMA InitEstablishes == Init => EngineInv
<1> SUFFICES ASSUME Init PROVE EngineInv
    OBVIOUS
<1> USE DEF Init
<1>1. Excluded
      BY DEF Excluded, Quiet
<1>2. Types
      BY EngineAssumption DEF Types, Places, Empty
<1>3. Recorded
      BY DEF Recorded, Known, LegalTrails, NoDueChargeLeftBehind, Empty
<1> QED BY <1>1, <1>2, <1>3 DEF EngineInv

-----------------------------------------------------------------------------
(* The invariant, and what follows from it *)

\* Every step of a call under way keeps the invariant.
LEMMA StepKeeps ==
  ASSUME EngineInv, NEW c \in Callers, Step(c)
  PROVE  EngineInv'
BY ReturnKeeps, FailBeforeKeeps, GetCustomerKeeps, MintKeeps, InsertCollidesKeeps,
   InsertKeyKeeps, InsertChargeKeeps, GetChargeKeeps, UpdateChargeKeeps,
   ListDueKeeps, BeginTxKeeps, ExecKeeps, ExecFailsKeeps, RollbackKeeps,
   CommitKeeps, MoveClockKeeps DEF Step

\* Every step of the engine keeps the invariant.
LEMMA NextKeeps == EngineInv /\ [Next]_vars => EngineInv'
<1> SUFFICES ASSUME EngineInv, [Next]_vars PROVE EngineInv'
    OBVIOUS
<1>1. CASE Restart
      BY <1>1, RestartKeeps
<1>2. ASSUME NEW c \in Callers, Start(c) PROVE EngineInv'
      BY <1>2, StartsARequest, BeginKeeps
<1>3. ASSUME NEW c \in Callers, Step(c) PROVE EngineInv'
      BY <1>3, StepKeeps
<1>4. CASE UNCHANGED vars
  <2>1. UNCHANGED <<mu, now, counter, customers, subscriptions, charges, tx, pc,
                    call, trail, swept, flipped, failures, restarts>>
        BY <1>4 DEF vars, tables, history, budgets
  <2>2. Types' /\ Excluded' /\ Recorded'
        BY <2>1 DEF EngineInv, Types, Excluded, Quiet, Recorded, Known,
                    LegalTrails, NoDueChargeLeftBehind
  <2>3. ASSUME mu # None PROVE Inside(mu)'
    <3>1. mu' = mu /\ Inside(mu)
          BY <2>1, <2>3 DEF EngineInv
    <3>2. DueBy(call[mu].time)' = DueBy(call[mu].time)
          /\ Flip(call[mu].due \ call[mu].left, call[mu].time)'
               = Flip(call[mu].due \ call[mu].left, call[mu].time)
          BY <2>1 DEF DueBy, Flip
    <3> QED BY <2>1, <3>1, <3>2 DEF Inside, AtItsPlace, Minted, ReadStillTrue,
                                    Batch, Report
  <2> QED BY <2>1, <2>2, <2>3 DEF EngineInv
<1> QED BY <1>1, <1>2, <1>3, <1>4 DEF Next

\* The inductive invariant holds in every reachable state.
THEOREM Invariance == Spec => []EngineInv
<1> QED BY InitEstablishes, NextKeeps, PTL DEF Spec

\* What the invariant says of a state, in the words of Engine.
LEMMA InvImplies ==
  EngineInv => /\ TypeOK /\ LegalTrails /\ NoDueChargeLeftBehind
               /\ ReportMatchesDatabase /\ NoConnectionLeak /\ FreshUntilReopened
<1> SUFFICES ASSUME EngineInv
             PROVE  /\ TypeOK /\ LegalTrails /\ NoDueChargeLeftBehind
                    /\ ReportMatchesDatabase /\ NoConnectionLeak /\ FreshUntilReopened
    OBVIOUS
<1>1. Types /\ Excluded /\ Recorded
      BY DEF EngineInv
<1>2. TypeOK
  <2>1. tx # None => DOMAIN tx = DOMAIN charges /\ \A id \in DOMAIN tx : tx[id] \in Charges
    <3> SUFFICES ASSUME tx # None
                 PROVE  DOMAIN tx = DOMAIN charges /\ \A id \in DOMAIN tx : tx[id] \in Charges
        OBVIOUS
    <3>1. mu \in Callers /\ Inside(mu)
          BY <1>1 DEF EngineInv, Excluded, Types
    <3>2. CASE pc[mu] = "rollback"
          BY <3>1, <3>2 DEF Inside, Batch
    <3>3. CASE pc[mu] \in {"exec", "commit"}
      <4>1. tx = Flip(call[mu].due \ call[mu].left, call[mu].time) /\ call[mu].time \in Times
            BY <3>1, <3>3 DEF Inside, Batch, AtItsPlace, Calls
      <4> QED BY <1>1, <4>1, FlipIsTable
    <3> QED BY <3>1, <3>2, <3>3 DEF Inside, Batch
  <2> QED BY <1>1, <2>1 DEF Types, TypeOK
<1>3. \A c \in Callers : pc[c] # "idle" => mu = c /\ Inside(c)
      BY HolderIsInside
<1>4. ReportMatchesDatabase
      BY <1>3 DEF ReportMatchesDatabase, Inside, Report
<1>5. FreshUntilReopened
  <2> SUFFICES ASSUME restarts = 0, NEW c \in Callers, pc[c] = "insert"
               PROVE  call[c].id \notin TableOf(call[c].op)
      BY DEF FreshUntilReopened, FreshIds
  <2>1. Minted(c) /\ call[c].op \in Creating
        BY <1>3 DEF Inside, AtItsPlace
  <2> QED BY <2>1 DEF Minted, Creating, TableOf
<1> QED BY <1>1, <1>2, <1>4, <1>5 DEF Recorded, Excluded, NoConnectionLeak

\* Every table, transaction, clock and local is of its type: nothing but the
\* rows of charges is ever in a transaction.
THEOREM TypeCorrect == Spec => []TypeOK
<1> QED BY Invariance, InvImplies, PTL

\* No race between callers, failed statement or restart makes a charge move
\* off its lifecycle (charge.go:47-60).
THEOREM TrailsStayLegal == Spec => []LegalTrails
<1> QED BY Invariance, InvImplies, PTL

\* An advance of the clock misses no charge (engine.go:281-284).
THEOREM NoDueChargeIsLeft == Spec => []NoDueChargeLeftBehind
<1> QED BY Invariance, InvImplies, PTL

\* The answer of an advance is what the database did (engine.go:287-292).
THEOREM ReportsAreTrue == Spec => []ReportMatchesDatabase
<1> QED BY Invariance, InvImplies, PTL

\* The one connection is given back on every path (store.go:63-66).
THEOREM ConnectionIsGivenBack == Spec => []NoConnectionLeak
<1> QED BY Invariance, InvImplies, PTL

\* Ids do not collide as long as the process lives (id.go:9-11).
THEOREM IdsAreFresh == Spec => []FreshUntilReopened
<1> QED BY Invariance, InvImplies, PTL

-----------------------------------------------------------------------------
(* The engine implements its ledger *)

\* The time the ledger sees, before and after a step: the clock's, or the
\* target of the advance whose batch is committed.
LEMMA BooksClock ==
  ASSUME EngineInv, NEW c \in Callers, pc[c] # "idle" \/ mu = None,
         NEW place \in Places, Goto(c, place)
  PROVE  /\ BooksTime = IF pc[c] = "moveClock" THEN call[c].time ELSE now
         /\ BooksTime' = IF place = "moveClock" THEN call'[c].time ELSE now'
<1>1. \A d \in Callers \ {c} : pc[d] = "idle"
      BY HolderIsInside, FreeMeansOutside DEF Quiet
<1>2. pc'[c] = place /\ \A d \in Callers \ {c} : pc'[d] = "idle"
      BY <1>1, GotoMoves DEF EngineInv
<1>3. CommittedAdvance = IF pc[c] = "moveClock" THEN {c} ELSE {}
      BY <1>1 DEF CommittedAdvance
<1>4. CommittedAdvance' = IF place = "moveClock" THEN {c} ELSE {}
      BY <1>2 DEF CommittedAdvance
<1>5. (CHOOSE d \in {c} : TRUE) = c /\ {c} # {}
      OBVIOUS
<1> QED BY <1>3, <1>4, <1>5 DEF BooksTime

\* What an engine step may be for the ledger: a step of its own, or none.
OnTheBooks == Books!LedgerNext \/ UNCHANGED <<BooksTime, charges>>

\* Most steps are none: they leave the charges and the clock alone.
LEMMA Unseen ==
  ASSUME EngineInv, NEW c \in Callers, pc[c] # "idle" \/ mu = None,
         pc[c] # "moveClock",
         NEW place \in Places \ {"moveClock"}, Goto(c, place),
         UNCHANGED <<now, charges>>
  PROVE  OnTheBooks
BY BooksClock DEF OnTheBooks

\* A new charge is opened.
LEMMA InsertChargeOpens ==
  ASSUME EngineInv, NEW c \in Callers, InsertCharge(c)
  PROVE  OnTheBooks
<1>1. /\ pc[c] = "insert" /\ Goto(c, "unlock") /\ now' = now
      /\ call[c].id \notin DOMAIN charges
      /\ charges' = Extend(charges, call[c].id, NewCharge(call[c].time))
      BY DEF InsertCharge, Inserts, TableOf
<1>2. call[c].id \in Ids /\ call[c].time \in Times
      BY <1>1, HolderIsInside DEF Inside, Minted, AtItsPlace, Calls
<1>3. BooksTime = now /\ BooksTime' = now
      BY <1>1, BooksClock DEF Places
<1>4. Books!Open(call[c].id, call[c].time)
      BY <1>1, <1>3 DEF Books!Open, Extend, NewCharge
<1> QED BY <1>2, <1>4 DEF OnTheBooks, Books!LedgerNext

\* A charge moves.
LEMMA UpdateChargeMoves ==
  ASSUME EngineInv, NEW c \in Callers, UpdateCharge(c)
  PROVE  OnTheBooks
<1>1. /\ pc[c] = "update" /\ Goto(c, "unlock") /\ now' = now
      /\ charges' = [charges EXCEPT ![call[c].id].status = call[c].to,
                                    ![call[c].id].updatedAt = now]
      BY DEF UpdateCharge
<1>2. /\ call[c].id \in Ids /\ call[c].id \in DOMAIN charges /\ call[c].to \in Statuses
      /\ call[c].to \in chargeTransitions[charges[call[c].id].status]
      BY <1>1, HolderIsInside DEF Inside, ReadStillTrue, CanTransition, AtItsPlace,
                                  Calls, Types
<1>3. BooksTime = now /\ BooksTime' = now
      BY <1>1, BooksClock DEF Places
<1>4. Books!Move(call[c].id, call[c].to) /\ call[c].to \in Books!Statuses
      BY <1>1, <1>2, <1>3 DEF Books!Move, Books!Allowed, Books!Statuses,
                              chargeTransitions, Statuses
<1> QED BY <1>2, <1>4 DEF OnTheBooks, Books!LedgerNext

\* An advance that finds nothing due is over, for the ledger, when it has looked.
LEMMA ListDueAdvances ==
  ASSUME EngineInv, NEW c \in Callers, ListDue(c)
  PROVE  OnTheBooks
<1>1. /\ pc[c] = "list" /\ now' = now /\ charges' = charges
      /\ Types /\ call \in [Callers -> Calls \cup {None}] /\ call[c] \in Calls
      BY HolderIsInside DEF ListDue, tables, Types, Inside, AtItsPlace
<1>2. PICK d \in Durations :
        /\ now + d \in Times
        /\ call' = [call EXCEPT ![c].by = d, ![c].time = now + d,
                                ![c].due = DueBy(now + d),
                                ![c].left = DueBy(now + d)]
        /\ Goto(c, IF DueBy(now + d) = {} THEN "moveClock" ELSE "begin")
      BY DEF ListDue
<1> DEFINE t == now + d
           due == DueBy(t)
<1>3. CASE due = {}
  <2>1. call'[c].time = t
        BY <1>1, <1>2 DEF Calls
  <2>2. Goto(c, "moveClock") /\ BooksTime' = t
        BY <1>1, <1>2, <1>3, <2>1, BooksClock DEF Places
  <2>3. charges = [id \in DOMAIN charges |->
                     IF charges[id].status = "created" /\ charges[id].due <= t
                     THEN [charges[id] EXCEPT !.status = "overdue", !.updatedAt = t]
                     ELSE charges[id]]
        BY <1>1, <1>3 DEF DueBy, Types
  <2>4. Books!Advance(t)
        BY <1>1, <2>2, <2>3 DEF Books!Advance
  <2> QED BY <1>2, <2>4 DEF OnTheBooks, Books!LedgerNext
<1>4. CASE due # {}
  <2>1. Goto(c, "begin")
        BY <1>2, <1>4
  <2> QED BY <1>1, <2>1, Unseen DEF Places
<1> QED BY <1>3, <1>4

\* For the ledger the clock moves with the commit of the batch.
LEMMA CommitAdvances ==
  ASSUME EngineInv, NEW c \in Callers, Commit(c)
  PROVE  OnTheBooks
<1> DEFINE t == call[c].time
<1>1. /\ charges' = Flip(DueBy(t), t) /\ t \in Times
      BY CommitMakesOverdue
<1>2. pc[c] = "commit" /\ Goto(c, "moveClock") /\ call' = call
      BY DEF Commit
<1>3. BooksTime' = t
      BY <1>2, BooksClock DEF Places
<1> HIDE DEF t
<1>4. charges' = [id \in DOMAIN charges |->
                    IF charges[id].status = "created" /\ charges[id].due <= t
                    THEN [charges[id] EXCEPT !.status = "overdue", !.updatedAt = t]
                    ELSE charges[id]]
      BY <1>1 DEF Flip, DueBy, Overdue
<1>5. Books!Advance(t)
      BY <1>3, <1>4 DEF Books!Advance
<1> QED BY <1>1, <1>5 DEF OnTheBooks, Books!LedgerNext

\* When the clock does move, the ledger has seen it already.
LEMMA MoveClockIsLate ==
  ASSUME EngineInv, NEW c \in Callers, MoveClock(c)
  PROVE  OnTheBooks
<1>1. /\ pc[c] = "moveClock" /\ Goto(c, "unlock") /\ charges' = charges
      /\ now' = now + call[c].by
      BY DEF MoveClock, Advanced, tables
<1>2. call[c].time = now + call[c].by
      BY <1>1, HolderIsInside DEF Inside, Batch
<1> QED BY <1>1, <1>2, BooksClock DEF OnTheBooks, Places

\* Every step of a call under way is a step of the ledger or none.
LEMMA StepOnTheBooks ==
  ASSUME EngineInv, NEW c \in Callers, Step(c)
  PROVE  OnTheBooks
<1> DEFINE Quietly == /\ pc[c] \notin {"idle", "moveClock"} /\ UNCHANGED <<now, charges>>
                      /\ \E place \in Places \ {"moveClock"} : Goto(c, place)
<1>1. CASE Quietly
      BY <1>1, Unseen
<1>2. \/ Quietly
      \/ InsertCharge(c) \/ UpdateCharge(c) \/ ListDue(c) \/ Commit(c) \/ MoveClock(c)
  <2> USE DEF tables, Places
  <2>1. Return(c) => Quietly   BY DEF Return
  <2>2. FailBefore(c, {"get", "insert", "update", "list", "begin"}) => Quietly
        BY DEF FailBefore
  <2>3. GetCustomer(c) => Quietly   BY DEF GetCustomer
  <2>4. Mint(c) => Quietly   BY DEF Mint
  <2>5. InsertCollides(c) => Quietly   BY DEF InsertCollides
  <2>6. InsertCustomer(c) => Quietly   BY DEF InsertCustomer, Inserts
  <2>7. InsertSubscription(c) => Quietly   BY DEF InsertSubscription, Inserts
  <2>8. GetCharge(c) => Quietly   BY DEF GetCharge
  <2>9. BeginTx(c) => Quietly   BY DEF BeginTx
  <2>10. Exec(c) => Quietly   BY DEF Exec
  <2>11. ExecFails(c) => Quietly   BY DEF ExecFails
  <2>12. Rollback(c) => Quietly   BY DEF Rollback
  <2>13. CommitFails(c) => Quietly   BY DEF CommitFails
  <2> HIDE DEF Quietly
  <2> QED BY <2>1, <2>2, <2>3, <2>4, <2>5, <2>6, <2>7, <2>8, <2>9, <2>10,
             <2>11, <2>12, <2>13 DEF Step
<1> HIDE DEF Quietly
<1> QED BY <1>1, <1>2, InsertChargeOpens, UpdateChargeMoves, ListDueAdvances,
           CommitAdvances, MoveClockIsLate

\* A call that begins is nothing to the ledger yet.
LEMMA StartOnTheBooks ==
  ASSUME EngineInv, NEW c \in Callers, Start(c)
  PROVE  OnTheBooks
<1>1. PICK request \in Calls : Begin(c, request)
      BY StartsARequest
<1>2. FirstStep(request.op) \in Places \ {"moveClock"}
      BY DEF FirstStep, Calls, Operations, Minting, Creating, Places
<1> QED BY <1>1, <1>2, Unseen DEF Begin, Unlocked, tables

\* A restart reopens the ledger.
LEMMA RestartReopens ==
  ASSUME EngineInv, Restart
  PROVE  OnTheBooks
<1>1. CommittedAdvance' = {}
      BY DEF Restart, CommittedAdvance
<1>2. BooksTime' = now' /\ now' \in Times
      BY <1>1 DEF BooksTime, Restart
<1>3. Books!Reopen
      BY <1>2 DEF Books!Reopen, Restart, tables, Empty
<1> QED BY <1>3 DEF OnTheBooks, Books!LedgerNext

\* The engine implements its ledger: whatever its callers interleave,
\* whatever fails and wherever the process stops, its charges and its clock
\* change as if every operation were indivisible (engine.go:281-327).
THEOREM EngineImplementsLedger == Spec => RefinesLedger
<1>1. Init => Books!LedgerInit
  <2> SUFFICES ASSUME Init PROVE Books!LedgerInit
      OBVIOUS
  <2>1. CommittedAdvance = {}
        BY DEF Init, CommittedAdvance
  <2> QED BY <2>1 DEF Init, Books!LedgerInit, BooksTime, Empty
<1>2. EngineInv /\ [Next]_vars => [Books!LedgerNext]_<<BooksTime, charges>>
  <2> SUFFICES ASSUME EngineInv, [Next]_vars PROVE OnTheBooks
      BY DEF OnTheBooks
  <2>1. CASE UNCHANGED vars
        BY <2>1 DEF OnTheBooks, vars, tables, BooksTime, CommittedAdvance
  <2> QED BY <2>1, StepOnTheBooks, StartOnTheBooks, RestartReopens DEF Next
<1> QED BY <1>1, <1>2, Invariance, PTL DEF Spec, RefinesLedger, Books!LedgerSpec
=============================================================================
