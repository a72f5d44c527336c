--------------------------- MODULE CalendarProofs ---------------------------
(***************************************************************************)
(* Proofs about Calendar.  The order of texts comes first: for instants    *)
(* with a year of four digits it is the order of time.  CalendarInv then   *)
(* ties every row's due date, which is text, to the instant that was asked *)
(* for, and Legible says which rows have text that parses.                 *)
(* The amounts come last, for every width of the significand that leaves   *)
(* an amount two bits: what is defined by recursion is out of the provers' *)
(* reach, but powers of two are not: FS_SUBSET counts them, and induction  *)
(* is the choice of a least counterexample.                                *)
(***************************************************************************)
EXTENDS Calendar, FiniteSets, SequenceTheorems, FiniteSetTheorems,
        FunctionTheorems, WellFoundedInduction, TLAPS

\* A number is ten times what is left of it, and its last digit.
LEMMA LastDigit == ASSUME NEW n \in Nat
  PROVE n \div 10 \in Nat /\ n % 10 \in 0..9 /\ n = 10 * (n \div 10) + (n % 10)
  OBVIOUS

\* Digits are taken off one at a time, or several at once.
LEMMA Shift == ASSUME NEW n \in Nat
  PROVE /\ n \div 100 \in Nat /\ (n \div 10) \div 10 = n \div 100
        /\ n \div 1000 \in Nat /\ (n \div 100) \div 10 = n \div 1000
<1>1. (n \div 10) \div 10 = n \div 100
  OBVIOUS
<1>2. (n \div 100) \div 10 = n \div 1000
  OBVIOUS
<1>3. n \div 100 \in Nat /\ n \div 1000 \in Nat
  BY <1>1, <1>2, LastDigit
<1> QED BY <1>1, <1>2, <1>3

\* A number of four digits, put together again.
LEMMA Assembled ==
  ASSUME NEW y \in Nat, NEW a \in Nat, NEW b \in Nat, NEW c \in Nat,
         NEW p \in 0..9, NEW q \in 0..9, NEW r \in 0..9, y <= 9999,
         y = 10 * a + r, a = 10 * b + q, b = 10 * c + p
  PROVE c \in 0..9 /\ y = 1000 * c + 100 * p + 10 * q + r
  OBVIOUS

\* The four digits Four takes out of a year are the year's.
LEMMA FourDigitYear == ASSUME NEW y \in Nat, y <= 9999
  PROVE /\ y \div 1000 \in 0..9 /\ (y \div 100) % 10 \in 0..9
        /\ (y \div 10) % 10 \in 0..9 /\ y % 10 \in 0..9
        /\ y = 1000 * (y \div 1000) + 100 * ((y \div 100) % 10)
                 + 10 * ((y \div 10) % 10) + (y % 10)
<1>1. /\ y \div 10 \in Nat /\ y % 10 \in 0..9
      /\ y = 10 * (y \div 10) + (y % 10)
  BY LastDigit
<1>2. /\ y \div 100 \in Nat /\ (y \div 10) % 10 \in 0..9
      /\ y \div 10 = 10 * (y \div 100) + ((y \div 10) % 10)
  BY <1>1, LastDigit, Shift
<1>3. /\ y \div 1000 \in Nat /\ (y \div 100) % 10 \in 0..9
      /\ y \div 100 = 10 * (y \div 1000) + ((y \div 100) % 10)
  BY <1>2, LastDigit, Shift
<1> QED BY <1>1, <1>2, <1>3, Assembled

\* Two texts of one length are in the order of the first character that
\* differs.
LEMMA FirstDifference ==
  ASSUME NEW a \in Seq(Int), NEW b \in Seq(Int), Len(a) = Len(b),
         NEW k \in 1..Len(b), \A j \in 1..(k - 1) : a[j] = b[j], a[k] # b[k]
  PROVE AtOrBefore(a, b) <=> a[k] < b[k]
<1>1. a # b /\ a[k] \in Int /\ b[k] \in Int /\ Len(a) \in Nat
  OBVIOUS
<1>2. ASSUME a[k] < b[k] PROVE Before(a, b)
  <2>1. \A j \in 1..(k - 1) : j <= Len(a) /\ a[j] = b[j]
    BY <1>1
  <2> QED BY <1>2, <2>1 DEF Before
<1>3. ASSUME NEW i \in 1..Len(b), \A j \in 1..(i - 1) : a[j] = b[j], a[i] < b[i]
      PROVE a[k] < b[k]
  <2>1. ~(k < i)
    BY <1>1, <1>3
  <2>2. ~(i < k)
    BY <1>1, <1>3
  <2> QED BY <1>3, <2>1, <2>2
<1>4. ASSUME Before(a, b) PROVE a[k] < b[k]
  BY <1>1, <1>3, <1>4 DEF Before
<1> QED BY <1>1, <1>2, <1>4 DEF AtOrBefore

\* Five digits, most significant first.
Weighed(p, q, r, s, t) == 10000 * p + 1000 * q + 100 * r + 10 * s + t
Texts == {a \in Seq(Int) : /\ Len(a) = 7 /\ a[5] = Dash /\ a[7] = Zulu
                           /\ \A i \in {1, 2, 3, 4, 6} : a[i] \in 0..9}

Value(a) == Weighed(a[1], a[2], a[3], a[4], a[6])

\* Which of two numbers is smaller shows in the first digit that differs.
Ordered(p1, p2, p3, p4, p5, q1, q2, q3, q4, q5) ==
  LET smaller == Weighed(p1, p2, p3, p4, p5) <= Weighed(q1, q2, q3, q4, q5) IN
  /\ p1 # q1 => (p1 < q1 <=> smaller)
  /\ p1 = q1 /\ p2 # q2 => (p2 < q2 <=> smaller)
  /\ p1 = q1 /\ p2 = q2 /\ p3 # q3 => (p3 < q3 <=> smaller)
  /\ p1 = q1 /\ p2 = q2 /\ p3 = q3 /\ p4 # q4 => (p4 < q4 <=> smaller)
  /\ p1 = q1 /\ p2 = q2 /\ p3 = q3 /\ p4 = q4 => (p5 <= q5 <=> smaller)

LEMMA OrderOfDigits ==
  \A p1, p2, p3, p4, p5, q1, q2, q3, q4, q5 \in 0..9 :
    Ordered(p1, p2, p3, p4, p5, q1, q2, q3, q4, q5)
  BY DEF Ordered, Weighed

\* Texts of four digits are in the order of the numbers they spell.
LEMMA OrderOfTexts ==
  ASSUME NEW a \in Texts, NEW b \in Texts
  PROVE AtOrBefore(a, b) <=> Value(a) <= Value(b)
<1>1. /\ a \in Seq(Int) /\ b \in Seq(Int) /\ Len(a) = 7 /\ Len(b) = 7
      /\ a[5] = b[5] /\ a[7] = b[7]
      /\ a[1] \in 0..9 /\ a[2] \in 0..9 /\ a[3] \in 0..9 /\ a[4] \in 0..9 /\ a[6] \in 0..9
      /\ b[1] \in 0..9 /\ b[2] \in 0..9 /\ b[3] \in 0..9 /\ b[4] \in 0..9 /\ b[6] \in 0..9
  BY DEF Texts
<1>8. Ordered(a[1], a[2], a[3], a[4], a[6], b[1], b[2], b[3], b[4], b[6])
  BY <1>1, OrderOfDigits
<1> DEFINE Same(k) == \A j \in 1..(k - 1) : a[j] = b[j]
<1>2. ASSUME NEW k \in 1..7, Same(k), a[k] # b[k]
      PROVE AtOrBefore(a, b) <=> a[k] < b[k]
  BY <1>1, <1>2, FirstDifference
<1>3. CASE a[1] # b[1]
  <2>1. Same(1)
    OBVIOUS
  <2>2. a[1] < b[1] <=> Value(a) <= Value(b)
    BY <1>1, <1>3, <1>8 DEF Ordered, Value
  <2> QED BY <1>2, <1>3, <2>1, <2>2
<1>4. CASE a[1] = b[1] /\ a[2] # b[2]
  <2>1. Same(2)
    BY <1>4
  <2>2. a[2] < b[2] <=> Value(a) <= Value(b)
    BY <1>1, <1>4, <1>8 DEF Ordered, Value
  <2> QED BY <1>2, <1>4, <2>1, <2>2
<1>5. CASE a[1] = b[1] /\ a[2] = b[2] /\ a[3] # b[3]
  <2>1. Same(3)
    BY <1>5
  <2>2. a[3] < b[3] <=> Value(a) <= Value(b)
    BY <1>1, <1>5, <1>8 DEF Ordered, Value
  <2> QED BY <1>2, <1>5, <2>1, <2>2
<1>6. CASE a[1] = b[1] /\ a[2] = b[2] /\ a[3] = b[3] /\ a[4] # b[4]
  <2>1. Same(4)
    BY <1>6
  <2>2. a[4] < b[4] <=> Value(a) <= Value(b)
    BY <1>1, <1>6, <1>8 DEF Ordered, Value
  <2> QED BY <1>2, <1>6, <2>1, <2>2
<1>7. CASE a[1] = b[1] /\ a[2] = b[2] /\ a[3] = b[3] /\ a[4] = b[4]
  <2>1. CASE a[6] # b[6]
    <3>1. Same(6)
      BY <1>1, <1>7
    <3>2. a[6] < b[6] <=> Value(a) <= Value(b)
      BY <1>1, <1>7, <2>1, <1>8 DEF Ordered, Value
    <3> QED BY <1>2, <2>1, <3>1, <3>2
  <2>2. CASE a[6] = b[6]
    <3>1. a = b
      <4>1. \A i \in 1..7 : a[i] = b[i]
        BY <1>1, <1>7, <2>2
      <4> QED BY <1>1, <4>1, SeqEqual
    <3>2. Value(a) <= Value(b)
      BY <1>1, <1>7, <2>2, <1>8 DEF Ordered, Value
    <3> QED BY <3>1, <3>2 DEF AtOrBefore
  <2> QED BY <2>1, <2>2
<1> QED BY <1>3, <1>4, <1>5, <1>6, <1>7

\* A year of four digits is written with four digits.
LEMMA YearOfFourDigits ==
  ASSUME NEW y, ~(y < 0), y < Myriad
  PROVE YearText(y) = Four(y)
  BY Zenon DEF YearText

\* An instant of four digits is a year of four digits and one digit more.
LEMMA SplitInstant ==
  ASSUME NEW t, FourDigits(t)
  PROVE /\ t \div 10 \in Nat /\ t % 10 \in 0..9 /\ t = 10 * (t \div 10) + (t % 10)
        /\ t \div 10 <= 9999 /\ ~(t \div 10 < 0) /\ t \div 10 < Myriad
<1>1. t \in Nat /\ t <= 99999
  BY DEF FourDigits
<1>2. t \div 10 \in Nat /\ t % 10 \in 0..9 /\ t = 10 * (t \div 10) + (t % 10)
  BY <1>1, LastDigit
<1> QED BY <1>1, <1>2 DEF Myriad

\* What a sequence of four integers is.
LEMMA Quadruple ==
  ASSUME NEW p \in Int, NEW q \in Int, NEW r \in Int, NEW s \in Int
  PROVE /\ <<p, q, r, s>> \in Seq(Int) /\ Len(<<p, q, r, s>>) = 4
        /\ <<p, q, r, s>>[1] = p /\ <<p, q, r, s>>[2] = q
        /\ <<p, q, r, s>>[3] = r /\ <<p, q, r, s>>[4] = s
  OBVIOUS

\* An instant of four digits is written as seven characters that spell it
\* (store.go:13-17,79-81).
LEMMA TextOfFourDigits ==
  ASSUME NEW t, FourDigits(t)
  PROVE FormatTime(t) \in Texts /\ Value(FormatTime(t)) = t
<1> DEFINE y == t \div 10
           p == y \div 1000
           q == (y \div 100) % 10
           r == (y \div 10) % 10
           s == y % 10
           u == t % 10
           text == FormatTime(t)
<1>1. y \in Nat /\ u \in 0..9 /\ t = 10 * y + u
  BY SplitInstant
<1>2. y <= 9999 /\ ~(y < 0) /\ y < Myriad
  BY SplitInstant
<1>3. text = Four(y) \o <<Dash, u, Zulu>>
  <2>1. YearText(t \div 10) = Four(t \div 10)
    BY <1>2, YearOfFourDigits
  <2> QED BY <2>1, Zenon DEF FormatTime
<1>4. Four(y) = <<p, q, r, s>>
  BY Zenon DEF Four
<1>5. /\ p \in 0..9 /\ q \in 0..9 /\ r \in 0..9 /\ s \in 0..9
      /\ y = 1000 * p + 100 * q + 10 * r + s
  BY <1>1, <1>2, FourDigitYear
<1> HIDE DEF y, p, q, r, s, u, text
<1> DEFINE year == <<p, q, r, s>>
           rest == <<Dash, u, Zulu>>
<1>6. /\ year \in Seq(Int) /\ Len(year) = 4
      /\ year[1] = p /\ year[2] = q /\ year[3] = r /\ year[4] = s
  BY <1>5, Quadruple
<1>7. /\ rest \in Seq(Int) /\ Len(rest) = 3
      /\ rest[1] = Dash /\ rest[2] = u /\ rest[3] = Zulu
  BY <1>1 DEF Dash, Zulu
<1> HIDE DEF year, rest
<1>8. text = year \o rest
  BY <1>3, <1>4 DEF year, rest
<1>9. /\ text \in Seq(Int) /\ Len(text) = 7
      /\ \A i \in 1..7 : text[i] = IF i <= 4 THEN year[i] ELSE rest[i - 4]
  <2>1. /\ year \o rest \in Seq(Int)
        /\ Len(year \o rest) = Len(year) + Len(rest)
        /\ \A i \in 1..(Len(year) + Len(rest)) :
             (year \o rest)[i] = IF i <= Len(year) THEN year[i] ELSE rest[i - Len(year)]
    BY <1>6, <1>7, ConcatProperties, Zenon
  <2>2. Len(year) + Len(rest) = 7
    BY <1>6, <1>7
  <2>3. /\ text \in Seq(Int) /\ Len(text) = 7
        /\ \A i \in 1..7 : text[i] = IF i <= Len(year) THEN year[i] ELSE rest[i - Len(year)]
    BY <1>8, <2>1, <2>2, Zenon
  <2> QED BY <1>6, <2>3
<1>10. /\ text[1] = p /\ text[2] = q /\ text[3] = r /\ text[4] = s
       /\ text[5] = Dash /\ text[6] = u /\ text[7] = Zulu
  BY <1>6, <1>7, <1>9
<1>11. text \in Texts
  BY <1>1, <1>5, <1>9, <1>10 DEF Texts
<1>12. Weighed(p, q, r, s, u) = t
  BY <1>1, <1>5 DEF Weighed
<1>13. Value(text) = t
  BY <1>10, <1>12 DEF Value
<1> QED BY <1>11, <1>13 DEF text

\* SQLite's comparison of two instants as text is the comparison of the
\* instants, as long as both have a year of four digits (store.go:13-17,
\* 266-291).
THEOREM TextOrderIsTimeOrder ==
  \A s, t : FourDigits(s) /\ FourDigits(t) =>
    (AtOrBefore(FormatTime(s), FormatTime(t)) <=> s <= t)
  BY TextOfFourDigits, OrderOfTexts
-----------------------------------------------------------------------------
Fields == {"due", "status", "created", "updated", "asked"}

Rows ==
  \A id \in DOMAIN charges :
    /\ charges[id] = [f \in Fields |-> charges[id][f]]
    /\ charges[id].status \in Statuses
    /\ FourDigits(charges[id].asked)
    /\ charges[id].due = FormatTime(charges[id].asked)

CalendarInv == TypeOK /\ Rows /\ SweepMissesNone

\* An instant of four digits is an integer.
LEMMA FourDigitsAreIntegers == ASSUME NEW t, FourDigits(t) PROVE t \in Int
  BY DEF FourDigits

\* A charge that listChargesDue leaves out is due later.
LEMMA DueIsText ==
  ASSUME Rows, NEW id \in DOMAIN charges, NEW t, FourDigits(t),
         ~AtOrBefore(charges[id].due, FormatTime(t))
  PROVE charges[id].asked > t
<1>1. FourDigits(charges[id].asked) /\ charges[id].due = FormatTime(charges[id].asked)
  BY DEF Rows
<1>2. ~(charges[id].asked <= t)
  BY <1>1, TextOrderIsTimeOrder
<1>3. charges[id].asked \in Int /\ t \in Int
  BY <1>1, FourDigitsAreIntegers
<1> QED BY <1>2, <1>3

\* The invariant holds at first.
LEMMA InvInit == ASSUME Init PROVE CalendarInv
<1>1. DOMAIN charges = {} /\ DOMAIN customers = {} /\ DOMAIN subscriptions = {}
  BY DEF Init, Empty
<1>2. now \in Times /\ swept.asOf = now /\ swept.ids = {}
  BY CalendarAssumption DEF Init
<1>3. /\ machine \in Machines
      /\ strayed = FALSE
      /\ restarts \in 0..MaxRestarts
  <2>1. machine \in Machines /\ strayed = FALSE /\ restarts = 0
    BY Zenon DEF Init
  <2> QED BY <2>1, CalendarAssumption
<1>4. TypeOK
  BY <1>1, <1>2, <1>3 DEF TypeOK
<1> QED BY <1>1, <1>2, <1>4 DEF CalendarInv, Rows, SweepMissesNone

\* No transition leads back to created.
LEMMA NothingBecomesUnpaid == \A s \in Statuses : chargeTransitions[s] \subseteq Statuses \ {"created"}
  BY DEF Statuses, chargeTransitions

\* An advance leaves no charge unpaid that was due.
LEMMA AnAdvance ==
  ASSUME CalendarInv, NEW days, AdvanceClock(days) PROVE CalendarInv'
<1> DEFINE target == now + AdvanceBy(days)
<1>1. /\ target \in Times /\ now' = target
      /\ charges' = [id \in DOMAIN charges |->
                       IF id \in DueBy(target) THEN MadeOverdue(charges[id], target)
                       ELSE charges[id]]
      /\ swept' = [asOf |-> target, ids |-> DOMAIN charges]
      /\ UNCHANGED <<machine, customers, subscriptions, restarts>>
      /\ strayed' = (strayed \/ (DueBy(target) # {} /\ ~FourDigits(target)))
  BY DEF AdvanceClock
<1> HIDE DEF target
<1>2. DOMAIN charges' = DOMAIN charges
  BY <1>1
<1>3. ASSUME NEW id \in DOMAIN charges
      PROVE /\ charges'[id] = [f \in Fields |-> charges'[id][f]]
            /\ charges'[id].due = charges[id].due
            /\ charges'[id].asked = charges[id].asked
            /\ charges'[id].status = IF id \in DueBy(target) THEN "overdue"
                                     ELSE charges[id].status
  <2>1. charges'[id] = IF id \in DueBy(target) THEN MadeOverdue(charges[id], target)
                       ELSE charges[id]
    BY <1>1
  <2>2. charges[id] = [f \in Fields |-> charges[id][f]]
    BY DEF CalendarInv, Rows
  <2>3. LET row == MadeOverdue(charges[id], target) IN
        /\ row = [f \in Fields |-> row[f]] /\ row.due = charges[id].due
        /\ row.asked = charges[id].asked /\ row.status = "overdue"
    BY <2>2 DEF MadeOverdue, Fields
  <2> QED BY <2>1, <2>2, <2>3
<1>4. Rows'
  BY <1>2, <1>3 DEF CalendarInv, Rows, Statuses
<1>5. TypeOK'
  BY <1>1, <1>2, <1>4 DEF CalendarInv, TypeOK, Rows
<1>6. ASSUME NEW id \in DOMAIN charges, FourDigits(target),
             charges'[id].status = "created"
      PROVE charges'[id].asked > target
  <2>1. id \notin DueBy(target) /\ charges[id].status = "created"
    BY <1>3, <1>6
  <2>2. ~AtOrBefore(charges[id].due, FormatTime(target))
    BY <2>1 DEF DueBy
  <2> QED BY <1>3, <1>6, <2>2, DueIsText DEF CalendarInv
<1>7. SweepMissesNone'
  BY <1>1, <1>6 DEF SweepMissesNone
<1> QED BY <1>4, <1>5, <1>7 DEF CalendarInv

\* A new charge carries the text of its due date.
LEMMA APayment ==
  ASSUME CalendarInv, NEW id \in ChargeIds, NEW cust, NEW due \in Dues,
         CreatePayment(id, cust, due)
  PROVE CalendarInv'
<1>1. /\ id \notin DOMAIN charges /\ DOMAIN charges' = DOMAIN charges \cup {id}
      /\ \A i \in DOMAIN charges : charges'[i] = charges[i]
      /\ charges'[id] = [due |-> FormatTime(due), status |-> "created",
                         created |-> FormatTime(now), updated |-> FormatTime(now),
                         asked |-> due]
      /\ UNCHANGED <<machine, now, customers, subscriptions, swept, restarts>>
      /\ Writes
  BY DEF CreatePayment, Extend
<1>2. FourDigits(due)
  BY CalendarAssumption
<1>3. Rows'
  BY <1>1, <1>2 DEF CalendarInv, Rows, Fields, Statuses
<1>4. TypeOK'
  BY <1>1, <1>3 DEF CalendarInv, TypeOK, Rows, Writes
<1>5. SweepMissesNone'
  BY <1>1 DEF CalendarInv, SweepMissesNone, TypeOK
<1> QED BY <1>3, <1>4, <1>5 DEF CalendarInv

\* A transition keeps the due date and never makes a charge unpaid again.
LEMMA ATransition ==
  ASSUME CalendarInv, NEW id \in ChargeIds, NEW to \in Statuses,
         TransitionCharge(id, to)
  PROVE CalendarInv'
<1>1. /\ id \in DOMAIN charges
      /\ charges' = [charges EXCEPT ![id].status = to, ![id].updated = FormatTime(now)]
      /\ to \in chargeTransitions[charges[id].status]
      /\ UNCHANGED <<machine, now, customers, subscriptions, swept, restarts>>
      /\ Writes
  BY DEF TransitionCharge, MayMove
<1>2. to # "created"
  BY <1>1, NothingBecomesUnpaid DEF CalendarInv, Rows
<1>3. DOMAIN charges' = DOMAIN charges
  BY <1>1
<1>4. ASSUME NEW i \in DOMAIN charges
      PROVE /\ charges'[i] = [f \in Fields |-> charges'[i][f]]
            /\ charges'[i].due = charges[i].due /\ charges'[i].asked = charges[i].asked
            /\ charges'[i].status = IF i = id THEN to ELSE charges[i].status
  BY <1>1 DEF CalendarInv, Rows, Fields
<1>5. Rows'
  BY <1>3, <1>4 DEF CalendarInv, Rows
<1>6. TypeOK'
  BY <1>1, <1>3, <1>5 DEF CalendarInv, TypeOK, Rows, Writes
<1>7. SweepMissesNone'
  BY <1>1, <1>2, <1>3, <1>4 DEF CalendarInv, SweepMissesNone, TypeOK
<1> QED BY <1>5, <1>6, <1>7 DEF CalendarInv

\* Every step keeps the invariant.
LEMMA InvNext == ASSUME CalendarInv, [Next]_vars PROVE CalendarInv'
<1>1. CASE Restart
  BY <1>1, CalendarAssumption DEF Restart, CalendarInv, TypeOK, Rows, SweepMissesNone
<1>2. ASSUME NEW id \in CustomerIds, CreateCustomer(id) PROVE CalendarInv'
  BY <1>2 DEF CreateCustomer, Extend, Writes, CalendarInv, TypeOK, Rows, SweepMissesNone
<1>3. ASSUME NEW id \in ChargeIds, NEW cust \in CustomerIds, NEW due \in Dues,
             CreatePayment(id, cust, due)
      PROVE CalendarInv'
  BY <1>3, APayment
<1>4. ASSUME NEW id \in SubscriptionIds, NEW cust \in CustomerIds, NEW due \in Dues,
             CreateSubscription(id, cust, due)
      PROVE CalendarInv'
  BY <1>4 DEF CreateSubscription, Extend, Writes, CalendarInv, TypeOK, Rows,
              SweepMissesNone
<1>5. ASSUME NEW id \in ChargeIds, NEW to \in Statuses, TransitionCharge(id, to)
      PROVE CalendarInv'
  BY <1>5, ATransition
<1>6. ASSUME NEW days \in Days, AdvanceClock(days) PROVE CalendarInv'
  BY <1>6, AnAdvance
<1>7. ASSUME UNCHANGED vars PROVE CalendarInv'
  BY <1>7 DEF vars, CalendarInv, TypeOK, Rows, SweepMissesNone
<1>8. ASSUME NEW days \in Days, AdvanceRefused(days) PROVE CalendarInv'
  BY <1>7, <1>8 DEF AdvanceRefused
<1> QED BY <1>1, <1>2, <1>3, <1>4, <1>5, <1>6, <1>7, <1>8 DEF Next

\* The inductive invariant holds in every reachable state.
THEOREM CalendarInvariance == Spec => []CalendarInv
<1> QED BY InvInit, InvNext, PTL DEF Spec

\* Tables, clock and histories are of their types: an advance gives every
\* charge it changes a status of the engine (engine.go:308-312).
THEOREM TypeCorrect == Spec => []TypeOK
<1>1. CalendarInv => TypeOK
  BY DEF CalendarInv
<1> QED BY <1>1, CalendarInvariance, PTL

\* No charge is missed: comparing text finds every charge that is due, for any
\* range of the clock and any due dates of four digits (engine.go:281-284).
THEOREM NoChargeIsMissed == Spec => []SweepMissesNone
<1>1. CalendarInv => SweepMissesNone
  BY DEF CalendarInv
<1> QED BY <1>1, CalendarInvariance, PTL
-----------------------------------------------------------------------------
\* One due row that does not scan keeps AdvanceClock from any target of four
\* digits that the row is due at.
LEMMA HeldBack ==
  ASSUME CalendarInv, NEW id \in DOMAIN charges, ~ScansCharge(charges[id]),
         charges[id].status = "created", NEW days, AdvanceClock(days),
         FourDigits(now')
  PROVE charges[id].asked > now'
<1>1. Listed(DueBy(now'))
  BY DEF AdvanceClock
<1>2. ~AtOrBefore(charges[id].due, FormatTime(now'))
  BY <1>1 DEF Listed, DueBy
<1> QED BY <1>2, DueIsText DEF CalendarInv

\* While an unpaid charge does not scan, only a restart or a year that is not of
\* four digits gets past its due date.
LEMMA HeldStep ==
  ASSUME CalendarInv, [Next]_vars, NEW id \in DOMAIN charges,
         charges[id].status = "created", ~ScansCharge(charges[id])
  PROVE \/ now' = now \/ restarts' # restarts
        \/ FourDigits(now') => charges[id].asked > now'
<1>1. CASE Restart
  BY <1>1 DEF Restart, CalendarInv, TypeOK
<1>2. ASSUME NEW days \in Days, AdvanceClock(days)
      PROVE FourDigits(now') => charges[id].asked > now'
  BY <1>2, HeldBack
<1>3. CASE UNCHANGED vars
  BY <1>3 DEF vars
<1>4. ASSUME NEW days \in Days, AdvanceRefused(days) PROVE now' = now
  BY <1>4 DEF AdvanceRefused, vars
<1>5. ASSUME NEW cus \in CustomerIds, CreateCustomer(cus) PROVE now' = now
  BY <1>5 DEF CreateCustomer
<1>6. ASSUME NEW i \in ChargeIds, NEW cust \in CustomerIds, NEW due \in Dues,
             CreatePayment(i, cust, due)
      PROVE now' = now
  BY <1>6 DEF CreatePayment
<1>7. ASSUME NEW i \in SubscriptionIds, NEW cust \in CustomerIds, NEW due \in Dues,
             CreateSubscription(i, cust, due)
      PROVE now' = now
  BY <1>7 DEF CreateSubscription
<1>8. ASSUME NEW i \in ChargeIds, NEW to \in Statuses, TransitionCharge(i, to)
      PROVE now' = now
  BY <1>8 DEF TransitionCharge
<1> QED BY <1>1, <1>2, <1>3, <1>4, <1>5, <1>6, <1>7, <1>8 DEF Next

\* A charge that does not scan is not changed by any step.
LEMMA StuckStep ==
  ASSUME CalendarInv, [Next]_vars, NEW id \in DOMAIN charges,
         ~ScansCharge(charges[id])
  PROVE charges'[id] = charges[id]
<1>1. CASE Restart
  BY <1>1 DEF Restart
<1>2. ASSUME NEW days \in Days, AdvanceClock(days) PROVE charges'[id] = charges[id]
  <2>1. id \notin DueBy(now + AdvanceBy(days))
    BY <1>2 DEF AdvanceClock, Listed
  <2> QED BY <1>2, <2>1 DEF AdvanceClock
<1>3. CASE UNCHANGED vars
  BY <1>3 DEF vars
<1>4. ASSUME NEW days \in Days, AdvanceRefused(days) PROVE charges'[id] = charges[id]
  BY <1>4 DEF AdvanceRefused, vars
<1>5. ASSUME NEW cus \in CustomerIds, CreateCustomer(cus)
      PROVE charges'[id] = charges[id]
  BY <1>5 DEF CreateCustomer
<1>6. ASSUME NEW i \in ChargeIds, NEW cust \in CustomerIds, NEW due \in Dues,
             CreatePayment(i, cust, due)
      PROVE charges'[id] = charges[id]
  BY <1>6 DEF CreatePayment, Extend
<1>7. ASSUME NEW i \in SubscriptionIds, NEW cust \in CustomerIds, NEW due \in Dues,
             CreateSubscription(i, cust, due)
      PROVE charges'[id] = charges[id]
  BY <1>7 DEF CreateSubscription
<1>8. ASSUME NEW i \in ChargeIds, NEW to \in Statuses, TransitionCharge(i, to)
      PROVE charges'[id] = charges[id]
  BY <1>8 DEF TransitionCharge, MayMove
<1> QED BY <1>1, <1>2, <1>3, <1>4, <1>5, <1>6, <1>7, <1>8 DEF Next

\* An unreadable charge is stuck: nothing changes it (store.go:298-322).
THEOREM UnreadableIsStuck == Spec => UnreadableStaysAsItIs
<1>1. CalendarInv /\ [Next]_vars =>
        [\A id \in DOMAIN charges :
           ~ScansCharge(charges[id]) => charges'[id] = charges[id]]_vars
  BY StuckStep
<1> QED BY <1>1, CalendarInvariance, PTL DEF Spec, UnreadableStaysAsItIs

\* While it is unpaid it holds the clock inside the years of four digits: an
\* advance to its due date or later is refused (engine.go:301-304).
THEOREM UnreadableHolds == Spec => UnreadableHoldsClock
<1>1. CalendarInv /\ [Next]_vars =>
        [\A id \in DOMAIN charges :
           charges[id].status = "created" /\ ~ScansCharge(charges[id])
             => \/ now' = now \/ restarts' # restarts
                \/ FourDigits(now') => charges[id].asked > now']_vars
  BY HeldStep
<1> QED BY <1>1, CalendarInvariance, PTL DEF Spec, UnreadableHoldsClock
-----------------------------------------------------------------------------
\* What was written with four digits parses.
LEMMA TextsParse == ASSUME NEW a \in Texts PROVE Parses(a)
  BY DEF Texts, Parses

\* What StateAnswersInTime needs of the rows: until the clock has strayed,
\* every instant in them was written with four digits.
Legible ==
  strayed
    \/ /\ \A id \in DOMAIN customers : customers[id] \in Texts
       /\ \A id \in DOMAIN charges : /\ charges[id].created \in Texts
                                     /\ charges[id].updated \in Texts
       /\ \A id \in DOMAIN subscriptions :
            subscriptions[id].next \in Texts /\ subscriptions[id].created \in Texts

\* There are no rows at first.
LEMMA LegibleInit == ASSUME Init PROVE Legible
  BY DEF Init, Legible, Empty

\* An advance writes the target's text, or has strayed.
LEMMA LegibleAdvance ==
  ASSUME CalendarInv, Legible, NEW days, AdvanceClock(days) PROVE Legible'
<1> DEFINE target == now + AdvanceBy(days)
<1>1. CASE DueBy(target) = {}
  <2>1. \A id \in DOMAIN charges : charges'[id] = charges[id]
    BY <1>1 DEF AdvanceClock
  <2>2. DOMAIN charges' = DOMAIN charges /\ (strayed => strayed')
        /\ UNCHANGED <<customers, subscriptions>>
    BY DEF AdvanceClock
  <2> QED BY <2>1, <2>2 DEF Legible
<1>2. CASE DueBy(target) # {} /\ FourDigits(target)
  <2>1. DOMAIN charges' = DOMAIN charges /\ (strayed => strayed')
        /\ UNCHANGED <<customers, subscriptions>>
    BY DEF AdvanceClock
  <2>2. FormatTime(target) \in Texts
    BY <1>2, TextOfFourDigits
  <2>3. ASSUME NEW id \in DOMAIN charges
        PROVE charges'[id] = IF id \in DueBy(target) THEN MadeOverdue(charges[id], target)
                             ELSE charges[id]
    BY DEF AdvanceClock
  <2>4. ASSUME NEW id \in DOMAIN charges
        PROVE LET row == MadeOverdue(charges[id], target) IN
              row.created = charges[id].created /\ row.updated = FormatTime(target)
    <3>1. charges[id] = [f \in Fields |-> charges[id][f]]
      BY DEF CalendarInv, Rows
    <3> QED BY <3>1 DEF MadeOverdue, Fields
  <2> QED BY <2>1, <2>2, <2>3, <2>4 DEF Legible
<1>3. CASE DueBy(target) # {} /\ ~FourDigits(target)
  <2>1. strayed'
    BY <1>3 DEF AdvanceClock
  <2> QED BY <2>1 DEF Legible
<1> QED BY <1>1, <1>2, <1>3

\* A row is written with the text of the clock, or the clock has strayed.
LEMMA Written ==
  ASSUME Writes, now' = now
  PROVE (strayed => strayed') /\ (strayed' \/ FormatTime(now) \in Texts)
  BY TextOfFourDigits DEF Writes

\* Every step keeps rows legible until the clock has strayed.
LEMMA LegibleNext ==
  ASSUME CalendarInv, Legible, [Next]_vars PROVE Legible'
<1>1. CASE Restart
  BY <1>1 DEF Restart, Legible
<1>2. ASSUME NEW cus \in CustomerIds, CreateCustomer(cus) PROVE Legible'
  <2>1. (strayed => strayed') /\ (strayed' \/ FormatTime(now) \in Texts)
    BY <1>2, Written DEF CreateCustomer
  <2> QED BY <1>2, <2>1 DEF CreateCustomer, Extend, Legible
<1>3. ASSUME NEW i \in ChargeIds, NEW cust \in CustomerIds, NEW due \in Dues,
             CreatePayment(i, cust, due)
      PROVE Legible'
  <2>1. (strayed => strayed') /\ (strayed' \/ FormatTime(now) \in Texts)
    BY <1>3, Written DEF CreatePayment
  <2> QED BY <1>3, <2>1 DEF CreatePayment, Extend, Legible
<1>4. ASSUME NEW i \in SubscriptionIds, NEW cust \in CustomerIds, NEW due \in Dues,
             CreateSubscription(i, cust, due)
      PROVE Legible'
  <2>1. (strayed => strayed') /\ (strayed' \/ FormatTime(now) \in Texts)
    BY <1>4, Written DEF CreateSubscription
  <2>2. FormatTime(due) \in Texts
    BY CalendarAssumption, TextOfFourDigits
  <2> QED BY <1>4, <2>1, <2>2 DEF CreateSubscription, Extend, Legible
<1>5. ASSUME NEW i \in ChargeIds, NEW to \in Statuses, TransitionCharge(i, to)
      PROVE Legible'
  <2>1. (strayed => strayed') /\ (strayed' \/ FormatTime(now) \in Texts)
    BY <1>5, Written DEF TransitionCharge
  <2>2. i \in DOMAIN charges /\ DOMAIN charges' = DOMAIN charges
        /\ UNCHANGED <<customers, subscriptions>>
    BY <1>5 DEF TransitionCharge
  <2>3. ASSUME NEW id \in DOMAIN charges
        PROVE /\ charges'[id].created = charges[id].created
              /\ charges'[id].updated = IF id = i THEN FormatTime(now)
                                        ELSE charges[id].updated
    <3>1. charges[id] = [f \in Fields |-> charges[id][f]]
      BY DEF CalendarInv, Rows
    <3> QED BY <1>5, <3>1 DEF TransitionCharge, Fields
  <2> QED BY <2>1, <2>2, <2>3 DEF Legible
<1>6. ASSUME NEW days \in Days, AdvanceClock(days) PROVE Legible'
  BY <1>6, LegibleAdvance
<1>7. CASE UNCHANGED vars
  BY <1>7 DEF vars, Legible
<1>8. ASSUME NEW days \in Days, AdvanceRefused(days) PROVE Legible'
  BY <1>8, <1>7 DEF AdvanceRefused
<1> QED BY <1>1, <1>2, <1>3, <1>4, <1>5, <1>6, <1>7, <1>8 DEF Next

\* Legible rows scan.
LEMMA LegibleRowsScan ==
  ASSUME CalendarInv, Legible PROVE StateAnswersInTime
<1>1. \A id \in DOMAIN charges : charges[id].due \in Texts
  BY TextOfFourDigits DEF CalendarInv, Rows
<1> QED BY <1>1, TextsParse
        DEF Legible, StateAnswersInTime, ListState, ScansCharge, ScansSubscription

\* The state can be listed as long as no row was written at a year that is
\* not of four digits (store.go:79-85, admin.go:91-105).
THEOREM StateCanBeListed == Spec => []StateAnswersInTime
<1>1. CalendarInv /\ Legible => StateAnswersInTime
  BY LegibleRowsScan
<1>2. CalendarInv /\ Legible /\ [Next]_vars => Legible'
  BY LegibleNext
<1> QED BY <1>1, <1>2, CalendarInvariance, LegibleInit, PTL DEF Spec
-----------------------------------------------------------------------------
(* Natural numbers and powers of two *)

\* Every set of natural numbers that is not empty has a least element.
LEMMA Least ==
  ASSUME NEW T, T \subseteq Nat, T # {}
  PROVE  \E n \in T : \A m \in T : n <= m
<1>1. PICK n \in T : \A m \in T : ~ (<<m, n>> \in OpToRel(<, Nat))
  BY NatLessThanWellFounded, WFMin
<1>2. \A m \in T : ~ (m < n)
  <2>. SUFFICES ASSUME NEW m \in T, m < n PROVE FALSE
    OBVIOUS
  <2>1. <<m, n>> \in Nat \X Nat /\ <<m, n>>[1] < <<m, n>>[2]
    OBVIOUS
  <2>2. <<m, n>> \in OpToRel(<, Nat)
    BY <2>1, Zenon DEF OpToRel
  <2>. QED  BY <2>2, <1>1
<1>. QED  BY <1>2

\* A power of two is the number of subsets of a set.
LEMMA PowerNat == \A n \in Nat : 2^n \in Nat
<1>. TAKE n \in Nat
<1>1. IsFiniteSet(1..n) /\ Cardinality(1..n) = n
  BY FS_Interval
<1>2. Cardinality(SUBSET (1..n)) = 2^n /\ IsFiniteSet(SUBSET (1..n))
  BY <1>1, FS_SUBSET
<1>. QED  BY <1>2, FS_CardinalityType

\* One more element, and there are twice as many.
LEMMA PowerDoubles == \A n \in Nat : 2^(n + 1) = 2 * 2^n
<1>. TAKE n \in Nat
<1>. DEFINE S == 1..n  A == SUBSET S  F == [a \in A |-> a \cup {n + 1}]
            B == {a \cup {n + 1} : a \in A}
<1>1. /\ IsFiniteSet(S) /\ Cardinality(S) = n
      /\ IsFiniteSet(1..(n + 1)) /\ Cardinality(1..(n + 1)) = n + 1
  <2>1. n \in Int /\ n + 1 \in Int
    OBVIOUS
  <2>. QED  BY <2>1, FS_Interval
<1>2. /\ IsFiniteSet(A) /\ Cardinality(A) = 2^n
      /\ Cardinality(SUBSET (1..(n + 1))) = 2^(n + 1)
  BY <1>1, FS_SUBSET
<1>3. n + 1 \notin S
  OBVIOUS
<1>4. F \in Bijection(A, B)
  <2>1. F \in [A -> B]
    OBVIOUS
  <2>2. \A a, b \in A : F[a] = F[b] => a = b
    <3>. SUFFICES ASSUME NEW a \in A, NEW b \in A, F[a] = F[b]
                  PROVE  a = b
      OBVIOUS
    <3>1. a = F[a] \ {n + 1} /\ b = F[b] \ {n + 1}
      BY <1>3
    <3>. QED  BY <3>1
  <2>3. \A c \in B : \E a \in A : F[a] = c
    OBVIOUS
  <2>. HIDE DEF F, A, B
  <2>. QED  BY <2>1, <2>2, <2>3 DEF Bijection, Injection, Surjection, IsInjective
<1>5. IsFiniteSet(B) /\ Cardinality(B) = 2^n
  <2>1. ExistsBijection(A, B)
    BY <1>4 DEF ExistsBijection
  <2>. QED  BY <2>1, <1>2, FS_Bijection
<1>6. SUBSET (1..(n + 1)) = A \cup B
  <2>1. 1..(n + 1) = S \cup {n + 1}
    OBVIOUS
  <2>2. \A c \in SUBSET (S \cup {n + 1}) : c \in A \cup B
    <3>. TAKE c \in SUBSET (S \cup {n + 1})
    <3>1. CASE n + 1 \in c
      <4>1. c \ {n + 1} \in A /\ c = (c \ {n + 1}) \cup {n + 1}
        BY <3>1
      <4>. QED  BY <4>1
    <3>2. CASE n + 1 \notin c
      BY <3>2
    <3>. QED  BY <3>1, <3>2
  <2>3. A \cup B \subseteq SUBSET (S \cup {n + 1})
    OBVIOUS
  <2>. QED  BY <2>1, <2>2, <2>3
<1>7. A \cap B = {}
  BY <1>3
<1>8. Cardinality(A \cup B) = 2^n + 2^n
  <2>. HIDE DEF A, B
  <2>1. Cardinality(A \cup B) = Cardinality(A) + Cardinality(B) - Cardinality(A \cap B)
    BY <1>2, <1>5, FS_Union
  <2>2. Cardinality(A \cap B) = 0
    BY <1>7, FS_EmptySet
  <2>. QED  BY <2>1, <2>2, <1>2, <1>5, PowerNat
<1>. HIDE DEF A, B, S
<1>9. 2^(n + 1) = Cardinality(A \cup B)
  BY <1>2, <1>6, Zenon
<1>10. \A p \in Nat : p + p = 2 * p
  OBVIOUS
<1>. QED  BY <1>8, <1>9, <1>10, PowerNat

\* Exponents add up.
LEMMA PowerSum == \A a, b \in Nat : 2^(a + b) = 2^a * 2^b
<1>. SUFFICES ASSUME NEW a \in Nat, NEW b0 \in Nat, 2^(a + b0) # 2^a * 2^b0
              PROVE  FALSE
  OBVIOUS
<1>. DEFINE T == {b \in Nat : 2^(a + b) # 2^a * 2^b}
<1>1. T \subseteq Nat /\ T # {}
  OBVIOUS
<1>2. PICK b \in T : \A m \in T : b <= m
  <2>. HIDE DEF T
  <2>. QED  BY <1>1, Least
<1>3. b \in Nat /\ 2^(a + b) # 2^a * 2^b
  OBVIOUS
<1>4. b # 0
  <2>1. 2^0 = 1 /\ a + 0 = a /\ 2^a * 1 = 2^a
    BY PowerNat
  <2>. QED  BY <2>1, <1>3
<1>5. b - 1 \in Nat /\ ~ (b <= b - 1)
  BY <1>3, <1>4
<1>6. b - 1 \notin T
  <2>. HIDE DEF T
  <2>. QED  BY <1>2, <1>5
<1>7. 2^(a + (b - 1)) = 2^a * 2^(b - 1)
  BY <1>5, <1>6
<1>8. 2^((b - 1) + 1) = 2 * 2^(b - 1) /\ (b - 1) + 1 = b
  BY <1>3, <1>5, PowerDoubles
<1>9. /\ 2^((a + (b - 1)) + 1) = 2 * 2^(a + (b - 1))
      /\ (a + (b - 1)) + 1 = a + b
  <2>1. a + (b - 1) \in Nat
    BY <1>5
  <2>. QED  BY <2>1, <1>3, PowerDoubles
<1>10. \A x, y \in Nat : 2 * (x * y) = x * (2 * y)
  OBVIOUS
<1>11. 2^a \in Nat /\ 2^(b - 1) \in Nat
  BY <1>5, PowerNat
<1>. HIDE DEF T
<1>. QED  BY <1>3, <1>7, <1>8, <1>9, <1>10, <1>11

\* A power of two is more than its exponent.
LEMMA PowerExceeds == \A a \in Nat : a < 2^a
<1>. SUFFICES ASSUME NEW a0 \in Nat, ~ (a0 < 2^a0)
              PROVE  FALSE
  OBVIOUS
<1>. DEFINE T == {a \in Nat : ~ (a < 2^a)}
<1>1. T \subseteq Nat /\ T # {}
  OBVIOUS
<1>2. PICK a \in T : \A m \in T : a <= m
  <2>. HIDE DEF T
  <2>. QED  BY <1>1, Least
<1>3. a \in Nat /\ ~ (a < 2^a)
  OBVIOUS
<1>4. a # 0
  <2>1. 2^0 = 1 /\ 0 < 1
    OBVIOUS
  <2>. QED  BY <2>1, <1>3
<1>5. a - 1 \in Nat /\ ~ (a <= a - 1)
  BY <1>3, <1>4
<1>6. a - 1 \notin T
  <2>. HIDE DEF T
  <2>. QED  BY <1>2, <1>5
<1>7. a - 1 < 2^(a - 1)
  BY <1>5, <1>6
<1>8. 2^((a - 1) + 1) = 2 * 2^(a - 1) /\ (a - 1) + 1 = a
  BY <1>3, <1>5, PowerDoubles
<1>9. 2^(a - 1) \in Nat
  BY <1>5, PowerNat
<1>. HIDE DEF T
<1>. QED  BY <1>3, <1>4, <1>7, <1>8, <1>9

LEMMA PowerPositive == \A a \in Nat : 2^a \in Nat \ {0}
  BY PowerNat, PowerExceeds

\* Powers of two grow with their exponents.
LEMMA PowerGrows == \A a, b \in Nat : a <= b => 2^a <= 2^b
<1>. SUFFICES ASSUME NEW a \in Nat, NEW b \in Nat, a <= b
              PROVE  2^a <= 2^b
  OBVIOUS
<1>1. b - a \in Nat /\ a + (b - a) = b
  OBVIOUS
<1>2. 2^(a + (b - a)) = 2^a * 2^(b - a)
  BY <1>1, PowerSum
<1>3. 2^a \in Nat \ {0} /\ 2^(b - a) \in Nat \ {0}
  BY <1>1, PowerPositive
<1>4. \A x, y \in Nat \ {0} : x <= x * y
  OBVIOUS
<1>. QED  BY <1>1, <1>2, <1>3, <1>4
-----------------------------------------------------------------------------
(* The nearest float *)

\* Some number of places after the point is enough, and the least is taken.
LEMMA PlacesEnough ==
  ASSUME NEW n \in Nat \ {0}, NEW d \in Nat \ {0},
         d * 2^(Precision - 1) <= n * 2^(2 * Precision)
  PROVE  /\ Places(n, d) \in 0..2 * Precision
         /\ n * 2^Places(n, d) >= d * 2^(Precision - 1)
         /\ \/ Places(n, d) = 0
            \/ n * 2^(Places(n, d) - 1) < d * 2^(Precision - 1)
<1>. DEFINE Ok(k) == n * 2^k >= d * 2^(Precision - 1)
            T == {k \in Nat : Ok(k)}
<1>0. 2 * Precision \in Nat
  BY ValuesAssumption
<1>1. 2 * Precision \in T
  BY <1>0
<1>2. PICK k \in T : \A m \in T : k <= m
  <2>1. T \subseteq Nat /\ T # {}
    BY <1>1
  <2>. HIDE DEF T
  <2>. QED  BY <2>1, Least
<1>3. k \in 0..2 * Precision /\ Ok(k)
  <2>1. k <= 2 * Precision
    <3>. HIDE DEF T
    <3>. QED  BY <1>1, <1>2
  <2>2. k \in Nat /\ Ok(k)
    OBVIOUS
  <2>. HIDE DEF Ok
  <2>. QED  BY <2>1, <2>2, <1>0
<1>4. k = 0 \/ ~ Ok(k - 1)
  <2>. SUFFICES ASSUME k # 0, Ok(k - 1) PROVE FALSE
    OBVIOUS
  <2>1. k - 1 \in Nat /\ ~ (k <= k - 1)
    BY <1>3
  <2>2. k - 1 \in T
    BY <2>1
  <2>. HIDE DEF T
  <2>. QED  BY <2>1, <2>2, <1>2
<1>5. k = 0 \/ n * 2^(k - 1) < d * 2^(Precision - 1)
  <2>. SUFFICES ASSUME k # 0 PROVE n * 2^(k - 1) < d * 2^(Precision - 1)
    OBVIOUS
  <2>1. k - 1 \in Nat /\ Precision - 1 \in Nat
    BY <1>3, ValuesAssumption
  <2>2. 2^(k - 1) \in Nat /\ 2^(Precision - 1) \in Nat
    BY <2>1, PowerNat
  <2>3. n * 2^(k - 1) \in Int /\ d * 2^(Precision - 1) \in Int
    BY <2>2
  <2>4. \A x, y \in Int : ~ (x >= y) => x < y
    OBVIOUS
  <2>. QED  BY <1>4, <2>3, <2>4
<1>6. \E c \in 0..2 * Precision :
         /\ n * 2^c >= d * 2^(Precision - 1)
         /\ c = 0 \/ n * 2^(c - 1) < d * 2^(Precision - 1)
  BY <1>3, <1>5
<1>. QED  BY <1>6 DEF Places

\* Some number of places before it is enough, and the least is taken.
LEMMA LostEnough ==
  ASSUME NEW n \in Nat \ {0}, NEW d \in Nat \ {0}
  PROVE  /\ Lost(n, d) \in 0..n
         /\ n < d * 2^(Precision + Lost(n, d))
         /\ \/ Lost(n, d) = 0
            \/ n >= d * 2^(Precision + Lost(n, d) - 1)
<1>. DEFINE Ok(j) == n < d * 2^(Precision + j)
            T == {j \in Nat : Ok(j)}
<1>1. n \in T
  <2>1. Precision + n \in Nat /\ n < Precision + n
    BY ValuesAssumption
  <2>2. 2^(Precision + n) \in Nat /\ Precision + n < 2^(Precision + n)
    BY <2>1, PowerNat, PowerExceeds
  <2>3. \A x \in Nat : x <= d * x
    OBVIOUS
  <2>4. 2^(Precision + n) <= d * 2^(Precision + n) /\ d * 2^(Precision + n) \in Int
    BY <2>2, <2>3
  <2>. QED  BY <2>1, <2>2, <2>4
<1>2. PICK j \in T : \A m \in T : j <= m
  <2>1. T \subseteq Nat /\ T # {}
    BY <1>1
  <2>. HIDE DEF T
  <2>. QED  BY <2>1, Least
<1>3. j \in 0..n /\ Ok(j)
  <2>1. j <= n
    <3>. HIDE DEF T
    <3>. QED  BY <1>1, <1>2
  <2>2. j \in Nat /\ Ok(j)
    OBVIOUS
  <2>. HIDE DEF Ok
  <2>. QED  BY <2>1, <2>2
<1>4. j = 0 \/ ~ Ok(j - 1)
  <2>. SUFFICES ASSUME j # 0, Ok(j - 1) PROVE FALSE
    OBVIOUS
  <2>1. j - 1 \in Nat /\ ~ (j <= j - 1)
    BY <1>3
  <2>2. j - 1 \in T
    BY <2>1
  <2>. HIDE DEF T
  <2>. QED  BY <2>1, <2>2, <1>2
<1>5. j = 0 \/ n >= d * 2^(Precision + j - 1)
  <2>. SUFFICES ASSUME j # 0 PROVE n >= d * 2^(Precision + j - 1)
    OBVIOUS
  <2>1. /\ Precision + j - 1 \in Nat
        /\ Precision + (j - 1) = Precision + j - 1
    BY <1>3, ValuesAssumption
  <2>2. d * 2^(Precision + j - 1) \in Int
    BY <2>1, PowerNat
  <2>3. ~ (n < d * 2^(Precision + j - 1))
    BY <1>4, <2>1
  <2>4. \A x, y \in Int : ~ (x < y) => x >= y
    OBVIOUS
  <2>. QED  BY <2>2, <2>3, <2>4
<1>6. \E c \in 0..n :
         /\ n < d * 2^(Precision + c)
         /\ c = 0 \/ n >= d * 2^(Precision + c - 1)
  BY <1>3, <1>5
<1>. QED  BY <1>6 DEF Lost

\* What is rounded has all the bits of the significand.
LEMMA SignificandFull ==
  ASSUME NEW n \in Nat \ {0}, NEW d \in Nat \ {0},
         d * 2^(Precision - 1) <= n * 2^(2 * Precision)
  PROVE  n * 2^Places(n, d) >= (d * 2^Lost(n, d)) * 2^(Precision - 1)
<1>. DEFINE k == Places(n, d)
            j == Lost(n, d)
            h == 2^(Precision - 1)
<1>. SUFFICES n * 2^k >= (d * 2^j) * h
  OBVIOUS
<1>1. /\ k \in Nat /\ n * 2^k >= d * h
      /\ k = 0 \/ n * 2^(k - 1) < d * h
  BY PlacesEnough, ValuesAssumption
<1>2. /\ j \in Nat
      /\ j = 0 \/ n >= d * 2^(Precision + j - 1)
  BY LostEnough
<1>3. Precision - 1 \in Nat /\ h \in Nat \ {0} /\ 2^j \in Nat \ {0}
  BY <1>2, ValuesAssumption, PowerPositive
<1>4. 2^(Precision + j - 1) = 2^j * h
  <2>1. Precision + j - 1 = j + (Precision - 1)
    BY <1>2, ValuesAssumption
  <2>. QED  BY <2>1, <1>2, <1>3, PowerSum
<1>5. 2^0 = 1
  OBVIOUS
<1>6. CASE j = 0
  <2>1. d * 2^j = d
    BY <1>5, <1>6
  <2>. HIDE DEF k, j, h
  <2>. QED  BY <2>1, <1>1
<1>7. CASE j # 0
  <2>1. n >= (d * 2^j) * h
    <3>. HIDE DEF k, j, h
    <3>1. d * (2^j * h) = (d * 2^j) * h
      BY <1>3
    <3>. QED  BY <3>1, <1>2, <1>4, <1>7
  <2>2. k = 0
    <3>. SUFFICES ASSUME k # 0 PROVE FALSE
      OBVIOUS
    <3>1. 2^(k - 1) \in Nat \ {0}
      <4>1. k - 1 \in Nat
        BY <1>1
      <4>. QED  BY <4>1, PowerPositive
    <3>2. n <= n * 2^(k - 1)
      <4>1. \A x \in Nat \ {0} : n <= n * x
        OBVIOUS
      <4>. QED  BY <3>1, <4>1
    <3>3. d * h <= (d * 2^j) * h
      <4>1. \A x, y \in Nat \ {0} : d * x <= (d * y) * x
        OBVIOUS
      <4>. QED  BY <1>3, <4>1
    <3>4. n * 2^(k - 1) \in Int /\ d * h \in Int /\ (d * 2^j) * h \in Int
      BY <1>3, <3>1
    <3>. HIDE DEF k, j, h
    <3>. QED  BY <1>1, <2>1, <3>2, <3>3, <3>4
  <2>3. n * 2^k = n
    BY <1>5, <2>2
  <2>. QED  BY <2>1, <2>3
<1>. QED  BY <1>6, <1>7

\* Rounding to the nearest whole number is off by half of one at most.
LEMMA NearestClose ==
  ASSUME NEW n \in Nat, NEW d \in Nat \ {0}
  PROVE  /\ Nearest(n, d) \in Nat
         /\ 2 * n <= 2 * (Nearest(n, d) * d) + d
         /\ 2 * (Nearest(n, d) * d) <= 2 * n + d
         /\ \A b \in Nat : d * b <= n => b <= Nearest(n, d)
<1>. DEFINE q == n \div d
            r == n % d
<1>1. q \in Nat /\ r \in 0..(d - 1) /\ n = d * q + r
  OBVIOUS
<1>2. Nearest(n, d) = IF 2 * r > d \/ (2 * r = d /\ q % 2 = 1) THEN q + 1 ELSE q
  BY DEF Nearest
<1>3. \/ Nearest(n, d) = q /\ 2 * r <= d
      \/ Nearest(n, d) = q + 1 /\ 2 * r >= d
  <2>. HIDE DEF q, r
  <2>1. 2 * r > d \/ 2 * r <= d
    BY <1>1
  <2>2. 2 * r > d => 2 * r >= d
    BY <1>1
  <2>3. 2 * r = d => 2 * r >= d
    BY <1>1
  <2>. QED  BY <1>1, <1>2, <2>1, <2>2, <2>3
<1>4. \A b \in Nat : d * b <= n => b <= q
  <2>. SUFFICES ASSUME NEW b \in Nat, d * b <= n, ~ (b <= q)
                PROVE  FALSE
    OBVIOUS
  <2>. HIDE DEF q, r
  <2>1. d * (q + 1) <= d * b
    <3>1. \A x, y \in Nat : x <= y => d * x <= d * y
      OBVIOUS
    <3>2. q + 1 <= b /\ q + 1 \in Nat
      BY <1>1
    <3>. QED  BY <3>1, <3>2
  <2>2. d * (q + 1) = d * q + d
    BY <1>1
  <2>3. d * q \in Nat /\ d * b \in Nat
    BY <1>1
  <2>. QED  BY <1>1, <2>1, <2>2, <2>3
<1>. HIDE DEF q, r
<1>5. q * d = d * q /\ (q + 1) * d = d * q + d /\ d * q \in Nat
  BY <1>1
<1>6. CASE Nearest(n, d) = q /\ 2 * r <= d
  BY <1>1, <1>4, <1>5, <1>6
<1>7. CASE Nearest(n, d) = q + 1 /\ 2 * r >= d
  <2>1. \A b \in Nat : b <= q => b <= q + 1
    BY <1>1
  <2>. QED  BY <1>1, <1>4, <1>5, <1>7, <2>1
<1>. QED  BY <1>3, <1>6, <1>7

\* A float is within one part in 2^Precision of what it stands for.
LEMMA FloatClose ==
  ASSUME NEW n \in Nat \ {0}, NEW d \in Nat \ {0},
         d * 2^(Precision - 1) <= n * 2^(2 * Precision)
  PROVE  LET v == Float(n, d)
             exact == n * 2^v.k
         IN /\ v.k \in 0..2 * Precision
            /\ v.m \in Nat /\ v.m >= 2^(Precision - 1)
            /\ 2^Precision * exact <= 2^Precision * (v.m * d) + exact
            /\ 2^Precision * (v.m * d) <= 2^Precision * exact + exact
<1>. DEFINE k == Places(n, d)
            unit == 2^Lost(n, d)
            N == n * 2^k
            D == d * unit
            h == 2^(Precision - 1)
            q == Nearest(N, D)
<1>1. k \in 0..2 * Precision /\ k \in Nat
  BY PlacesEnough, ValuesAssumption
<1>2. unit \in Nat \ {0}
  BY LostEnough, PowerPositive
<1>3. N \in Nat \ {0} /\ D \in Nat \ {0}
  <2>1. 2^k \in Nat \ {0}
    BY <1>1, PowerPositive
  <2>2. \A x, y \in Nat \ {0} : x * y \in Nat \ {0}
    OBVIOUS
  <2>. QED  BY <1>2, <2>1, <2>2
<1>4. h \in Nat \ {0} /\ 2^Precision = 2 * h
  <2>1. Precision - 1 \in Nat /\ (Precision - 1) + 1 = Precision
    BY ValuesAssumption
  <2>. QED  BY <2>1, PowerPositive, PowerDoubles
<1>5. D * h <= N
  BY SignificandFull, <1>3, <1>4
<1>6. Float(n, d) = [m |-> q * unit, k |-> k]
  BY DEF Float
<1>. HIDE DEF k, unit, N, D, h
<1>7. /\ q \in Nat /\ 2 * N <= 2 * (q * D) + D /\ 2 * (q * D) <= 2 * N + D
      /\ h <= q
  BY <1>3, <1>4, <1>5, NearestClose
<1>. HIDE DEF q
<1>8. q <= q * unit /\ q * unit \in Nat
  <2>1. \A x \in Nat, y \in Nat \ {0} : x <= x * y /\ x * y \in Nat
    OBVIOUS
  <2>. QED  BY <1>2, <1>7, <2>1
<1>9. (q * unit) * d = q * D
  BY <1>2, <1>7 DEF D
<1>10. q * D \in Nat
  BY <1>3, <1>7
<1>11. /\ (2 * h) * N <= (2 * h) * (q * D) + N
       /\ (2 * h) * (q * D) <= (2 * h) * N + N
  <2>. DEFINE e == q * D
  <2>1. /\ 2 * N <= 2 * e + D /\ 2 * e <= 2 * N + D /\ e \in Nat
    BY <1>7, <1>10
  <2>. HIDE DEF e
  <2>2. \A x, y \in Nat : x <= y => h * x <= h * y
    BY <1>4
  <2>3. h * (2 * N) <= h * (2 * e + D) /\ h * (2 * e) <= h * (2 * N + D)
    BY <2>1, <2>2, <1>3
  <2>4. /\ h * (2 * N) = (2 * h) * N /\ h * (2 * e + D) = (2 * h) * e + D * h
        /\ h * (2 * e) = (2 * h) * e /\ h * (2 * N + D) = (2 * h) * N + D * h
    BY <1>3, <1>4, <2>1
  <2>5. (2 * h) * N \in Nat /\ (2 * h) * e \in Nat /\ D * h \in Nat
    BY <1>3, <1>4, <2>1
  <2>6. /\ (2 * h) * N <= (2 * h) * e + N
        /\ (2 * h) * e <= (2 * h) * N + N
    BY <1>3, <1>5, <2>3, <2>4, <2>5
  <2>. QED  BY <2>6 DEF e
<1>12. /\ Float(n, d).m = q * unit /\ Float(n, d).k = k
  BY <1>6
<1>13. n * 2^k = N
  BY DEF N
<1>14. q * unit >= h
  BY <1>4, <1>7, <1>8
<1>. DEFINE F == Float(n, d)
<1>. SUFFICES /\ F.k \in 0..2 * Precision
              /\ F.m \in Nat /\ F.m >= h
              /\ 2^Precision * (n * 2^F.k) <= 2^Precision * (F.m * d) + n * 2^F.k
              /\ 2^Precision * (F.m * d) <= 2^Precision * (n * 2^F.k) + n * 2^F.k
  BY DEF h
<1>15. F.m = q * unit /\ F.k = k
  BY <1>12
<1>. HIDE DEF F
<1>16. F.m * d = q * D /\ n * 2^F.k = N
  BY <1>9, <1>13, <1>15
<1>. QED  BY <1>1, <1>4, <1>8, <1>11, <1>14, <1>15, <1>16
-----------------------------------------------------------------------------
(* From cents to reais and back *)

\* What two roundings, of a cent count made into reais and of a hundred times
\* those, leave of it: one part in 2^Precision is lost or won each time.
LEMMA TwiceRounded ==
  ASSUME NEW c \in Nat, NEW t \in Nat \ {0},
         NEW a \in Nat, NEW s \in Nat \ {0},
         NEW m \in Nat, NEW u \in Nat \ {0},
         t * (c * s) <= t * a + c * s,
         t * a <= t * (c * s) + c * s,
         t * (a * u) <= t * (m * s) + a * u,
         t * (m * s) <= t * (a * u) + a * u
  PROVE  /\ ((t - 1) * (t - 1)) * (c * u) <= (t * t) * m
         /\ (t * t) * m <= ((t + 1) * (t + 1)) * (c * u)
<1>1. \A x, y \in Int, z \in Nat : x <= y => z * x <= z * y
  OBVIOUS
<1>2. \A x, y \in Int, z \in Nat \ {0} : x * z <= y * z => x <= y
  OBVIOUS
<1>3. /\ (t - 1) * (c * s) <= t * a /\ t * a <= (t + 1) * (c * s)
      /\ (t - 1) * (a * u) <= t * (m * s) /\ t * (m * s) <= (t + 1) * (a * u)
  <2>1. \A p \in Int : (t - 1) * p = t * p - p /\ (t + 1) * p = t * p + p
    OBVIOUS
  <2>2. /\ c * s \in Int /\ a * u \in Int /\ m * s \in Int /\ t * a \in Int
        /\ t * (c * s) \in Int /\ t * (a * u) \in Int /\ t * (m * s) \in Int
    OBVIOUS
  <2>3. \A x, y, z \in Int : (x <= y + z => x - z <= y)
    OBVIOUS
  <2>. QED  BY <2>1, <2>2, <2>3
<1>4. (((t - 1) * (t - 1)) * (c * u)) * s <= ((t * t) * m) * s
  <2>1. t - 1 \in Nat /\ (t - 1) * u \in Nat
    OBVIOUS
  <2>2. ((t - 1) * u) * ((t - 1) * (c * s)) <= ((t - 1) * u) * (t * a)
    <3>1. (t - 1) * (c * s) \in Int /\ t * a \in Int
      OBVIOUS
    <3>. QED  BY <1>1, <1>3, <2>1, <3>1
  <2>3. t * ((t - 1) * (a * u)) <= t * (t * (m * s))
    <3>1. (t - 1) * (a * u) \in Int /\ t * (m * s) \in Int
      OBVIOUS
    <3>. QED  BY <1>1, <1>3, <3>1
  <2>4. ((t - 1) * u) * ((t - 1) * (c * s)) = (((t - 1) * (t - 1)) * (c * u)) * s
    OBVIOUS
  <2>5. ((t - 1) * u) * (t * a) = t * ((t - 1) * (a * u))
    OBVIOUS
  <2>6. t * (t * (m * s)) = ((t * t) * m) * s
    OBVIOUS
  <2>7. \A x, y, z \in Int : x <= y /\ y <= z => x <= z
    OBVIOUS
  <2>8. /\ (((t - 1) * (t - 1)) * (c * u)) * s \in Int
        /\ t * ((t - 1) * (a * u)) \in Int
        /\ ((t * t) * m) * s \in Int
    OBVIOUS
  <2>. QED  BY <2>2, <2>3, <2>4, <2>5, <2>6, <2>7, <2>8
<1>5. ((t * t) * m) * s <= (((t + 1) * (t + 1)) * (c * u)) * s
  <2>1. t + 1 \in Nat /\ (t + 1) * u \in Nat
    OBVIOUS
  <2>2. ((t + 1) * u) * (t * a) <= ((t + 1) * u) * ((t + 1) * (c * s))
    <3>1. (t + 1) * (c * s) \in Int /\ t * a \in Int
      OBVIOUS
    <3>. QED  BY <1>1, <1>3, <2>1, <3>1
  <2>3. t * (t * (m * s)) <= t * ((t + 1) * (a * u))
    <3>1. (t + 1) * (a * u) \in Int /\ t * (m * s) \in Int
      OBVIOUS
    <3>. QED  BY <1>1, <1>3, <3>1
  <2>4. ((t + 1) * u) * ((t + 1) * (c * s)) = (((t + 1) * (t + 1)) * (c * u)) * s
    OBVIOUS
  <2>5. ((t + 1) * u) * (t * a) = t * ((t + 1) * (a * u))
    OBVIOUS
  <2>6. t * (t * (m * s)) = ((t * t) * m) * s
    OBVIOUS
  <2>7. \A x, y, z \in Int : x <= y /\ y <= z => x <= z
    OBVIOUS
  <2>8. /\ (((t + 1) * (t + 1)) * (c * u)) * s \in Int
        /\ t * ((t + 1) * (a * u)) \in Int
        /\ ((t * t) * m) * s \in Int
    OBVIOUS
  <2>. QED  BY <2>2, <2>3, <2>4, <2>5, <2>6, <2>7, <2>8
<1>6. /\ ((t - 1) * (t - 1)) * (c * u) \in Int
      /\ (t * t) * m \in Int
      /\ ((t + 1) * (t + 1)) * (c * u) \in Int
  OBVIOUS
<1>. QED  BY <1>2, <1>4, <1>5, <1>6

\* Less than a quarter of t, that is less than half of one away.
LEMMA WithinHalf ==
  ASSUME NEW c \in Nat, NEW t \in Nat \ {0}, NEW m \in Nat, NEW u \in Nat \ {0},
         4 * c < t,
         ((t - 1) * (t - 1)) * (c * u) <= (t * t) * m,
         (t * t) * m <= ((t + 1) * (t + 1)) * (c * u)
  PROVE  (2 * c) * u <= 2 * m + u /\ 2 * m + u < (2 * (c + 1)) * u
<1>1. \A x, y \in Int, z \in Nat \ {0} : z * x < z * y => x < y
  OBVIOUS
<1>2. \A x, y \in Int, z \in Nat \ {0} : z * x <= z * y => x <= y
  OBVIOUS
<1>3. t * t \in Nat \ {0}
  OBVIOUS
<1>4. (2 * c) * (2 * t + 1) < t * t
  <2>1. 4 * c <= t - 1 /\ 2 * t + 1 \in Nat
    OBVIOUS
  <2>2. (4 * c) * (2 * t + 1) <= (t - 1) * (2 * t + 1)
    BY <2>1
  <2>3. (t - 1) * (2 * t + 1) = 2 * (t * t) - t - 1
    OBVIOUS
  <2>4. (4 * c) * (2 * t + 1) = 2 * ((2 * c) * (2 * t + 1))
    OBVIOUS
  <2>5. (2 * c) * (2 * t + 1) \in Int /\ t * t \in Int
    OBVIOUS
  <2>. QED  BY <2>2, <2>3, <2>4, <2>5
<1>5. 2 * (((t + 1) * (t + 1)) * c) < (t * t) * (2 * c + 1)
  <2>1. 2 * (((t + 1) * (t + 1)) * c) = (t * t) * (2 * c) + (2 * c) * (2 * t + 1)
    OBVIOUS
  <2>2. (t * t) * (2 * c + 1) = (t * t) * (2 * c) + t * t
    OBVIOUS
  <2>3. (t * t) * (2 * c) \in Int /\ (2 * c) * (2 * t + 1) \in Int /\ t * t \in Int
    OBVIOUS
  <2>. QED  BY <1>4, <2>1, <2>2, <2>3
<1>6. (t * t) * (2 * c - 1) <= 2 * (((t - 1) * (t - 1)) * c)
  <2>1. 2 * (((t - 1) * (t - 1)) * c) = (t * t) * (2 * c) - (2 * c) * (2 * t + 1) + 4 * c
    OBVIOUS
  <2>2. (t * t) * (2 * c - 1) = (t * t) * (2 * c) - t * t
    OBVIOUS
  <2>3. (t * t) * (2 * c) \in Int /\ (2 * c) * (2 * t + 1) \in Int /\ t * t \in Int
    OBVIOUS
  <2>. QED  BY <1>4, <2>1, <2>2, <2>3
<1>7. 2 * m < (2 * c + 1) * u
  <2>1. 2 * ((t * t) * m) <= 2 * (((t + 1) * (t + 1)) * (c * u))
    OBVIOUS
  <2>2. (2 * (((t + 1) * (t + 1)) * c)) * u < ((t * t) * (2 * c + 1)) * u
    <3>1. \A x, y \in Int : x < y => x * u < y * u
      OBVIOUS
    <3>2. 2 * (((t + 1) * (t + 1)) * c) \in Int /\ (t * t) * (2 * c + 1) \in Int
      OBVIOUS
    <3>. QED  BY <1>5, <3>1, <3>2
  <2>3. /\ 2 * ((t * t) * m) = (t * t) * (2 * m)
        /\ 2 * (((t + 1) * (t + 1)) * (c * u)) = (2 * (((t + 1) * (t + 1)) * c)) * u
        /\ ((t * t) * (2 * c + 1)) * u = (t * t) * ((2 * c + 1) * u)
    OBVIOUS
  <2>4. /\ (t * t) * (2 * m) \in Int /\ (t * t) * ((2 * c + 1) * u) \in Int
        /\ (2 * (((t + 1) * (t + 1)) * c)) * u \in Int
        /\ 2 * m \in Int /\ (2 * c + 1) * u \in Int
    OBVIOUS
  <2>5. (t * t) * (2 * m) < (t * t) * ((2 * c + 1) * u)
    BY <2>1, <2>2, <2>3, <2>4
  <2>. QED  BY <1>1, <1>3, <2>4, <2>5
<1>8. (2 * c - 1) * u <= 2 * m
  <2>1. 2 * (((t - 1) * (t - 1)) * (c * u)) <= 2 * ((t * t) * m)
    OBVIOUS
  <2>2. ((t * t) * (2 * c - 1)) * u <= (2 * (((t - 1) * (t - 1)) * c)) * u
    <3>1. \A x, y \in Int : x <= y => x * u <= y * u
      OBVIOUS
    <3>2. 2 * (((t - 1) * (t - 1)) * c) \in Int /\ (t * t) * (2 * c - 1) \in Int
      OBVIOUS
    <3>. QED  BY <1>6, <3>1, <3>2
  <2>3. /\ 2 * ((t * t) * m) = (t * t) * (2 * m)
        /\ 2 * (((t - 1) * (t - 1)) * (c * u)) = (2 * (((t - 1) * (t - 1)) * c)) * u
        /\ ((t * t) * (2 * c - 1)) * u = (t * t) * ((2 * c - 1) * u)
    OBVIOUS
  <2>4. /\ (t * t) * (2 * m) \in Int /\ (t * t) * ((2 * c - 1) * u) \in Int
        /\ (2 * (((t - 1) * (t - 1)) * c)) * u \in Int
        /\ 2 * m \in Int /\ (2 * c - 1) * u \in Int
    OBVIOUS
  <2>5. (t * t) * ((2 * c - 1) * u) <= (t * t) * (2 * m)
    BY <2>1, <2>2, <2>3, <2>4
  <2>. QED  BY <1>2, <1>3, <2>4, <2>5
<1>9. /\ (2 * c - 1) * u = (2 * c) * u - u /\ (2 * c + 1) * u = (2 * c) * u + u
      /\ (2 * (c + 1)) * u = (2 * c) * u + 2 * u /\ (2 * c) * u \in Int
  OBVIOUS
<1>. QED  BY <1>7, <1>8, <1>9

\* Of a number far out of range, enough is left to be out of range.
LEMMA StaysOut ==
  ASSUME NEW c \in Nat, NEW t \in Nat, NEW m \in Nat, NEW u \in Nat \ {0},
         NEW max \in Nat,
         4 <= t, 2 * (max + 1) <= c,
         ((t - 1) * (t - 1)) * (c * u) <= (t * t) * m
  PROVE  (2 * (max + 1)) * u <= 2 * m + u
<1>. DEFINE p == (t - 1) * (t - 1)
            w == t * t
            e == c * u
<1>1. w \in Nat \ {0} /\ p \in Nat /\ e \in Nat /\ p * e <= w * m
  OBVIOUS
<1>2. 9 * w <= 16 * p
  <2>1. 16 * p - 9 * w = (7 * t - 4) * (t - 4)
    OBVIOUS
  <2>2. (7 * t - 4) * (t - 4) \in Nat
    <3>1. 7 * t - 4 \in Nat /\ t - 4 \in Nat
      OBVIOUS
    <3>. QED  BY <3>1
  <2>. HIDE DEF p, w
  <2>. QED  BY <1>1, <2>1, <2>2
<1>3. (2 * (max + 1)) * u <= e
  <2>1. \A x, y \in Nat : x <= y => x * u <= y * u
    OBVIOUS
  <2>. QED  BY <2>1
<1>. HIDE DEF p, w, e
<1>4. (9 * w) * e <= (16 * p) * e
  <2>1. \A x, y \in Nat : x <= y => x * e <= y * e
    BY <1>1
  <2>. QED  BY <1>1, <1>2, <2>1
<1>5. (16 * p) * e <= 16 * (w * m)
  <2>1. (16 * p) * e = 16 * (p * e) /\ p * e \in Nat /\ w * m \in Nat
    BY <1>1
  <2>. QED  BY <1>1, <2>1
<1>6. w * (9 * e) <= w * (16 * m)
  <2>1. w * (9 * e) = (9 * w) * e /\ w * (16 * m) = 16 * (w * m)
    BY <1>1
  <2>2. (9 * w) * e \in Nat /\ (16 * p) * e \in Nat /\ 16 * (w * m) \in Nat
    BY <1>1
  <2>. QED  BY <1>4, <1>5, <2>1, <2>2
<1>7. 9 * e <= 16 * m
  <2>1. \A x, y \in Nat, z \in Nat \ {0} : z * x <= z * y => x <= y
    OBVIOUS
  <2>. QED  BY <1>1, <1>6, <2>1
<1>8. (2 * (max + 1)) * u \in Nat
  OBVIOUS
<1>. QED  BY <1>1, <1>3, <1>7, <1>8

\* The quotient that Round takes, between two bounds.
LEMMA Quotient ==
  ASSUME NEW x \in Nat, NEW d \in Nat \ {0}, NEW y \in Nat
  PROVE  /\ x \div d \in Nat
         /\ y * d <= x => y <= x \div d
         /\ y * d <= x /\ x < (y + 1) * d => x \div d = y
<1>. DEFINE q == x \div d
            r == x % d
<1>1. q \in Nat /\ r \in 0..(d - 1) /\ x = d * q + r
  OBVIOUS
<1>. HIDE DEF q, r
<1>2. \A a, b \in Nat : a + 1 <= b => d * a + d <= d * b
  <2>. TAKE a, b \in Nat
  <2>. HAVE a + 1 <= b
  <2>1. d * (a + 1) <= d * b /\ d * (a + 1) = d * a + d
    OBVIOUS
  <2>. QED  BY <2>1
<1>3. d * q \in Nat /\ d * y \in Nat /\ y * d = d * y /\ (y + 1) * d = d * y + d
  BY <1>1
<1>4. y * d <= x => y <= q
  <2>. SUFFICES ASSUME y * d <= x, q + 1 <= y PROVE FALSE
    BY <1>1
  <2>1. d * q + d <= d * y
    BY <1>1, <1>2
  <2>. QED  BY <1>1, <1>3, <2>1
<1>5. x < (y + 1) * d => q <= y
  <2>. SUFFICES ASSUME x < (y + 1) * d, y + 1 <= q PROVE FALSE
    BY <1>1
  <2>1. d * y + d <= d * q
    BY <1>1, <1>2
  <2>. QED  BY <1>1, <1>3, <2>1
<1>. QED  BY <1>1, <1>4, <1>5 DEF q

\* Six bits are enough for a cent.
LEMMA SmallestFits ==
  ASSUME Precision >= 6
  PROVE  /\ \A c \in Nat \ {0} :
              100 * 2^(Precision - 1) <= c * 2^(2 * Precision)
         /\ \A k \in 0..2 * Precision, m \in Nat :
              2^(Precision - 1) <= m =>
                2^k * 2^(Precision - 1) <= (m * 100) * 2^(2 * Precision)
<1>. DEFINE h == 2^(Precision - 1)
            g == 2^(Precision + 1)
            all == 2^(2 * Precision)
<1>1. /\ Precision - 1 \in Nat /\ Precision + 1 \in Nat /\ 2 * Precision \in Nat
      /\ 2 * Precision = (Precision - 1) + (Precision + 1)
      /\ 7 \in Nat /\ 7 <= Precision + 1
  BY ValuesAssumption
<1>2. all = h * g /\ h \in Nat \ {0} /\ g \in Nat \ {0} /\ all \in Nat \ {0}
  BY <1>1, PowerSum, PowerPositive
<1>3. 100 <= g
  <2>1. 2^7 <= g
    BY <1>1, PowerGrows
  <2>2. 2^7 = 128
    OBVIOUS
  <2>. HIDE DEF g
  <2>. QED  BY <1>2, <2>1, <2>2
<1>4. \A k \in 0..2 * Precision : 2^k <= all /\ 2^k \in Nat
  BY <1>1, PowerGrows, PowerNat
<1>. HIDE DEF h, g, all
<1>5. 100 * h <= all
  <2>1. 100 * h <= g * h /\ g * h = h * g
    BY <1>2, <1>3
  <2>. QED  BY <1>2, <2>1
<1>6. \A c \in Nat \ {0} : 100 * h <= c * all
  <2>. TAKE c \in Nat \ {0}
  <2>1. all <= c * all /\ c * all \in Nat
    BY <1>2
  <2>. QED  BY <1>2, <1>5, <2>1
<1>7. \A k \in 0..2 * Precision, m \in Nat : h <= m => 2^k * h <= (m * 100) * all
  <2>. SUFFICES ASSUME NEW k \in 0..2 * Precision, NEW m \in Nat, h <= m
                PROVE  2^k * h <= (m * 100) * all
    OBVIOUS
  <2>. DEFINE x == 2^k
  <2>1. x <= all /\ x \in Nat
    BY <1>4
  <2>. HIDE DEF x
  <2>2. x * h <= all * h
    BY <1>2, <2>1
  <2>3. all * h <= all * (m * 100)
    <3>1. h <= m * 100
      BY <1>2
    <3>2. \A y, z \in Nat : y <= z => all * y <= all * z
      BY <1>2
    <3>3. h \in Nat /\ m * 100 \in Nat
      BY <1>2
    <3>. QED  BY <3>1, <3>2, <3>3
  <2>4. x * h \in Nat /\ all * h \in Nat /\ all * (m * 100) = (m * 100) * all
    BY <1>2, <2>1
  <2>5. (m * 100) * all \in Nat
    BY <1>2
  <2>. QED  BY <2>2, <2>3, <2>4, <2>5 DEF x
<1>. QED  BY <1>6, <1>7 DEF h, all

\* What comes back from reais, before it is made an integer of 64 bits.
LEMMA RoundTrip ==
  ASSUME NEW c \in Nat \ {0}, Precision >= 6
  PROVE  LET v == centsToReais(c)
             w == Float(v.m * 100, 2^v.k)
         IN /\ Round(w) \in Nat
            /\ 4 * c < 2^Precision => Round(w) = c
            /\ \A max \in Nat : 2 * (max + 1) <= c => max + 1 <= Round(w)
<1>. DEFINE v == centsToReais(c)
            w == Float(v.m * 100, 2^v.k)
            t == 2^Precision
            a == v.m * 100
            s == 2^v.k
            m == w.m
            u == 2^w.k
<1>1. v = Float(c, 100)
  BY DEF centsToReais
<1>2. /\ v.k \in 0..2 * Precision
      /\ v.m \in Nat /\ v.m >= 2^(Precision - 1)
      /\ t * (c * s) <= t * a + c * s
      /\ t * a <= t * (c * s) + c * s
  <2>1. 100 * 2^(Precision - 1) <= c * 2^(2 * Precision) /\ 100 \in Nat \ {0}
    BY SmallestFits
  <2>2. LET x == Float(c, 100)
            exact == c * 2^x.k
        IN /\ x.k \in 0..2 * Precision
           /\ x.m \in Nat /\ x.m >= 2^(Precision - 1)
           /\ 2^Precision * exact <= 2^Precision * (x.m * 100) + exact
           /\ 2^Precision * (x.m * 100) <= 2^Precision * exact + exact
    BY <2>1, FloatClose
  <2>. QED  BY <1>1, <2>2
<1>3. t \in Nat \ {0} /\ 2^(Precision - 1) \in Nat \ {0} /\ 64 <= t
  <2>1. Precision \in Nat /\ Precision - 1 \in Nat /\ 6 \in Nat /\ 6 <= Precision
    BY ValuesAssumption
  <2>2. 2^6 <= t
    BY <2>1, PowerGrows
  <2>3. 2^6 = 64
    OBVIOUS
  <2>4. t \in Nat \ {0} /\ 2^(Precision - 1) \in Nat \ {0}
    BY <2>1, PowerPositive
  <2>. HIDE DEF t
  <2>. QED  BY <2>2, <2>3, <2>4
<1>4. s \in Nat \ {0}
  <2>1. v.k \in Nat
    BY <1>2, ValuesAssumption
  <2>. QED  BY <2>1, PowerPositive
<1>5. a \in Nat \ {0}
  <2>. HIDE DEF v
  <2>. QED  BY <1>2, <1>3
<1>6. /\ w.k \in 0..2 * Precision
      /\ m \in Nat
      /\ t * (a * u) <= t * (m * s) + a * u
      /\ t * (m * s) <= t * (a * u) + a * u
  <2>1. s * 2^(Precision - 1) <= a * 2^(2 * Precision)
    <3>. HIDE DEF v
    <3>1. 2^(Precision - 1) <= v.m
      BY <1>2, <1>3
    <3>. QED  BY <1>2, <3>1, SmallestFits
  <2>. HIDE DEF a, s, v
  <2>2. LET x == Float(a, s)
            exact == a * 2^x.k
        IN /\ x.k \in 0..2 * Precision
           /\ x.m \in Nat /\ x.m >= 2^(Precision - 1)
           /\ 2^Precision * exact <= 2^Precision * (x.m * s) + exact
           /\ 2^Precision * (x.m * s) <= 2^Precision * exact + exact
    BY <1>4, <1>5, <2>1, FloatClose
  <2>3. w = Float(a, s)
    BY DEF a, s
  <2>. HIDE DEF w
  <2>. QED  BY <2>2, <2>3
<1>7. u \in Nat \ {0} /\ 2^(w.k + 1) = 2 * u
  <2>. HIDE DEF w
  <2>1. w.k \in Nat
    BY <1>6, ValuesAssumption
  <2>. QED  BY <2>1, PowerPositive, PowerDoubles
<1>8. Round(w) = (2 * m + u) \div (2 * u)
  <2>. HIDE DEF w
  <2>. QED  BY <1>7 DEF Round
<1>. HIDE DEF v, w, t, a, s, m, u
<1>9. /\ ((t - 1) * (t - 1)) * (c * u) <= (t * t) * m
      /\ (t * t) * m <= ((t + 1) * (t + 1)) * (c * u)
  BY <1>2, <1>3, <1>4, <1>5, <1>6, <1>7, TwiceRounded
<1>10. 2 * m + u \in Nat /\ 2 * u \in Nat \ {0}
  BY <1>6, <1>7
<1>11. Round(w) \in Nat
  BY <1>8, <1>10, Quotient
<1>12. ASSUME 4 * c < t PROVE Round(w) = c
  <2>1. (2 * c) * u <= 2 * m + u /\ 2 * m + u < (2 * (c + 1)) * u
    BY <1>3, <1>6, <1>7, <1>9, <1>12, WithinHalf
  <2>2. c * (2 * u) = (2 * c) * u /\ (c + 1) * (2 * u) = (2 * (c + 1)) * u
    BY <1>7
  <2>. QED  BY <1>8, <1>10, <2>1, <2>2, Quotient
<1>13. ASSUME NEW max \in Nat, 2 * (max + 1) <= c PROVE max + 1 <= Round(w)
  <2>1. (2 * (max + 1)) * u <= 2 * m + u
    BY <1>3, <1>6, <1>7, <1>9, <1>13, StaysOut
  <2>2. (max + 1) * (2 * u) = (2 * (max + 1)) * u /\ max + 1 \in Nat
    BY <1>7
  <2>. QED  BY <1>8, <1>10, <2>1, <2>2, Quotient
<1>. SUFFICES /\ Round(w) \in Nat
              /\ 4 * c < t => Round(w) = c
              /\ \A max \in Nat : 2 * (max + 1) <= c => max + 1 <= Round(w)
  BY DEF v, w, t
<1>. QED  BY <1>11, <1>12, <1>13

\* What is stored is what was asked for, or what does not fit.
LEMMA RequestedClear ==
  ASSUME NEW c \in Nat \ {0}, NEW build \in Machines, Precision >= 6,
         4 * c < 2^Precision \/ c >= 2 * (MaxAmount + 1),
         Requested(build, c) # c
  PROVE  /\ c > MaxAmount
         /\ Requested(build, c) <= 0 \/ Requested(build, c) = MaxAmount
<1>. DEFINE v == centsToReais(c)
            x == Round(Float(v.m * 100, 2^v.k))
<1>1. /\ x \in Nat
      /\ 4 * c < 2^Precision => x = c
      /\ \A max \in Nat : 2 * (max + 1) <= c => max + 1 <= x
  BY RoundTrip
<1>2. Requested(build, c) =
        IF -MaxAmount - 1 <= x /\ x <= MaxAmount THEN x
        ELSE IF build = "nearest" /\ x > MaxAmount THEN MaxAmount
        ELSE -MaxAmount - 1
  BY DEF Requested, reaisToCents, ToInt64
<1>. HIDE DEF v, x
<1>3. MaxAmount \in Nat
  BY CalendarAssumption
<1>4. CASE 4 * c < 2^Precision
  BY <1>1, <1>2, <1>3, <1>4
<1>5. CASE c >= 2 * (MaxAmount + 1)
  <2>1. MaxAmount + 1 <= x
    BY <1>1, <1>3, <1>5
  <2>. QED  BY <1>1, <1>2, <1>3, <1>5, <2>1
<1>. QED  BY <1>4, <1>5

\* The amount a charge is stored with is the one that was asked for, or that
\* one does not fit and is refused or made the largest (money.go:5-11): with
\* float64, for every amount of fewer than 2^51 cents, and from 2^64 on.
THEOREM Survival ==
  ASSUME Precision >= 6, AmountsClear
  PROVE  Spec => []AmountsSurvive
<1>1. AmountsSurvive
  <2>. SUFFICES ASSUME NEW r \in Misread, r.build = machine
                PROVE  r.cents > MaxAmount /\ (r.amount <= 0 \/ r.amount = MaxAmount)
    BY DEF AmountsSurvive
  <2>1. PICK build \in Machines, cents \in Amounts :
          r = [build |-> build, cents |-> cents, amount |-> Requested(build, cents)]
    BY DEF Misread
  <2>2. r.cents = cents /\ r.amount = Requested(build, cents)
    BY <2>1
  <2>3. r.amount # r.cents
    BY DEF Misread
  <2>4. cents \in Nat \ {0}
    BY CalendarAssumption
  <2>5. 4 * cents < 2^Precision \/ cents >= 2 * (MaxAmount + 1)
    BY DEF AmountsClear
  <2>. QED  BY <2>2, <2>3, <2>4, <2>5, RequestedClear
<1>. QED  BY <1>1, PTL
===============================================================================
