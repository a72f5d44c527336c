------------------------------- MODULE Values -------------------------------
(***************************************************************************)
(* The conversions of the program, as operators: instants written as text  *)
(* and compared as text by SQLite (engine/store.go), numbers that are too  *)
(* large for 64 bits (admin.go, money.go), and reais in binary floating    *)
(* point made into cents (money.go).                                       *)
(*                                                                         *)
(* An instant is a number: ten times its year, plus one digit that stands  *)
(* for the rest of it, month to nanosecond, which is text of fixed width   *)
(* in every layout used.  A text is a sequence of characters, a character  *)
(* a number in the order of its code.                                      *)
(***************************************************************************)
EXTENDS Integers, Sequences

CONSTANTS Precision   \* bits in the significand of a float64

ASSUME ValuesAssumption == Precision \in Nat \ {0}
-----------------------------------------------------------------------------
(* Instants as text *)

Dash == -1
Zulu == 10

Myriad == 10000

Four(n) == <<n \div 1000, (n \div 100) % 10, (n \div 10) % 10, n % 10>>

\* time.Format pads a year to four digits, and does not cut a longer one.
YearText(y) ==
  IF y < 0 THEN <<Dash>> \o Four(-y)
  ELSE IF y < Myriad THEN Four(y)
  ELSE <<y \div Myriad>> \o Four(y % Myriad)

\* As RFC3339Nano has it, the trailing zero goes.
TrimmedTime(t) ==
  YearText(t \div 10)
    \o (IF t % 10 = 0 THEN <<Dash, Zulu>> ELSE <<Dash, t % 10, Zulu>>)

FormatTime(t) == YearText(t \div 10) \o <<Dash, t % 10, Zulu>>

\* time.Parse with the same layout wants exactly four digits for the year.
Parses(text) ==
  /\ Len(text) = 7 /\ text[5] = Dash /\ text[7] = Zulu
  /\ \A i \in {1, 2, 3, 4, 6} : text[i] \in 0..9

\* due_date <= ?, in SQLite's binary order of text.
Before(a, b) ==
  \E i \in 1..Len(b) :
    /\ \A j \in 1..(i - 1) : j <= Len(a) /\ a[j] = b[j]
    /\ i > Len(a) \/ a[i] < b[i]

AtOrBefore(a, b) == a = b \/ Before(a, b)

\* The instants a layout with four digits can write.
FourDigits(t) == t \in 0..99999
-----------------------------------------------------------------------------
(* A float64 made into an int64 *)

\* Out of range the result is the machine's: the smallest number, or the
\* nearest one.
Machines == {"smallest", "nearest"}

ToInt64(build, x, max) ==
  IF -max - 1 <= x /\ x <= max THEN x
  ELSE IF build = "nearest" /\ x > max THEN max ELSE -max - 1
-----------------------------------------------------------------------------
(* Money: a float64 is m divided by 2^k *)

\* The binary places after the point that leave Precision bits of n/d, and
\* the places before it that are lost when there are more of them.
Places(n, d) ==
  CHOOSE k \in 0..2 * Precision :
    /\ n * 2^k >= d * 2^(Precision - 1)
    /\ k = 0 \/ n * 2^(k - 1) < d * 2^(Precision - 1)

Lost(n, d) ==
  CHOOSE j \in 0..n :
    /\ n < d * 2^(Precision + j)
    /\ j = 0 \/ n >= d * 2^(Precision + j - 1)

Nearest(n, d) ==
  LET q == n \div d
      r == n % d
  IN IF 2 * r > d \/ (2 * r = d /\ q % 2 = 1) THEN q + 1 ELSE q

\* The float nearest to n/d (half to even), for n/d > 2^-Precision.
Float(n, d) ==
  LET unit == 2^Lost(n, d)
  IN [m |-> Nearest(n * 2^Places(n, d), d * unit) * unit, k |-> Places(n, d)]

Truncate(v) == v.m \div 2^v.k
Round(v) == (2 * v.m + 2^v.k) \div 2^(v.k + 1)

centsToReais(cents) == Float(cents, 100)

reaisToCents(build, value, max) ==
  ToInt64(build, Round(Float(value.m * 100, 2^value.k)), max)
=============================================================================
