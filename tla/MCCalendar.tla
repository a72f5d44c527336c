----------------------------- MODULE MCCalendar -----------------------------
(* Instances of Calendar for TLC. *)
EXTENDS Calendar

\* One advance by the largest duration stands for the many that lead from the
\* year 2026 to the year 10000; one by the smallest leads before the year 0.
Longest == 79740
Reached == {-59481, 20259, 20260, 20261, 99999, 100000}
Today == {20260}
Asked == {0, 1, Longest, -Longest - 1, Longest + 1}

\* Due in the year 1000, on both sides of today, and at the last instant of
\* four digits.
DueDates == {10005, 20260, 20265, 99999}

\* Every amount of which eight bits keep the cents, and of those that are too
\* large one whose reais have bits to spare and one whose reais have not.
Carried == 1..63 \cup {202, 30001}
Largest == 100

\* The instance is one that the theorem about amounts speaks of.
ASSUME CarriedClear == AmountsClear
=============================================================================
