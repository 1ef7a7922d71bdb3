----------------------------- MODULE PurchaseCycle -----------------------------
(***************************************************************************)
(* A client's purchase cycle: the distinct days of purchases, the gaps       *)
(* between them, their quartiles and the two rules that turn them into a     *)
(* verdict about a client's absence.  Dates are day numbers.  A quartile is  *)
(* kept four times its value, a threshold is a whole number of days.         *)
(***************************************************************************)
EXTENDS Integers, SequencesExt

CONSTANTS
    CycleDays,      \* POLICY cycle_days: days of history the cycle is taken from
    MinDays,        \* the pilot's min_days
    MinGaps         \* the pilot's min_gaps

ASSUME CycleAssumption ==
    CycleDays \in Nat \ {0} /\ MinDays \in Nat /\ MinGaps \in Nat

(* Ascending: SetToSortSeq, without its search through all sequences over S. *)
InOrder(S) ==
    [i \in 1..Cardinality(S) |-> CHOOSE d \in S : Cardinality({e \in S : e <= d}) = i]

(* The gaps between consecutive days, shortest first. *)
Gaps(days) ==
    LET d == InOrder(days)
    IN  SortSeq([i \in 1..(Len(d) - 1) |-> d[i + 1] - d[i]], <)

(* Four times the inclusive k-th quartile of a sorted nonempty sequence. *)
Quartile4(gaps, k) ==
    LET at == (Len(gaps) - 1) * k
        i  == 1 + at \div 4
    IN  IF at % 4 = 0 THEN 4 * gaps[i]
        ELSE 4 * gaps[i] + (at % 4) * (gaps[i + 1] - gaps[i])

(* One row of the features query: the days with a positive check inside the  *)
(* window make the cycle, the last purchase is looked for before it as well. *)
Features(days, asOf) ==
    LET cycle == {d \in days : d >= asOf - (CycleDays - 1)}
    IN  [last |-> IF days = {} THEN 0 ELSE Max(days),
         count |-> Cardinality(cycle),
         gaps |-> Gaps(cycle)]

(* churn_pilot.evaluate: an individual cycle, overdue strictly after the     *)
(* median gap.                                                               *)
Verdict(f, asOf) ==
    LET reason == IF f.last = 0 \/ f.count = 0 THEN "NO_VALID_PURCHASE_DAYS"
                  ELSE IF f.count < MinDays \/ Len(f.gaps) < MinGaps
                  THEN "INSUFFICIENT_HISTORY" ELSE "ELIGIBLE"
    IN  [reason |-> reason,
         eligible |-> reason = "ELIGIBLE",
         risk |-> /\ reason = "ELIGIBLE"
                  /\ asOf - f.last >= Quartile4(f.gaps, 2) \div 4 + 1]
=============================================================================
