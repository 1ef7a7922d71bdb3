----------------------------- MODULE RfmSegments -----------------------------
(***************************************************************************)
(* services/rfm.py and rfm_data.py: the RFM rows of a period, their scores *)
(* and segments.  A sale is [date, client, amount, ...]; dates are day     *)
(* numbers, a client is a set with at most one element.                    *)
(***************************************************************************)
EXTENDS Integers, Sequences, FiniteSets, FiniteSetsExt

New_days  == 30
Lost_days == 180

(* Day numbers of the calendar.                                             *)
Leap(y) == (y % 4 = 0 /\ y % 100 # 0) \/ y % 400 = 0
Before(y, m) ==
    <<0, 31, 59, 90, 120, 151, 181, 212, 243, 273, 304, 334>>[m]
        + (IF Leap(y) /\ m > 2 THEN 1 ELSE 0)
Day(d) == 365 * (d.y - 1) + (d.y - 1) \div 4 - (d.y - 1) \div 100 + (d.y - 1) \div 400
              + Before(d.y, d.m) + d.d

(* The first day of the twelve months that end with d: 29 February goes     *)
(* over to 1 March, as it does in the browser.                              *)
SnapshotPeriod(d) == [from |-> Day([y |-> d.y - 1, m |-> d.m, d |-> 1]) + d.d - 1,
                      to   |-> Day(d)]

(* tied_quintiles: of gives each row its value, the result each value its   *)
(* score, by the place of its middle among all rows.                        *)
TiedQuintiles(of, highIsGood) ==
    LET keys   == DOMAIN of
        values == {of[k] : k \in keys}
        count(v) == Cardinality({k \in keys : of[k] = v})
        passed[v \in values] ==
            LET less == {x \in values : x < v} IN
            IF less = {} THEN 0 ELSE passed[Max(less)] + count(Max(less))
        score(v) == Min({5, ((2 * passed[v] + count(v)) * 5) \div (2 * Cardinality(keys)) + 1}) IN
    [v \in values |-> IF highIsGood THEN score(v) ELSE 6 - score(v)]

(* interval_statistics: the mean interval between distinct purchase days is *)
(* span / gaps; overdue(n, d) says that recency is at least n/d intervals.  *)
Overdue(row, n, d) ==
    /\ Cardinality(row.days) > 1
    /\ row.recency * (Cardinality(row.days) - 1) * d >= n * (Max(row.days) - Min(row.days))

SegmentClient(row, r, f, m) ==
    LET lost     == row.recency >= Lost_days \/ Overdue(row, 3, 1)
        sleeping == (Overdue(row, 3, 2) \/ r <= 2) /\ (f >= 3 \/ m >= 3)
        new      == row.known <= New_days /\ row.frequency <= 2 IN
    IF lost THEN IF f <= 2 /\ m <= 2 THEN "inactive" ELSE "lost"
    ELSE IF sleeping THEN "falling asleep"
    ELSE IF new THEN "new"
    ELSE IF r >= 4 /\ f >= 4 THEN "regular"
    ELSE IF r >= 4 /\ row.frequency >= 2 THEN "promising"
    ELSE IF m >= 5 THEN "large"
    ELSE IF f <= 2 THEN "rare" ELSE "inactive"

(* The two statements of rfm_rows: the purchases of the period, and the     *)
(* first purchases of all time up to its end.                               *)
Current(sales, period) ==
    {s \in sales : s.client # {} /\ s.date >= period.from /\ s.date <= period.to}
History(sales, period) ==
    LET known == {s \in sales : s.client # {} /\ s.date <= period.to} IN
    [c \in UNION {s.client : s \in known} |-> Min({s.date : s \in {x \in known : x.client = {c}}})]

RfmRows(current, history, period) ==
    {LET own == {s \in current : s.client = {c}} IN
     [client |-> c, days |-> {s.date : s \in own}, frequency |-> Cardinality(own),
      monetary |-> MapThenSumSet(LAMBDA s : s.amount, own),
      recency |-> period.to - Max({s.date : s \in own}),
      known |-> period.to - history[c]]
     : c \in UNION {s.client : s \in current}}

Enrich(rows) ==
    LET r == TiedQuintiles([x \in rows |-> x.recency], FALSE)
        f == TiedQuintiles([x \in rows |-> x.frequency], TRUE)
        m == TiedQuintiles([x \in rows |-> x.monetary], TRUE) IN
    {[client |-> x.client, r |-> r[x.recency], f |-> f[x.frequency], m |-> m[x.monetary],
      segment |-> SegmentClient(x, r[x.recency], f[x.frequency], m[x.monetary])] : x \in rows}
=============================================================================
