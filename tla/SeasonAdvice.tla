------------------------------ MODULE SeasonAdvice ------------------------------
(***************************************************************************)
(* services/seasonality.py, what a finished profile says day by day: its    *)
(* windows on the circle of months, the status of a product (describe) and  *)
(* the advice for a row of the promotion report (recommend).  The months     *)
(* that sell high are an input here.                                        *)
(***************************************************************************)
EXTENDS Integers, FiniteSets

CONSTANTS
    Profiles,      \* the sets of high months to walk through, January is 0
    Offers,        \* the report rows: see Offer
    LastMonth      \* months of the walk, from a January

Months == 0..11
Offer  == [stock : BOOLEAN,        \* there is stock, and enough in the main store
           stops : {"none", "growing", "other"},
           excess : BOOLEAN,       \* "excess stock" is among its reasons
           candidate : BOOLEAN,    \* a candidate with reasons
           low : BOOLEAN]          \* sold less than 80% of what is expected

ASSUME SeasonAssumption ==
    Profiles \subseteq SUBSET Months /\ Offers \subseteq Offer /\ LastMonth \in Nat

VARIABLES high, offer, today, month   \* today in days, its month counted on over the years
seasonVars == <<high, offer, today, month>>

(* The calendar: a leap year first.                                         *)
MonthDays(n) ==
    CASE n % 12 \in {3, 5, 8, 10} -> 30
      [] n % 12 = 1 -> IF n % 48 = 1 THEN 29 ELSE 28
      [] OTHER -> 31
FirstDay[n \in 0..(LastMonth + 24)] ==
    IF n = 0 THEN 0 ELSE FirstDay[n - 1] + MonthDays(n - 1)

SeasonInit == high \in Profiles /\ offer \in Offers /\ today = 0 /\ month = 0
NextDay ==
    /\ month < LastMonth /\ today' = today + 1
    /\ month' = IF today' = FirstDay[month + 1] THEN month + 1 ELSE month
    /\ UNCHANGED <<high, offer>>
SeasonSpec == SeasonInit /\ [][NextDay]_seasonVars

--------------------------------------------------------- (* The windows *)
(* From each month that is high after one that is not, as far as it goes;    *)
(* single months and more than eight are no season.                         *)
WindowFrom(start) ==
    LET length == CHOOSE l \in 1..12 :
            /\ \A o \in 0..(l - 1) : (start + o) % 12 \in high
            /\ l = 12 \/ (start + l) % 12 \notin high
    IN  [start |-> start, end |-> (start + length - 1) % 12, length |-> length]
WindowMonths(w) == {(w.start + o) % 12 : o \in 0..(w.length - 1)}
Windows ==
    {w \in {WindowFrom(s) : s \in {m \in high : (m + 11) % 12 \notin high}} : w.length \in 2..8}

(* The status: a window that has this month, or the one that begins next,     *)
(* this year or the year after.                                             *)
ActiveWindow == {w \in Windows : month % 12 \in WindowMonths(w)}
NextStart(w) ==
    LET thisYear == (month \div 12) * 12 + w.start IN
    IF FirstDay[thisYear] < today THEN FirstDay[thisYear + 12] ELSE FirstDay[thisYear]
Upcoming == CHOOSE w \in Windows : \A v \in Windows : NextStart(w) <= NextStart(v)
Status ==
    IF Windows = {} THEN "no season"
    ELSE IF ActiveWindow # {} THEN "season"
    ELSE IF NextStart(Upcoming) - today <= 45 THEN "soon" ELSE "outside"

---------------------------------------------------------- (* The advice *)
(* Mutant of SeasonEnd: a season ends in the year in which it is asked for.  *)
SeasonEndThisYear(w) == FirstDay[(month \div 12) * 12 + w.end + 1] - 1
(* The last day of the window, next year if its month has gone.             *)
SeasonEnd(w) ==
    LET n == (month \div 12) * 12 + w.end IN
    FirstDay[(IF w.end < month % 12 THEN n + 12 ELSE n) + 1] - 1

Advise(priority, action) == [priority |-> priority, action |-> action]
Ending == ActiveWindow # {} /\ SeasonEnd(CHOOSE w \in ActiveWindow : TRUE) - today <= 45
Recommend ==
    IF Status \notin {"season", "soon"} THEN Advise(0, "keep")
    ELSE IF ~offer.stock THEN Advise(0, "check stock")
    ELSE IF offer.stops # "none"
    THEN (IF offer.stops = "growing" THEN Advise(40, "no discount") ELSE Advise(0, "restricted"))
    ELSE IF offer.candidate /\ offer.excess /\ Ending THEN Advise(100, "clearance")
    ELSE IF offer.candidate
    THEN Advise(IF Status = "season" /\ offer.low THEN 95 ELSE 80, "promote")
    ELSE Advise(40, "no discount")

---------------------------------------------------------- (* Properties *)
(* The high months without a break around month m.                          *)
Run12(m) ==
    IF m \notin high THEN {}
    ELSE {k \in high : \/ \A o \in 0..((k + 12 - m) % 12) : (m + o) % 12 \in high
                       \/ \A o \in 0..((m + 12 - k) % 12) : (k + o) % 12 \in high}

(* Day after day, over the turn of the year too: it is the season in the      *)
(* months of each unbroken run of two to eight high months and in no other;  *)
(* no season begins without having been announced, and what is announced     *)
(* comes; nothing is cleared unless a month that is not high is at most 46   *)
(* days away; and nothing is promoted against a stop factor or without       *)
(* stock.                                                                   *)
AdviceFollowsSeason ==
    [][/\ (Status = "season") <=> Cardinality(Run12(month % 12)) \in 2..8
       /\ Status = "outside" => Status' # "season"
       /\ Status = "soon" => Status' \in {"soon", "season"}
       /\ Recommend.action = "clearance" =>
            \E n \in month..(month + 2) : n % 12 \notin high /\ FirstDay[n] - today <= 46
       /\ Recommend.priority > 40 =>
            offer.stock /\ offer.stops = "none" /\ offer.candidate]_seasonVars
=============================================================================
