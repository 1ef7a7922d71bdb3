------------------------ MODULE SeasonalityWorkerProofs ------------------------
(***************************************************************************)
(* Theorems about SeasonalityWorker for every value of its constants: its    *)
(* types, that the sums count every sale once and a publication is complete, *)
(* that a report computes with histories that were, that a pause is heard,   *)
(* and that the cleanup takes what is old and nothing else.                  *)
(***************************************************************************)
EXTENDS SeasonalityWorker, SqlProofs

-----------------------------------------------------------------------------
(* The inductive invariant, for the row as it is and for the row r as a      *)
(* batch has changed it so far.                                             *)

(* Only a deletion or a rebuild command lets a batch begin a generation, and *)
(* each of them advances the source revision.                               *)
Bounded(r) ==
    /\ r.active <= r.generation /\ r.job <= r.source
    /\ r.generation <= r.source + 1 /\ r.generation <= MaxRevision + 1
    /\ r.rebuild => r.generation <= r.source /\ r.generation <= MaxRevision

(* Nothing is held of generations to come.                                   *)
Fresh(r) ==
    \A g \in Generations : g > r.generation =>
        months[g] = NoSums /\ \A k \in Products : profiles[g][k].status = "absent"

(* Ids are given in order; a sale item has an import that has been begun.    *)
InOrder == \A id \in stored : id < nextId /\ batch[owner[id]] # "absent"

(* What the boundary, the cursor and the phase say of the sale items, and    *)
(* the sums of the current generation.                                      *)
Boundary(r) ==
    /\ r.upper \in stored \union {0} /\ r.cursor <= r.upper
    /\ \A id \in stored : id <= r.upper => batch[owner[id]] = "done"
    /\ r.source = r.job => \A id \in stored : id > r.upper => batch[owner[id]] # "done"
PhaseSays(r) ==
    /\ r.phase \in {"idle", "calculate", "cleanup"} => r.cursor = r.upper
    /\ r.phase \in {"idle", "cleanup"} => r.active = r.generation /\ r.sourceCursor = r.upper
Counted(r) == months[r.generation] = CountOnce({id \in stored : id <= r.cursor})
Scanned(r) == ~r.rebuild => r.generation > 0 /\ Boundary(r) /\ PhaseSays(r) /\ Counted(r)

(* The part of the sums that belongs to a product.                           *)
Part(g, k) == [id \in SaleIds |-> IF Product[id] = k THEN months[g][id] ELSE 0]

(* A profile that is not dirty was calculated from the sums as they are.     *)
Copied(r) ==
    \A k \in Products : profiles[r.generation][k].status = "ready" =>
        profiles[r.generation][k].data = Part(r.generation, k)

(* What a report would be offered, now or after further batches, is a        *)
(* history that the product has had since the report began.                 *)
Promised ==
    reader.at \in {"pending", "profiles"} /\ reader.valid =>
        \A k \in Products :
            LET p == profiles[reader.generation][k] IN
            p.status = "ready" /\ p.coverage = reader.coverage =>
                \E truth \in recent[k] : p.data = CountOnce(truth)

(* What a page has added is known as a product; what was published on the    *)
(* month of its day is complete.                                            *)
Known(r) ==
    \A id \in SaleIds : months[r.generation][id] > 0 =>
        profiles[r.generation][Product[id]].status # "absent"
Complete(r) ==
    ~r.rebuild /\ r.phase \in {"cleanup", "idle"} /\ r.coverage.month = Month(r.lastChecked) =>
        \A k \in Products : profiles[r.generation][k].status # "absent" =>
            profiles[r.generation][k].status = "ready"
              /\ profiles[r.generation][k].coverage = r.coverage

(* The months of coverage only go forward.                                   *)
Dated ==
    /\ row.coverage.month <= Month(today)
    /\ runner.at = "batch" => runner.day <= today /\ row.coverage.month <= Month(runner.day)
    /\ ~row.rebuild /\ row.phase \in {"cleanup", "idle"} =>
         Month(row.lastChecked) <= row.coverage.month

Sound(r) ==
    Bounded(r) /\ Fresh(r) /\ Scanned(r) /\ Copied(r) /\ Known(r) /\ Complete(r)
SeasonalityInv ==
    TypeOK /\ InOrder /\ Sound(row) /\ Dated /\ Promised /\ ReadersSeeTruth

-----------------------------------------------------------------------------
(* Months *)

LEMMA MonthOrder ==
    ASSUME NEW a \in Int, NEW b \in Int, a <= b
    PROVE  Month(a) \in Int /\ Month(a) <= Month(b)
<1>1. DaysPerMonth \in Int /\ DaysPerMonth > 0
  BY ConstantsAssumption
<1> QED BY <1>1 DEF Month

LEMMA MonthType == ASSUME NEW day \in Nat PROVE Month(day) \in Nat
<1>1. DaysPerMonth \in Int /\ DaysPerMonth > 0
  BY ConstantsAssumption
<1> QED BY <1>1 DEF Month

-----------------------------------------------------------------------------
(* A batch begins *)

(* What the steps of a preparation leave of the row x, and what they set.    *)
Rest(r, x) ==
    /\ r.enabled = x.enabled /\ r.stop = x.stop /\ r.active = x.active
    /\ r.sourceCursor = x.sourceCursor /\ r.source = x.source /\ r.lastChecked = x.lastChecked
LEMMA BegunAnew ==
    ASSUME NEW x \in Row, NEW upper \in Nat, NEW top \in Int, NEW g \in Generations,
           g = top + 1, x.rebuild
    PROVE  LET r == Begun(x, upper, top) IN
           /\ r \in Row /\ Rest(r, x)
           /\ r.upper = upper /\ r.job = x.source /\ r.rebuild = FALSE /\ r.phase = "scan"
           /\ r.generation = g /\ r.cursor = 0
<1>0. PICK c \in Coverage : c = [x.coverage EXCEPT !.seen = {}]
  <2>1. x.coverage \in Coverage
    BY DEF Row
  <2> QED BY <2>1 DEF Coverage
<1>1. PICK r : r = Begun(x, upper, top)
  OBVIOUS
<1>2. r = [x EXCEPT !.generation = g, !.cursor = 0, !.coverage.seen = {}, !.upper = upper,
                  !.job = x.source, !.rebuild = FALSE, !.phase = "scan"]
  BY <1>1 DEF Begun
<1>3. r = [x EXCEPT !.generation = g, !.cursor = 0, !.coverage = c, !.upper = upper,
                  !.job = x.source, !.rebuild = FALSE, !.phase = "scan"]
  BY <1>0, <1>2
<1>4. /\ r \in Row /\ Rest(r, x)
      /\ r.upper = upper /\ r.job = x.source /\ r.rebuild = FALSE /\ r.phase = "scan"
      /\ r.generation = g /\ r.cursor = 0
   BY <1>3 DEF Row, Rest, Phases
<1> QED BY <1>1, <1>4

LEMMA BegunTail ==
    ASSUME NEW x \in Row, NEW upper \in Nat, NEW top \in Int,
           ~x.rebuild, ~(upper < x.sourceCursor), x.active # 0
    PROVE  LET r == Begun(x, upper, top) IN
           /\ r \in Row /\ Rest(r, x)
           /\ r.upper = upper /\ r.job = x.source /\ r.rebuild = FALSE /\ r.phase = "scan"
           /\ r.generation = x.active /\ r.cursor = x.sourceCursor
<1>0. x.coverage \in Coverage
  BY DEF Row
<1>1. Begun(x, upper, top) = [x EXCEPT !.generation = x.active, !.cursor = x.sourceCursor,
          !.upper = upper, !.job = x.source, !.rebuild = FALSE, !.phase = "scan"]
  BY ZenonT(60), <1>0 DEF Begun, Row, Coverage
<1> QED BY ZenonT(60), <1>0, <1>1 DEF Row, Rest, Phases

LEMMA DatedFields ==
    ASSUME NEW x \in Row, NEW month \in Nat
    PROVE  LET r == [x EXCEPT !.coverage.month = month] IN
           /\ r \in Row /\ Rest(r, x)
           /\ r.upper = x.upper /\ r.job = x.job /\ r.rebuild = x.rebuild /\ r.phase = x.phase
           /\ r.generation = x.generation /\ r.cursor = x.cursor
           /\ r.coverage = [month |-> month, seen |-> x.coverage.seen]
<1> DEFINE cover == [month |-> month, seen |-> x.coverage.seen]
<1>0. x.coverage \in Coverage /\ cover \in Coverage
  BY DEF Row, Coverage
<1>1. [x EXCEPT !.coverage.month = month] = [x EXCEPT !.coverage = cover]
  BY <1>0 DEF Row, Coverage
<1> QED BY <1>0, <1>1 DEF Row, Rest

LEMMA CaughtUpFields ==
    ASSUME NEW x \in Row, NEW upper \in Nat, ~x.rebuild
    PROVE  LET r == CaughtUp(x, upper) IN
           /\ r \in Row /\ Rest(r, x) /\ ~r.rebuild
           /\ r.generation = x.generation /\ r.cursor = x.cursor /\ r.coverage = x.coverage
           /\ r.job = r.source
           /\ x.source = x.job => r = x
           /\ x.source # x.job => r.upper = upper
                /\ r.phase = (IF x.cursor < upper THEN "scan" ELSE x.phase)
<1>1. CASE x.source = x.job
  BY <1>1 DEF CaughtUp, Row, Rest
<1>2. CASE x.source # x.job
  <2>1. CASE x.cursor < upper
    <3>1. CaughtUp(x, upper) = [x EXCEPT !.upper = upper, !.job = x.source, !.phase = "scan"]
      BY <1>2, <2>1 DEF CaughtUp, Row
    <3> QED BY ZenonT(60), <1>2, <2>1, <3>1 DEF Row, Rest, Phases
  <2>2. CASE ~(x.cursor < upper)
    <3>1. CaughtUp(x, upper) = [x EXCEPT !.upper = upper, !.job = x.source]
      BY <1>2, <2>2 DEF CaughtUp, Row
    <3> QED BY <1>2, <2>2, <3>1 DEF Row, Rest, Phases
  <2> QED BY <2>1, <2>2
<1> QED BY <1>1, <1>2

(* A batch only begins when every sale item belongs to an import that is     *)
(* over: what it has prepared is a row it may go on from, at the boundary.   *)
LEMMA Prepares ==
    ASSUME SeasonalityInv, ~Pending, NEW day \in Nat, row.coverage.month <= Month(day),
           NEW upper \in stored \union {0}, IsMax(upper, stored),
           NEW top \in Generations,
           IsMax(top, {row.generation, row.active} \union
                        {g \in Generations : months[g] # NoSums \/
                            \E k \in Products : profiles[g][k].status # "absent"})
    PROVE  LET r == Prepared(day, upper, top) IN
           /\ r \in Row /\ Sound(r) /\ ~r.rebuild
           /\ r.upper = upper /\ r.job = r.source /\ r.source = row.source
           /\ r.coverage.month = Month(day)
           /\ r.phase \in {"cleanup", "idle"} => Month(r.lastChecked) <= r.coverage.month
           /\ r.generation >= row.generation /\ r.phase # "idle"
           /\ \A id \in stored : id <= upper /\ batch[owner[id]] = "done"
<1> USE DEF SeasonalityInv
<1>0. /\ row \in Row /\ stored \subseteq SaleIds /\ stored \subseteq Nat
      /\ owner \in [SaleIds -> Imports]
      /\ batch \in [Imports -> {"absent", "queued", "processing", "done"}]
  BY ConstantsAssumption DEF TypeOK, SaleIds
<1>1. \A id \in stored : id <= upper /\ batch[owner[id]] = "done"
  <2>1. ASSUME NEW id \in stored PROVE batch[owner[id]] = "done"
    <3>1. owner[id] \in Imports
      BY <1>0
    <3> QED BY <1>0, <3>1 DEF Pending, InOrder
  <2> QED BY <2>1 DEF IsMax
<1>2. upper \in Nat /\ MaxRevision \in Nat /\ Month(day) \in Nat
  BY <1>0, MonthType, ConstantsAssumption
<1>3. top = row.generation
  <2>1. row.generation <= top
    BY DEF IsMax
  <2>2. ASSUME NEW g \in Generations,
               months[g] # NoSums \/ \E k \in Products : profiles[g][k].status # "absent"
        PROVE  g <= row.generation
    <3>1. g \in Int /\ row.generation \in Int
      BY <1>0, <1>2 DEF Row, Generations
    <3>2. ~(g > row.generation)
      BY <2>2 DEF Sound, Fresh
    <3> QED BY <3>1, <3>2
  <2>3. top <= row.generation
    BY <1>0, <1>2, <2>2 DEF IsMax, Sound, Bounded, Row, Generations
  <2> QED BY <1>0, <1>2, <2>1, <2>3 DEF Row, Generations
<1>4. ~row.rebuild => (row.source = row.job => row.upper = upper)
  <2>1. SUFFICES ASSUME ~row.rebuild, row.source = row.job PROVE row.upper = upper
    OBVIOUS
  <2>2. Boundary(row) /\ row.upper \in Nat
    BY <1>0, <2>1 DEF Sound, Scanned, Row
  <2>3. ASSUME NEW id \in stored PROVE id <= row.upper
    <3>1. ~(id > row.upper)
      BY <1>1, <2>1, <2>2 DEF Boundary
    <3> QED BY <1>0, <2>2, <3>1
  <2>4. row.upper <= upper
    BY <1>1, <1>2, <2>2 DEF Boundary
  <2>5. upper <= row.upper
    BY <1>2, <2>2, <2>3
  <2> QED BY <1>2, <2>2, <2>4, <2>5
<1> DEFINE begun == Begun(row, upper, top)
           x == IF row.phase = "idle" \/ row.rebuild THEN begun ELSE row
           dated == [x EXCEPT !.coverage.month = Month(day)]
           r == Prepared(day, upper, top)
<1>5. ASSUME row.rebuild
      PROVE  x \in Row /\ Rest(x, row) /\ ~x.rebuild /\ Sound(x) /\ x.phase = "scan"
             /\ x.job = row.source /\ x.upper = upper /\ x.generation >= row.generation
  <2>1. PICK g \in Generations : g = top + 1
    BY <1>0, <1>2, <1>3, <1>5 DEF Sound, Bounded, Generations, Row
  <2>2. /\ x \in Row /\ Rest(x, row) /\ ~x.rebuild /\ x.generation = g /\ x.cursor = 0
        /\ x.phase = "scan" /\ x.upper = upper /\ x.job = row.source
    <3>1. top \in Int /\ upper \in Nat
      BY <1>2 DEF Generations
    <3>2. /\ begun \in Row /\ Rest(begun, row) /\ begun.rebuild = FALSE /\ begun.generation = g
          /\ begun.cursor = 0 /\ begun.phase = "scan" /\ begun.upper = upper
          /\ begun.job = row.source
      BY ZenonT(60), <1>0, <1>5, <2>1, <3>1, BegunAnew
    <3>3. x = begun
      BY <1>5
    <3> HIDE DEF x
    <3> QED BY <3>2, <3>3
  <2>3. g > row.generation /\ g \in Nat /\ row.generation \in Nat
    BY <1>0, <1>2, <1>3, <2>1 DEF Row, Generations
  <2>4. Bounded(x)
    BY <1>0, <1>2, <1>3, <1>5, <2>1, <2>2 DEF Sound, Bounded, Row, Rest, Generations
  <2>5. Fresh(x) /\ months[g] = NoSums /\ \A k \in Products : profiles[g][k].status = "absent"
    BY <2>1, <2>2, <2>3 DEF Sound, Fresh, Generations
  <2>6. Counted(x)
    <3>1. {id \in stored : id <= 0} = {}
      <4>1. \A id \in stored : id \in Nat /\ id >= 1
        BY <1>0, ConstantsAssumption DEF SaleIds
      <4> QED BY <4>1
    <3> QED BY <2>2, <2>5, <3>1 DEF Counted, CountOnce, NoSums
  <2>7. Boundary(x) /\ PhaseSays(x)
    BY <1>0, <1>1, <1>2, <2>2 DEF Boundary, PhaseSays
  <2>8. Copied(x) /\ Known(x) /\ Complete(x)
    BY <2>2, <2>5, ConstantsAssumption DEF Copied, Known, Complete, NoSums
  <2> QED BY <2>2, <2>3, <2>4, <2>5, <2>6, <2>7, <2>8 DEF Sound, Scanned
<1>6. ASSUME ~row.rebuild, row.phase = "idle"
      PROVE  x \in Row /\ Rest(x, row) /\ ~x.rebuild /\ Sound(x) /\ x.phase = "scan"
             /\ x.job = row.source /\ x.upper = upper /\ x.generation >= row.generation
  <2>1. /\ row.generation > 0 /\ row.active = row.generation
        /\ row.sourceCursor = row.upper /\ row.cursor = row.upper /\ row.upper \in stored \union {0}
        /\ Counted(row)
    BY <1>6 DEF Sound, Scanned, PhaseSays, Boundary
  <2>2. row.upper <= upper /\ row.upper \in Nat /\ row.generation \in Nat
    BY <1>0, <1>1, <1>2, <2>1 DEF Row, Generations
  <2>3. row.active # 0 /\ ~(upper < row.sourceCursor)
    BY <1>2, <2>1, <2>2
  <2>4. x = begun
    BY <1>6
  <2>5. /\ x \in Row /\ Rest(x, row) /\ ~x.rebuild /\ x.generation = row.active
        /\ x.cursor = row.sourceCursor
        /\ x.phase = "scan" /\ x.upper = upper /\ x.job = row.source
    <3> HIDE DEF x
    <3>1. /\ begun \in Row /\ Rest(begun, row)
          /\ begun.upper = upper /\ begun.job = row.source /\ begun.rebuild = FALSE
          /\ begun.phase = "scan" /\ begun.generation = row.active
          /\ begun.cursor = row.sourceCursor
      <4>1. row \in Row /\ upper \in Nat /\ top \in Int /\ ~row.rebuild
        BY <1>0, <1>2, <1>6 DEF Generations
      <4> QED BY <4>1, <2>3, BegunTail
    <3> QED BY <2>4, <3>1
  <2>6. x.generation = row.generation /\ x.cursor = row.cursor
    BY <2>1, <2>5
  <2>7. Bounded(x)
    BY <1>0, <1>2, <2>5, <2>6 DEF Sound, Bounded, Row, Rest
  <2>8. Fresh(x) /\ Counted(x) /\ Copied(x) /\ Known(x)
    BY ZenonT(60), <2>1, <2>6 DEF Sound, Fresh, Counted, Copied, Known
  <2>9. Boundary(x) /\ PhaseSays(x) /\ Complete(x)
    BY <1>0, <1>1, <1>2, <2>1, <2>2, <2>5, <2>6 DEF Boundary, PhaseSays, Complete
  <2> QED BY <2>1, <2>2, <2>5, <2>6, <2>7, <2>8, <2>9 DEF Sound, Scanned
<1>7. /\ x \in Row /\ Rest(x, row) /\ ~x.rebuild /\ Sound(x) /\ x.phase # "idle"
      /\ x.source = x.job => x.upper = upper
      /\ x.generation >= row.generation
      /\ x.phase = "cleanup" => Month(x.lastChecked) <= x.coverage.month
                                  /\ x.coverage.month <= Month(day)
  <2>1. CASE row.rebuild
    BY <1>5, <2>1 DEF Rest
  <2>2. CASE ~row.rebuild /\ row.phase = "idle"
    BY <1>6, <2>2 DEF Rest
  <2>3. CASE ~row.rebuild /\ row.phase # "idle"
    BY <1>0, <1>2, <1>4, <2>3 DEF Rest, Dated, Row, Generations
  <2> QED BY <2>1, <2>2, <2>3
<1>8. /\ dated \in Row /\ Rest(dated, x) /\ dated.upper = x.upper /\ dated.job = x.job
      /\ dated.rebuild = x.rebuild /\ dated.phase = x.phase /\ dated.generation = x.generation
      /\ dated.cursor = x.cursor
      /\ dated.coverage = [month |-> Month(day), seen |-> x.coverage.seen]
  <2> HIDE DEF x
  <2> QED BY <1>2, <1>7, DatedFields
<1> HIDE DEF x
<1>9. Sound(dated)
  <2>1. Bounded(dated) /\ Fresh(dated) /\ Copied(dated) /\ Known(dated)
    BY <1>7, <1>8 DEF Sound, Bounded, Fresh, Copied, Known, Rest
  <2>2. Boundary(x) /\ PhaseSays(x) /\ Counted(x) /\ x.generation > 0
    BY <1>7 DEF Sound, Scanned
  <2>3. Scanned(dated)
    BY <2>2, <1>8 DEF Scanned, Boundary, PhaseSays, Counted, Rest
  <2>4. Complete(dated)
    <3>1. SUFFICES ASSUME dated.phase = "cleanup", Month(day) = Month(dated.lastChecked)
                   PROVE  dated.coverage = x.coverage /\ x.coverage.month = Month(x.lastChecked)
      BY <1>7, <1>8 DEF Complete, Sound, Rest
    <3>2. x.coverage \in Coverage /\ x.lastChecked \in Int /\ dated.lastChecked = x.lastChecked
      BY <1>7, <1>8 DEF Row, Rest
    <3>3. Month(x.lastChecked) \in Int
      BY <3>2, MonthOrder
    <3>4. x.coverage.month = Month(day)
      BY <1>2, <1>7, <1>8, <3>1, <3>2, <3>3 DEF Coverage
    <3> QED BY <1>8, <3>1, <3>2, <3>4 DEF Coverage
  <2> QED BY <2>1, <2>3, <2>4 DEF Sound
<1> HIDE DEF dated
<1>10. r = CaughtUp(dated, upper)
  BY DEF Prepared, x, dated
<1> HIDE DEF r
<1>11. /\ r \in Row /\ Rest(r, dated) /\ ~r.rebuild
       /\ r.generation = dated.generation /\ r.cursor = dated.cursor /\ r.coverage = dated.coverage
       /\ r.job = r.source
       /\ dated.source = dated.job => r = dated
       /\ dated.source # dated.job => r.upper = upper
            /\ r.phase = (IF dated.cursor < upper THEN "scan" ELSE dated.phase)
  BY <1>2, <1>7, <1>8, <1>10, CaughtUpFields
<1>12. r.upper = upper
  BY <1>7, <1>8, <1>11 DEF Rest
<1>13. Sound(r)
  <2>1. CASE dated.source = dated.job
    BY <1>9, <1>11, <2>1
  <2>2. CASE dated.source # dated.job
    <3>1. Bounded(r) /\ Fresh(r) /\ Copied(r) /\ Known(r)
      BY <1>9, <1>11 DEF Sound, Bounded, Fresh, Copied, Known, Rest, Row
    <3>2. Boundary(dated) /\ PhaseSays(dated) /\ Counted(dated) /\ dated.generation > 0
      BY <1>7, <1>8, <1>9 DEF Sound, Scanned
    <3>3. dated.cursor <= upper /\ dated.cursor \in Nat
      BY <1>0, <1>1, <1>2, <1>8, <3>2 DEF Boundary, Row
    <3>4. Boundary(r) /\ Counted(r)
      <4>1. ASSUME NEW id \in stored PROVE ~(id > upper) /\ batch[owner[id]] = "done"
        BY <1>0, <1>1, <1>2
      <4>2. r.cursor <= r.upper /\ r.upper \in stored \union {0}
        BY <1>11, <1>12, <3>3
      <4>3. Boundary(r)
        BY <1>12, <4>1, <4>2 DEF Boundary
      <4> QED BY <1>11, <3>2, <4>3 DEF Counted
    <3>5. PhaseSays(r)
      BY <1>2, <1>11, <1>12, <2>2, <3>2, <3>3 DEF PhaseSays, Rest
    <3>6. Complete(r)
      BY <1>7, <1>8, <1>9, <1>11, <2>2 DEF Sound, Complete, Rest
    <3> QED BY <1>11, <3>1, <3>2, <3>4, <3>5, <3>6 DEF Sound, Scanned
  <2> QED BY <2>1, <2>2
<1>14. r.phase \in {"cleanup", "idle"} => Month(r.lastChecked) <= r.coverage.month
  <2>1. SUFFICES ASSUME r.phase \in {"cleanup", "idle"}
                 PROVE  Month(r.lastChecked) <= r.coverage.month
    OBVIOUS
  <2>2. x.phase = "cleanup" /\ r.lastChecked = x.lastChecked /\ r.coverage.month = Month(day)
    BY <1>7, <1>8, <1>11, <2>1 DEF Rest
  <2>3. x.lastChecked \in Int /\ x.coverage.month \in Int
    BY <1>7 DEF Row, Coverage
  <2> QED BY <1>2, <1>7, <2>2, <2>3, MonthOrder
<1> QED
  BY <1>1, <1>7, <1>8, <1>11, <1>12, <1>13, <1>14 DEF Rest, r

-----------------------------------------------------------------------------
(* A batch goes on *)

(* Rows that differ in the switches, the failures and the error at most.     *)
Alike(r, x) ==
    /\ r.active = x.active /\ r.generation = x.generation /\ r.phase = x.phase
    /\ r.cursor = x.cursor /\ r.sourceCursor = x.sourceCursor /\ r.upper = x.upper
    /\ r.coverage = x.coverage /\ r.source = x.source /\ r.job = x.job
    /\ r.rebuild = x.rebuild /\ r.lastChecked = x.lastChecked

LEMMA SucceededFields ==
    ASSUME NEW x \in Row PROVE Succeeded(x) \in Row /\ Alike(Succeeded(x), x)
<1>1. PICK r : r = Succeeded(x)
  OBVIOUS
<1>2. r = [x EXCEPT !.error = FALSE, !.failures = 0]
  BY <1>1 DEF Succeeded
<1>3. r \in Row
  BY <1>2 DEF Row
<1>4. Alike(r, x)
  BY <1>2 DEF Alike, Row
<1> QED BY <1>1, <1>3, <1>4

(* While the sums and the sale items stay, so does what they say of a row.   *)
LEMMA SoundStays ==
    ASSUME NEW x, Sound(x), Alike(row', x), UNCHANGED <<stored, owner, batch, months, profiles>>
    PROVE  Sound(row)'
<1>1. Bounded(row)' /\ Fresh(row)' /\ Copied(row)' /\ Known(row)' /\ Complete(row)'
  BY DEF Sound, Alike, Bounded, Fresh, Copied, Part, Known, Complete
<1>2. Scanned(row)'
  <2>1. Boundary(x) => Boundary(row)'
    BY DEF Boundary, Alike
  <2>2. PhaseSays(x) => PhaseSays(row)'
    BY DEF PhaseSays, Alike
  <2>3. Counted(x) => Counted(row)'
    BY DEF Counted, CountOnce, Alike
  <2> QED BY <2>1, <2>2, <2>3 DEF Sound, Scanned, Alike
<1> QED BY <1>1, <1>2 DEF Sound

(* A profile that becomes ready is the history of its product.               *)
OnlyTruth ==
    \A g \in Generations, k \in Products :
        profiles'[g][k].status = "ready" =>
            profiles'[g][k] = profiles[g][k] \/ profiles'[g][k].data = CountOnce(Truth(k)')

(* What every batch owes, having prepared r.                                 *)
Owed(r) ==
    /\ row' \in Row /\ months' \in [Generations -> Sums]
    /\ profiles' \in [Generations -> [Products -> Profile]]
    /\ Sound(row)'
    /\ row'.coverage.month = r.coverage.month /\ row'.rebuild = r.rebuild

LEMMA Scans ==
    ASSUME TypeOK, NEW r \in Row, Sound(r), ~r.rebuild, r.phase = "scan",
           ScanBatch(r), UNCHANGED <<stored, owner, batch>>
    PROVE  Owed(r) /\ OnlyTruth /\ row'.phase \in {"scan", "calculate"}
<1> DEFINE ahead == {id \in stored : r.cursor < id /\ id <= r.upper}
           page  == First(ahead, ScanSize)
           g     == r.generation
<1>0. /\ stored \subseteq SaleIds /\ SaleIds \subseteq Nat /\ IsFiniteSet(SaleIds)
      /\ r.cursor \in Nat /\ r.upper \in Nat /\ g \in Generations
      /\ months \in [Generations -> Sums] /\ profiles \in [Generations -> [Products -> Profile]]
      /\ ScanSize \in Nat \ {0}
      /\ Product \in [SaleIds -> Products] /\ CalendarMonth \in [SaleIds -> Nat]
  <2>1. SaleIds \subseteq Nat /\ IsFiniteSet(SaleIds)
    BY ConstantsAssumption, FS_Interval DEF SaleIds
  <2>2. r.cursor \in Nat /\ r.upper \in Nat /\ g \in Generations
    BY DEF Row
  <2> QED BY <2>1, <2>2, ConstantsAssumption DEF TypeOK
<1>1. Boundary(r) /\ PhaseSays(r) /\ Counted(r) /\ g > 0
  BY DEF Sound, Scanned
<1>2. ahead \in SUBSET Nat /\ IsFiniteSet(ahead) /\ page \subseteq ahead /\ page \subseteq SaleIds
  BY <1>0, FS_Subset DEF First
<1>3. CASE page = {}
  <2>1. PICK x : x = [r EXCEPT !.cursor = r.upper, !.phase = "calculate"]
    OBVIOUS
  <2>2. row' = Succeeded(x) /\ UNCHANGED <<months, profiles>>
    BY <1>3, <2>1 DEF ScanBatch
  <2>3. x \in Row /\ x.cursor = r.upper /\ x.phase = "calculate" /\ x.upper = r.upper
        /\ x.generation = g /\ x.active = r.active /\ x.source = r.source /\ x.job = r.job
        /\ x.rebuild = r.rebuild /\ x.coverage = r.coverage
    BY <1>0, <2>1 DEF Row, Phases
  <2>4. ahead = {}
    BY <1>0, <1>2, <1>3, FirstIsEmpty
  <2>5. {id \in stored : id <= x.cursor} = {id \in stored : id <= r.cursor}
    <3>1. ASSUME NEW id \in stored PROVE id <= r.upper <=> id <= r.cursor
      <4>1. id \in Nat /\ r.cursor <= r.upper /\ ~(r.cursor < id /\ id <= r.upper)
        BY <1>0, <1>1, <2>4 DEF Boundary
      <4> QED BY <1>0, <4>1
    <3> QED BY <2>3, <3>1
  <2>6. Boundary(x) /\ PhaseSays(x) /\ Counted(x)
    <3>1. Boundary(x)
      BY <1>0, <1>1, <2>3 DEF Boundary
    <3>2. PhaseSays(x)
      BY <2>3 DEF PhaseSays
    <3>3. Counted(x)
      BY <1>1, <2>3, <2>5 DEF Counted
    <3> QED BY <3>1, <3>2, <3>3
  <2>7. Bounded(x) /\ Fresh(x) /\ Copied(x) /\ Known(x) /\ Complete(x)
    BY <2>3 DEF Sound, Bounded, Fresh, Copied, Known, Complete
  <2>8. Sound(x)
    BY <1>1, <2>3, <2>6, <2>7 DEF Sound, Scanned
  <2>9. row' \in Row /\ Alike(row', x)
    BY <2>2, <2>3, SucceededFields
  <2>10. Sound(row)'
    BY <2>2, <2>8, <2>9, SoundStays
  <2> QED BY <1>0, <2>2, <2>3, <2>9, <2>10 DEF Owed, OnlyTruth, Alike
<1>4. CASE page # {}
  <2>1. PICK finish \in page :
          /\ IsMax(finish, page) /\ AddSums(g, page)
          /\ row' = Succeeded([r EXCEPT !.cursor = finish, !.coverage.seen =
                                    @ \union {CalendarMonth[id] : id \in page}])
    BY <1>4 DEF ScanBatch
  <2>2. PICK c \in Coverage :
          c = [r.coverage EXCEPT !.seen = @ \union {CalendarMonth[id] : id \in page}]
    <3>1. r.coverage \in Coverage /\ {CalendarMonth[id] : id \in page} \subseteq Nat
      BY <1>0, <1>2 DEF Row
    <3> QED BY <3>1 DEF Coverage
  <2>3. PICK x : x = [r EXCEPT !.cursor = finish, !.coverage = c]
    OBVIOUS
  <2>4. row' = Succeeded(x)
    BY <2>1, <2>2, <2>3
  <2>5. finish \in Nat /\ r.cursor < finish /\ finish <= r.upper
    BY <1>0, <1>2
  <2>6. x \in Row /\ x.cursor = finish /\ x.phase = "scan" /\ x.upper = r.upper
        /\ x.generation = g /\ x.active = r.active /\ x.source = r.source /\ x.job = r.job
        /\ x.rebuild = r.rebuild /\ x.coverage = c
    BY <2>3, <2>5 DEF Row
  <2>7. row' \in Row /\ Alike(row', x)
    BY <2>4, <2>6, SucceededFields
  <2>8. c.month = r.coverage.month
    BY <2>2 DEF Row, Coverage
  <2>9. months' = [months EXCEPT ![g] = [id \in SaleIds |-> months[g][id] + CountOnce(page)[id]]]
    BY <2>1 DEF AddSums
  <2>10. profiles' = [profiles EXCEPT ![g] = [k \in Products |->
              IF \E id \in page : Product[id] = k
                THEN [profiles[g][k] EXCEPT !.status = "dirty"] ELSE profiles[g][k]]]
    BY <2>1 DEF AddSums
  <2> DEFINE sums == [id \in SaleIds |-> months[g][id] + CountOnce(page)[id]]
             mark(k) == IF \E id \in page : Product[id] = k
                          THEN [profiles[g][k] EXCEPT !.status = "dirty"] ELSE profiles[g][k]
  <2>11. /\ months'[g] = sums /\ \A h \in Generations : h # g => months'[h] = months[h]
         /\ months' \in [Generations -> Sums]
    <3>1. \A id \in SaleIds : months[g][id] \in Nat /\ CountOnce(page)[id] \in Nat
      BY <1>0 DEF Sums, CountOnce
    <3>2. sums \in Sums
      BY <3>1 DEF Sums
    <3> HIDE DEF sums
    <3> QED BY <1>0, <2>9, <3>2 DEF sums
  <2>12. /\ \A k \in Products : profiles'[g][k] = mark(k)
         /\ \A h \in Generations : h # g => profiles'[h] = profiles[h]
         /\ profiles' \in [Generations -> [Products -> Profile]]
    <3>1. ASSUME NEW k \in Products PROVE mark(k) \in Profile
      <4>1. profiles[g][k] \in Profile
        BY <1>0
      <4>2. [profiles[g][k] EXCEPT !.status = "dirty"] \in Profile
        BY <4>1 DEF Profile
      <4> QED BY <4>1, <4>2
    <3>2. profiles' = [profiles EXCEPT ![g] = [k \in Products |-> mark(k)]]
      BY <2>10
    <3> HIDE DEF mark
    <3> QED BY <1>0, <3>1, <3>2
  <2>13. ASSUME NEW k \in Products, profiles'[g][k].status = "ready"
         PROVE  profiles'[g][k] = profiles[g][k] /\ \A id \in page : Product[id] # k
    <3>1. profiles[g][k] \in Profile /\ profiles'[g][k] = mark(k)
      BY SMTT(60), <1>0, <2>12
    <3>2. [profiles[g][k] EXCEPT !.status = "dirty"].status = "dirty"
      BY <3>1 DEF Profile
    <3>3. ~\E id \in page : Product[id] = k
      BY <2>13, <3>1, <3>2
    <3> QED BY <3>1, <3>3
  <2>14. OnlyTruth
    BY <2>12, <2>13 DEF OnlyTruth
  <2>15. Bounded(row)'
    BY <2>6, <2>7 DEF Sound, Bounded, Alike
  <2>16. Fresh(row)'
    <3>1. ASSUME NEW h \in Generations, h > row'.generation
          PROVE  months'[h] = NoSums /\ \A k \in Products : profiles'[h][k].status = "absent"
      <4>1. h > g /\ h \in Int /\ g \in Int
        BY <1>0, <2>6, <2>7, <3>1, ConstantsAssumption DEF Alike, Generations
      <4>2. months'[h] = months[h] /\ profiles'[h] = profiles[h]
        BY <2>11, <2>12, <4>1
      <4> QED BY <4>1, <4>2 DEF Sound, Fresh
    <3> QED BY <3>1 DEF Fresh
  <2>17. row'.generation = g /\ ~row'.rebuild /\ row'.cursor = finish /\ row'.phase = "scan"
    BY <2>6, <2>7 DEF Alike
  <2>18. Boundary(row)' /\ PhaseSays(row)'
    <3>1. Boundary(row)'
      BY <1>0, <1>1, <2>5, <2>6, <2>7 DEF Boundary, Alike
    <3> QED BY <2>17, <3>1 DEF PhaseSays
  <2>19. Counted(row)'
    <3>1. ASSUME NEW id \in stored PROVE id \in page <=> r.cursor < id /\ id <= finish
      <4>1. id \in Nat /\ finish \in page
        BY <1>0, <2>1
      <4>2. ASSUME id \in page PROVE r.cursor < id /\ id <= finish
        BY <1>2, <2>1, <4>2 DEF IsMax
      <4>3. ASSUME r.cursor < id, id <= finish PROVE id \in page
        <5>1. id \in ahead
          BY <1>0, <2>5, <4>1, <4>3
        <5>2. ScanSize \in Int
          BY <1>0
        <5> QED BY <1>2, <4>1, <4>3, <5>1, <5>2, FirstIsPrefix
      <4> QED BY <4>2, <4>3
    <3>2. ASSUME NEW id \in SaleIds
          PROVE  months'[g][id] = IF id \in stored /\ id <= finish THEN 1 ELSE 0
      <4>1. months'[g][id] = (IF id \in stored /\ id <= r.cursor THEN 1 ELSE 0)
                               + (IF id \in page THEN 1 ELSE 0)
        BY <1>0, <1>1, <2>11 DEF Counted, CountOnce
      <4>2. id \in page => id \in stored
        BY <1>2
      <4> QED BY <1>0, <2>5, <3>1, <4>1, <4>2
    <3>3. DOMAIN months'[g] = SaleIds
      BY <1>0, <2>11
    <3>4. months'[g] = CountOnce({id \in stored : id <= finish})
      BY <2>11, <3>2 DEF CountOnce
    <3> QED BY <2>17, <3>4 DEF Counted, CountOnce
  <2>20. Copied(row)'
    <3>1. ASSUME NEW k \in Products, profiles'[g][k].status = "ready"
          PROVE  profiles'[g][k].data = [id \in SaleIds |-> IF Product[id] = k THEN months'[g][id] ELSE 0]
      <4>1. profiles[g][k].data = [id \in SaleIds |-> IF Product[id] = k THEN months[g][id] ELSE 0]
        BY <2>13, <3>1 DEF Sound, Copied, Part
      <4>2. ASSUME NEW id \in SaleIds, Product[id] = k PROVE months'[g][id] = months[g][id]
        <5>1. id \notin page /\ months[g][id] \in Nat
          BY <1>0, <2>13, <3>1, <4>2 DEF Sums
        <5> QED BY <2>11, <5>1 DEF CountOnce
      <4> QED BY <2>13, <3>1, <4>1, <4>2
    <3> QED BY <2>17, <3>1 DEF Copied, Part
  <2>21. Known(row)'
    <3>1. ASSUME NEW id \in SaleIds, months'[g][id] > 0
          PROVE  profiles'[g][Product[id]].status # "absent"
      <4>1. Product[id] \in Products
        BY <1>0
      <4>2. CASE id \in page
        <5>1. profiles'[g][Product[id]] = [profiles[g][Product[id]] EXCEPT !.status = "dirty"]
          BY <2>12, <4>1, <4>2
        <5> QED BY <1>0, <4>1, <5>1 DEF Profile
      <4>3. CASE id \notin page
        <5>1. months[g][id] > 0
          BY <1>0, <2>11, <3>1, <4>3 DEF CountOnce, Sums
        <5>2. profiles[g][Product[id]].status # "absent" /\ profiles[g][Product[id]] \in Profile
          BY <1>0, <4>1, <5>1 DEF Sound, Known
        <5>3. [profiles[g][Product[id]] EXCEPT !.status = "dirty"].status = "dirty"
          BY <5>2 DEF Profile
        <5> QED BY <2>12, <4>1, <5>2, <5>3
      <4> QED BY <4>2, <4>3
    <3> QED BY <2>17, <3>1 DEF Known
  <2>22. Complete(row)'
    BY <2>17 DEF Complete
  <2>23. Sound(row)'
    BY <1>0, <1>1, <2>15, <2>16, <2>17, <2>18, <2>19, <2>20, <2>21, <2>22 DEF Sound, Scanned
  <2> QED BY <2>6, <2>7, <2>8, <2>11, <2>12, <2>14, <2>17, <2>23 DEF Owed, Alike
<1> QED BY <1>3, <1>4

(* When no import is unaccounted for, the part of the sums that belongs to a *)
(* product is its history.                                                  *)
LEMMA PartIsTruth ==
    ASSUME TypeOK, NEW r \in Row, Boundary(r), Counted(r), r.cursor = r.upper,
           r.source = r.job, NEW k \in Products
    PROVE  Part(r.generation, k) = CountOnce(Truth(k))
<1>0. stored \subseteq SaleIds /\ SaleIds \subseteq Nat /\ r.upper \in Nat
  BY ConstantsAssumption DEF TypeOK, SaleIds, Row
<1>1. ASSUME NEW id \in stored PROVE id <= r.cursor <=> batch[owner[id]] = "done"
  <2>1. id \in Nat
    BY <1>0
  <2>2. id <= r.upper \/ id > r.upper
    BY <1>0, <2>1
  <2> QED BY <2>2 DEF Boundary
<1>2. ASSUME NEW id \in SaleIds
      PROVE  (IF Product[id] = k THEN months[r.generation][id] ELSE 0)
               = IF id \in Truth(k) THEN 1 ELSE 0
  <2>1. months[r.generation][id] = IF id \in stored /\ id <= r.cursor THEN 1 ELSE 0
    BY <1>2 DEF Counted, CountOnce
  <2> QED BY <1>1, <2>1 DEF Truth
<1> QED BY <1>2 DEF Part, CountOnce

LEMMA Calculates ==
    ASSUME TypeOK, NEW r \in Row, Sound(r), ~r.rebuild, r.phase = "calculate",
           r.source = r.job, NEW day \in Nat,
           CalculateBatch(r, day), UNCHANGED <<stored, owner, batch>>
    PROVE  /\ Owed(r) /\ OnlyTruth
           /\ \/ row'.phase = "calculate"
              \/ row'.phase = "cleanup" /\ row'.lastChecked = day
<1> DEFINE g    == r.generation
           some == First(Outdated(r), ProfileSize)
           fact(k) == [status |-> "ready", coverage |-> r.coverage, data |-> Part(g, k)]
           put(k)  == IF k \notin some THEN profiles[g][k] ELSE fact(k)
<1>0. /\ g \in Generations /\ r.coverage \in Coverage /\ ProfileSize \in Nat \ {0}
      /\ months \in [Generations -> Sums] /\ profiles \in [Generations -> [Products -> Profile]]
      /\ Products \subseteq Nat /\ g \in Int /\ Generations \subseteq Int
      /\ Product \in [SaleIds -> Products]
  <2>1. Products \subseteq Nat /\ Generations \subseteq Int
    BY ConstantsAssumption DEF Products, Generations
  <2>2. g \in Generations /\ r.coverage \in Coverage
    BY DEF Row
  <2> QED BY <2>1, <2>2, ConstantsAssumption DEF TypeOK
<1>1. Boundary(r) /\ PhaseSays(r) /\ Counted(r) /\ g > 0 /\ r.cursor = r.upper
  BY DEF Sound, Scanned, PhaseSays
<1>2. /\ row' = Succeeded(IF some = {} THEN Published(r, day) ELSE r)
      /\ profiles' = [profiles EXCEPT ![g] = [k \in Products |-> put(k)]]
      /\ months' = months
  BY DEF CalculateBatch, Part
<1>3. ASSUME NEW k \in Products PROVE fact(k) \in Profile /\ put(k) \in Profile
  <2>1. \A id \in SaleIds : months[g][id] \in Nat
    BY <1>0 DEF Sums
  <2>2. Part(g, k) \in Sums
    BY <2>1 DEF Part, Sums
  <2>3. profiles[g][k] \in Profile
    BY <1>0
  <2>4. fact(k) \in Profile
    BY <1>0, <2>2 DEF Profile
  <2> QED BY <2>3, <2>4
<1>4. /\ \A k \in Products : profiles'[g][k] = put(k)
      /\ \A h \in Generations : h # g => profiles'[h] = profiles[h]
      /\ profiles' \in [Generations -> [Products -> Profile]]
  <2> HIDE DEF put
  <2> QED BY <1>0, <1>2, <1>3
<1>5. ASSUME NEW k \in Products
       PROVE  /\ k \in some => profiles'[g][k].data = Part(g, k)
              /\ k \notin some => profiles'[g][k] = profiles[g][k]
  <2>1. fact(k).data = Part(g, k)
    OBVIOUS
  <2> HIDE DEF fact, some
  <2> QED BY <1>4, <2>1
<1>6. PICK x : x = IF some = {} THEN Published(r, day) ELSE r
  OBVIOUS
<1>7. /\ x \in Row /\ x.generation = g /\ x.cursor = r.cursor /\ x.upper = r.upper
      /\ x.source = r.source /\ x.job = r.job /\ x.rebuild = r.rebuild
      /\ x.coverage = r.coverage
      /\ \/ x.phase = "calculate" /\ x.active = r.active /\ x.sourceCursor = r.sourceCursor
         \/ /\ some = {} /\ x.phase = "cleanup" /\ x.active = g /\ x.sourceCursor = r.upper
            /\ x.lastChecked = day
  <2>1. CASE some = {}
    <3>1. x = [r EXCEPT !.active = g, !.sourceCursor = r.upper, !.lastChecked = day,
                        !.phase = "cleanup"]
      BY <1>6, <2>1 DEF Published
    <3>2. r.upper \in Nat /\ day \in Int
      BY DEF Row
    <3>3. x \in Row
      BY <1>0, <3>1, <3>2 DEF Row, Phases
    <3> QED BY <2>1, <3>1, <3>3 DEF Row
  <2>2. CASE some # {}
    BY <1>6, <2>2
  <2> QED BY <2>1, <2>2
<1>8. row' \in Row /\ Alike(row', x)
  <2>1. row' = Succeeded(x)
    BY <1>2, <1>6
  <2> QED BY <1>7, <2>1, SucceededFields
<1>9. /\ row'.generation = g /\ row'.cursor = r.cursor /\ row'.upper = r.upper
      /\ row'.source = r.source /\ row'.job = r.job /\ ~row'.rebuild /\ row'.rebuild = r.rebuild
      /\ row'.coverage = r.coverage
      /\ \/ /\ row'.phase = "calculate" /\ row'.active = r.active
            /\ row'.sourceCursor = r.sourceCursor
         \/ /\ some = {} /\ row'.phase = "cleanup" /\ row'.active = g
            /\ row'.sourceCursor = r.upper /\ row'.lastChecked = day
  BY <1>7, <1>8 DEF Alike
<1>10. Bounded(row)'
  BY <1>0, <1>9 DEF Sound, Bounded
<1>11. Fresh(row)'
  <2>1. ASSUME NEW h \in Generations, h > g
        PROVE  months'[h] = NoSums /\ \A k \in Products : profiles'[h][k].status = "absent"
    <3>1. profiles'[h] = profiles[h]
      BY <1>0, <1>4, <2>1
    <3> QED BY <1>2, <2>1, <3>1 DEF Sound, Fresh
  <2> QED BY <1>9, <2>1 DEF Fresh
<1>12. Boundary(row)' /\ PhaseSays(row)' /\ Counted(row)'
  <2>1. Boundary(row)'
    BY <1>1, <1>9 DEF Boundary
  <2>2. PhaseSays(row)'
    BY <1>1, <1>9 DEF PhaseSays
  <2>3. Counted(row)'
    BY <1>1, <1>2, <1>9 DEF Counted, CountOnce
  <2> QED BY <2>1, <2>2, <2>3
<1>13. Copied(row)'
  <2>1. ASSUME NEW k \in Products, profiles'[g][k].status = "ready"
        PROVE  profiles'[g][k].data = Part(g, k)
    <3>1. CASE k \in some
      BY <1>5, <3>1
    <3>2. CASE k \notin some
      <4>1. profiles'[g][k] = profiles[g][k]
        BY <1>4, <3>2
      <4> QED BY <2>1, <4>1 DEF Sound, Copied
    <3> QED BY <3>1, <3>2
  <2> QED BY <1>2, <1>9, <2>1 DEF Copied, Part
<1>14. Known(row)'
  <2>1. ASSUME NEW id \in SaleIds, months[g][id] > 0
        PROVE  profiles'[g][Product[id]].status # "absent"
    <3>1. profiles'[g][Product[id]] = put(Product[id])
      BY <1>0, <1>4
    <3>2. profiles[g][Product[id]].status # "absent"
      BY <2>1 DEF Sound, Known
    <3> QED BY <3>1, <3>2
  <2> QED BY <1>2, <1>9, <2>1 DEF Known
<1>15. Complete(row)'
  <2>1. SUFFICES ASSUME some = {}, NEW k \in Products, profiles'[g][k].status # "absent"
                 PROVE  profiles'[g][k].status = "ready" /\ profiles'[g][k].coverage = r.coverage
    BY <1>9 DEF Complete
  <2>2. Outdated(r) \in SUBSET Nat
    BY <1>0 DEF Outdated
  <2>3. Outdated(r) = {}
    BY <1>0, <2>1, <2>2, FirstIsEmpty
  <2>4. profiles'[g][k] = profiles[g][k] /\ profiles[g][k] \in Profile
    BY <1>0, <1>4, <2>1
  <2> QED BY <2>1, <2>3, <2>4 DEF Outdated, Profile
<1>16. Sound(row)'
  BY <1>1, <1>9, <1>10, <1>11, <1>12, <1>13, <1>14, <1>15 DEF Sound, Scanned
<1>17. OnlyTruth
  <2>1. ASSUME NEW h \in Generations, NEW k \in Products, profiles'[h][k].status = "ready"
        PROVE  profiles'[h][k] = profiles[h][k] \/ profiles'[h][k].data = CountOnce(Truth(k)')
    <3>1. CASE h = g
      <4>1. Part(g, k) = CountOnce(Truth(k))
        BY <1>1, PartIsTruth
      <4>2. Truth(k)' = Truth(k)
        BY DEF Truth
      <4> HIDE DEF some, g
      <4> QED BY <1>5, <3>1, <4>1, <4>2
    <3>2. CASE h # g
      BY <1>4, <3>2
    <3> QED BY <3>1, <3>2
  <2> QED BY <2>1 DEF OnlyTruth
<1>18. Owed(r)
  BY <1>0, <1>2, <1>4, <1>8, <1>9, <1>16 DEF Owed
<1> QED BY <1>9, <1>17, <1>18

(* The cleanup takes nothing of the generation that is active.               *)
LEMMA Cleans ==
    ASSUME TypeOK, NEW r \in Row, Sound(r), ~r.rebuild, r.phase = "cleanup",
           CleanupBatch(r), UNCHANGED <<stored, owner, batch>>
    PROVE  /\ Owed(r) /\ OnlyTruth /\ row'.phase \in {"cleanup", "idle"}
           /\ row'.lastChecked = r.lastChecked
<1> DEFINE g == r.generation
<1>0. /\ g \in Generations /\ g \in Int /\ Generations \subseteq Int
      /\ months \in [Generations -> Sums] /\ profiles \in [Generations -> [Products -> Profile]]
      /\ Product \in [SaleIds -> Products]
  <2>1. Generations \subseteq Int
    BY ConstantsAssumption DEF Generations
  <2>2. g \in Generations
    BY DEF Row
  <2> QED BY <2>1, <2>2, ConstantsAssumption DEF TypeOK
<1>1. /\ Boundary(r) /\ PhaseSays(r) /\ Counted(r) /\ g > 0
      /\ r.cursor = r.upper /\ r.active = g /\ r.sourceCursor = r.upper
  BY DEF Sound, Scanned, PhaseSays
<1>2. ASSUME NEW h \in Old(r) PROVE h \in Generations /\ h < g
  <2>1. h \in Generations /\ h < g - 1
    BY <1>1 DEF Old
  <2> QED BY <1>0, <2>1
<1>3. PICK x \in {r, [r EXCEPT !.phase = "idle"]} : row' = Succeeded(x)
  BY DEF CleanupBatch
<1>4. /\ months' \in [Generations -> Sums]
      /\ \A h \in Generations : h >= g => months'[h] = months[h]
  <2>1. CASE months' = months
    BY <1>0, <2>1
  <2>2. CASE months' # months
    <3>1. PICK S \in SUBSET (Old(r) \X Products) :
            months' = [h \in Generations |-> [id \in SaleIds |->
                         IF <<h, Product[id]>> \in S THEN 0 ELSE months[h][id]]]
      <4> DEFINE sums == {h \in Old(r) \X Products :
                            \E id \in SaleIds : Product[id] = h[2] /\ months[h[1]][id] > 0}
      <4>1. PICK S \in SUBSET sums :
              months' = [h \in Generations |-> [id \in SaleIds |->
                           IF <<h, Product[id]>> \in S THEN 0 ELSE months[h][id]]]
        BY <2>2 DEF CleanupBatch
      <4>2. sums \subseteq Old(r) \X Products
        OBVIOUS
      <4> HIDE DEF sums
      <4> QED BY <4>1, <4>2
    <3>2. ASSUME NEW h \in Generations
          PROVE  /\ months'[h] = [id \in SaleIds |->
                         IF <<h, Product[id]>> \in S THEN 0 ELSE months[h][id]]
                 /\ months[h] \in Sums
      BY <1>0, <3>1
    <3>3. ASSUME NEW h \in Generations PROVE months'[h] \in Sums
      <4>1. ASSUME NEW id \in SaleIds
            PROVE  (IF <<h, Product[id]>> \in S THEN 0 ELSE months[h][id]) \in Nat
        BY <3>2 DEF Sums
      <4>2. [id \in SaleIds |-> IF <<h, Product[id]>> \in S THEN 0 ELSE months[h][id]]
              \in [SaleIds -> Nat]
        BY <4>1
      <4> QED BY <3>2, <4>2 DEF Sums
    <3>4. ASSUME NEW h \in Generations, h >= g PROVE months'[h] = months[h]
      <4>1. ASSUME NEW id \in SaleIds PROVE <<h, Product[id]>> \notin S
        BY <1>0, <1>2, <3>1, <3>4
      <4> QED BY <3>2, <4>1 DEF Sums
    <3> QED BY <3>1, <3>3, <3>4
  <2> QED BY <2>1, <2>2
<1>5. /\ profiles' \in [Generations -> [Products -> Profile]]
      /\ \A h \in Generations : h >= g => profiles'[h] = profiles[h]
      /\ OnlyTruth
  <2>1. CASE profiles' = profiles
    BY <1>0, <2>1 DEF OnlyTruth
  <2>2. CASE profiles' # profiles
    <3>1. PICK S \in SUBSET (Old(r) \X Products) :
            profiles' = [h \in Generations |-> [k \in Products |->
                           IF <<h, k>> \in S THEN NoProfile ELSE profiles[h][k]]]
      <4> DEFINE gone == {h \in Old(r) \X Products : profiles[h[1]][h[2]].status # "absent"}
      <4>1. PICK S \in SUBSET gone :
              profiles' = [h \in Generations |-> [k \in Products |->
                             IF <<h, k>> \in S THEN NoProfile ELSE profiles[h][k]]]
        BY <2>2 DEF CleanupBatch
      <4>2. gone \subseteq Old(r) \X Products
        OBVIOUS
      <4> HIDE DEF gone
      <4> QED BY <4>1, <4>2
    <3>2. ASSUME NEW h \in Generations
          PROVE  /\ profiles'[h] = [k \in Products |->
                           IF <<h, k>> \in S THEN NoProfile ELSE profiles[h][k]]
                 /\ profiles[h] \in [Products -> Profile]
      BY <1>0, <3>1
    <3>3. NoProfile \in Profile /\ NoProfile.status = "absent"
      BY DEF NoProfile, Profile, NoCoverage, Coverage, NoSums, Sums
    <3>4. ASSUME NEW h \in Generations PROVE profiles'[h] \in [Products -> Profile]
      <4>1. \A k \in Products : profiles[h][k] \in Profile
        BY <3>2
      <4> QED BY <3>2, <3>3, <4>1
    <3>5. ASSUME NEW h \in Generations, h >= g PROVE profiles'[h] = profiles[h]
      <4>1. ASSUME NEW k \in Products PROVE <<h, k>> \notin S
        BY <1>0, <1>2, <3>1, <3>5
      <4> QED BY <3>2, <4>1
    <3>6. ASSUME NEW h \in Generations, NEW k \in Products, profiles'[h][k].status = "ready"
          PROVE  profiles'[h][k] = profiles[h][k]
      BY <3>2, <3>3, <3>6
    <3>7. profiles' \in [Generations -> [Products -> Profile]]
      BY <3>1, <3>4
    <3> QED BY <3>5, <3>6, <3>7 DEF OnlyTruth
  <2> QED BY <2>1, <2>2
<1>6. /\ x \in Row /\ x.generation = g /\ x.active = r.active /\ x.cursor = r.cursor
      /\ x.upper = r.upper /\ x.sourceCursor = r.sourceCursor /\ x.source = r.source
      /\ x.job = r.job /\ x.rebuild = r.rebuild /\ x.coverage = r.coverage
      /\ x.lastChecked = r.lastChecked /\ x.phase \in {"cleanup", "idle"}
  BY DEF Row, Phases
<1>7. row' \in Row /\ Alike(row', x)
  BY <1>3, <1>6, SucceededFields
<1>8. /\ row'.generation = g /\ row'.active = r.active /\ row'.cursor = r.cursor
      /\ row'.upper = r.upper /\ row'.sourceCursor = r.sourceCursor /\ row'.source = r.source
      /\ row'.job = r.job /\ row'.rebuild = r.rebuild /\ row'.coverage = r.coverage
      /\ row'.lastChecked = r.lastChecked /\ row'.phase \in {"cleanup", "idle"}
  BY <1>6, <1>7 DEF Alike
<1>9. Bounded(row)' /\ Complete(row)' /\ PhaseSays(row)'
  <2>1. Bounded(row)' /\ PhaseSays(row)'
    BY <1>1, <1>8 DEF Sound, Bounded, PhaseSays
  <2>2. profiles'[g] = profiles[g]
    BY <1>0, <1>5
  <2> QED BY <1>8, <2>1, <2>2 DEF Sound, Complete
<1>10. Fresh(row)'
  <2>1. ASSUME NEW h \in Generations, h > g
        PROVE  months'[h] = months[h] /\ profiles'[h] = profiles[h]
    BY <1>0, <1>4, <1>5, <2>1
  <2> QED BY <1>8, <2>1 DEF Sound, Fresh
<1>11. months'[g] = months[g] /\ profiles'[g] = profiles[g]
  BY <1>0, <1>4, <1>5
<1>12. Boundary(row)' /\ Counted(row)' /\ Copied(row)' /\ Known(row)'
  <2>1. Boundary(row)'
    BY <1>1, <1>8 DEF Boundary
  <2>2. Counted(row)'
    BY <1>1, <1>8, <1>11 DEF Counted, CountOnce
  <2>3. Copied(row)' /\ Known(row)'
    BY <1>8, <1>11 DEF Sound, Copied, Part, Known
  <2> QED BY <2>1, <2>2, <2>3
<1>13. Sound(row)'
  BY <1>1, <1>8, <1>9, <1>10, <1>12 DEF Sound, Scanned
<1> QED BY <1>4, <1>5, <1>7, <1>8, <1>13 DEF Owed

(* A batch, whatever it does.                                                *)
LEMMA BatchStep ==
    ASSUME SeasonalityInv, Batch
    PROVE  /\ row' \in Row /\ months' \in [Generations -> Sums]
           /\ profiles' \in [Generations -> [Products -> Profile]]
           /\ Sound(row)' /\ OnlyTruth
           /\ row'.coverage.month = Month(runner.day)
           /\ row'.phase \in {"cleanup", "idle"} =>
                Month(row'.lastChecked) <= row'.coverage.month
<1> DEFINE day == runner.day
<1>1. /\ TypeOK /\ ~Pending /\ runner.at = "batch" /\ runner \in Runner
      /\ UNCHANGED <<stored, owner, batch>>
  BY DEF SeasonalityInv, Batch, TypeOK, sourceVars
<1>2. day \in Nat /\ row.coverage.month <= Month(day)
  BY <1>1 DEF SeasonalityInv, Dated, Runner
<1>3. PICK upper \in stored \union {0}, top \in Generations :
        /\ IsMax(upper, stored)
        /\ IsMax(top, {row.generation, row.active} \union
                       {g \in Generations : months[g] # NoSums \/
                          \E k \in Products : profiles[g][k].status # "absent"})
        /\ LET r == Prepared(day, upper, top)
           IN \/ r.phase \in {"scan", "scan_all"} /\ ScanBatch(r)
              \/ r.phase = "calculate" /\ CalculateBatch(r, day)
              \/ r.phase = "cleanup" /\ CleanupBatch(r)
  BY DEF Batch
<1>4. PICK r : r = Prepared(day, upper, top)
  OBVIOUS
<1>5. /\ r \in Row /\ Sound(r) /\ ~r.rebuild /\ r.job = r.source
      /\ r.coverage.month = Month(day)
      /\ r.phase \in {"cleanup", "idle"} => Month(r.lastChecked) <= r.coverage.month
  BY <1>1, <1>2, <1>3, <1>4, Prepares
<1>6. \/ r.phase = "scan" /\ ScanBatch(r)
      \/ r.phase = "calculate" /\ CalculateBatch(r, day)
      \/ r.phase = "cleanup" /\ CleanupBatch(r)
  <2>1. r.phase # "scan_all"
    BY <1>5 DEF Row, Phases
  <2> QED BY <1>3, <1>4, <2>1
<1>7. /\ Owed(r) /\ OnlyTruth
      /\ row'.phase \in {"cleanup", "idle"} =>
           row'.lastChecked = day \/ (r.phase = "cleanup" /\ row'.lastChecked = r.lastChecked)
  <2>1. CASE r.phase = "scan" /\ ScanBatch(r)
    BY <1>1, <1>5, <2>1, Scans
  <2>2. CASE r.phase = "calculate" /\ CalculateBatch(r, day)
    BY <1>1, <1>2, <1>5, <2>2, Calculates
  <2>3. CASE r.phase = "cleanup" /\ CleanupBatch(r)
    BY <1>1, <1>5, <2>3, Cleans
  <2> QED BY <1>6, <2>1, <2>2, <2>3
<1>8. Month(day) <= Month(day)
  BY <1>2, MonthType
<1>9. row'.coverage.month = Month(day) /\ r.coverage.month = Month(day)
  BY <1>5, <1>7 DEF Owed
<1>10. row'.phase \in {"cleanup", "idle"} => Month(row'.lastChecked) <= row'.coverage.month
  <2>1. SUFFICES ASSUME row'.phase \in {"cleanup", "idle"}
                 PROVE  Month(row'.lastChecked) <= Month(day)
    BY <1>9
  <2>2. CASE row'.lastChecked = day
    BY <1>8, <2>2
  <2>3. CASE r.phase = "cleanup" /\ row'.lastChecked = r.lastChecked
    BY <1>5, <2>3
  <2> QED BY <1>7, <2>1, <2>2, <2>3
<1> QED BY <1>7, <1>9, <1>10 DEF Owed

-----------------------------------------------------------------------------
(* What a report has seen *)

LEMMA Remembers ==
    ASSUME TypeOK, Remember, stored' \subseteq SaleIds
    PROVE  /\ recent' \in [Products -> SUBSET SUBSET SaleIds] /\ late' \in Nat
           /\ reader'.at # "off" => \A k \in Products :
                /\ Truth(k)' \in recent'[k]
                /\ reader.at # "off" => recent[k] \subseteq recent'[k]
                /\ reader.at = "off" => Truth(k) \in recent'[k]
<1>1. late' \in Nat
  BY DEF TypeOK, Remember
<1>2. recent' = [k \in Products |->
                   IF reader'.at = "off" THEN {}
                   ELSE (IF reader.at = "off" THEN {Truth(k)} ELSE recent[k])
                          \union {Truth(k)'}]
  BY DEF Remember
<1>3. ASSUME NEW k \in Products
      PROVE  /\ recent'[k] \in SUBSET SUBSET SaleIds
             /\ reader'.at # "off" =>
                  /\ Truth(k)' \in recent'[k]
                  /\ reader.at # "off" => recent[k] \subseteq recent'[k]
                  /\ reader.at = "off" => Truth(k) \in recent'[k]
  <2>1. Truth(k) \in SUBSET SaleIds /\ Truth(k)' \in SUBSET SaleIds
    BY DEF TypeOK, Truth
  <2>2. recent[k] \in SUBSET SUBSET SaleIds
    BY DEF TypeOK
  <2>3. recent'[k] = IF reader'.at = "off" THEN {}
                     ELSE (IF reader.at = "off" THEN {Truth(k)} ELSE recent[k])
                            \union {Truth(k)'}
    BY <1>2
  <2> HIDE DEF Truth
  <2> QED BY <2>1, <2>2, <2>3
<1>4. recent' \in [Products -> SUBSET SUBSET SaleIds]
  <2>1. DOMAIN recent' = Products /\ recent' = [k \in Products |-> recent'[k]]
    BY <1>2
  <2> QED BY <1>3, <2>1
<1> QED BY <1>1, <1>3, <1>4

(* A report is offered nothing but histories, whatever goes on meanwhile.    *)
LEMMA PromisesStay ==
    ASSUME TypeOK, Promised, ReadersSeeTruth, Remember, stored' \subseteq SaleIds,
           OnlyTruth, reader' \in {reader, NoReader}
    PROVE  Promised' /\ ReadersSeeTruth'
<1>1. CASE reader' = NoReader
  <2>1. reader'.at = "off"
    BY <1>1 DEF NoReader
  <2> QED BY <2>1 DEF Promised, ReadersSeeTruth
<1>2. CASE reader' = reader /\ reader.at # "off"
  <2>1. ASSUME NEW k \in Products
        PROVE  Truth(k)' \in recent'[k] /\ recent[k] \subseteq recent'[k]
    BY <1>2, Remembers
  <2>2. Promised'
    <3>1. SUFFICES ASSUME reader.at \in {"pending", "profiles"}, reader.valid, NEW k \in Products,
                          profiles'[reader.generation][k].status = "ready",
                          profiles'[reader.generation][k].coverage = reader.coverage
                   PROVE  \E truth \in recent'[k] :
                            profiles'[reader.generation][k].data = CountOnce(truth)
      BY <1>2 DEF Promised, CountOnce
    <3>2. reader.generation \in Generations
      BY DEF TypeOK, Reader
    <3>3. CASE profiles'[reader.generation][k] = profiles[reader.generation][k]
      <4>1. PICK truth \in recent[k] : profiles[reader.generation][k].data = CountOnce(truth)
        BY <3>1, <3>3 DEF Promised
      <4> QED BY <2>1, <3>3, <4>1
    <3>4. CASE profiles'[reader.generation][k].data = CountOnce(Truth(k)')
      BY <2>1, <3>4
    <3> QED BY <3>1, <3>2, <3>3, <3>4 DEF OnlyTruth
  <2>3. ReadersSeeTruth'
    BY <1>2, <2>1 DEF ReadersSeeTruth, CountOnce
  <2> QED BY <2>2, <2>3
<1>3. CASE reader' = reader /\ reader.at = "off"
  BY <1>3 DEF Promised, ReadersSeeTruth
<1> QED BY <1>1, <1>2, <1>3

-----------------------------------------------------------------------------
(* Steps *)

(* Steps that touch neither sale items nor sums nor profiles.                *)
LEMMA QuietStep ==
    ASSUME SeasonalityInv, Remember,
           UNCHANGED <<stored, nextId, owner, batch, months, profiles>>,
           tasks' \subseteq Imports, catalog' \in BOOLEAN,
           today' \in 0..MaxDay, today <= today',
           row' \in Row, Alike(row', row), runner' \in Runner,
           runner'.at = "batch" =>
             runner'.day <= today' /\ row.coverage.month <= Month(runner'.day),
           reader' \in {reader, NoReader}
    PROVE  SeasonalityInv'
<1> USE DEF SeasonalityInv
<1>1. stored' \subseteq SaleIds /\ TypeOK
  BY DEF TypeOK
<1>2. TypeOK'
  <2>1. reader' \in Reader
    <3>1. NoReader \in Reader
      BY ConstantsAssumption DEF NoReader, Reader, NoAnswer, NoCoverage, Coverage, Generations
    <3> QED BY <3>1 DEF TypeOK
  <2> QED BY <1>1, <2>1, Remembers DEF TypeOK
<1>3. InOrder'
  BY DEF InOrder
<1>4. Sound(row)'
  BY SoundStays
<1>5. Dated'
  <2>1. today \in Int /\ today' \in Int
    BY <1>1, ConstantsAssumption DEF TypeOK
  <2>2. Month(today) <= Month(today') /\ Month(today) \in Int /\ Month(today') \in Int
    BY <2>1, MonthOrder
  <2>3. row.coverage.month \in Int
    BY <1>1 DEF TypeOK, Row, Coverage
  <2>4. row.coverage.month <= Month(today')
    BY <2>2, <2>3 DEF Dated
  <2>5. Month(today)' = Month(today') /\ Month(row.lastChecked)' = Month(row'.lastChecked)
        /\ Month(runner.day)' = Month(runner'.day)
    BY DEF Month
  <2> QED BY <2>4, <2>5 DEF Dated, Alike
<1>6. Promised' /\ ReadersSeeTruth'
  <2>1. OnlyTruth
    BY DEF OnlyTruth
  <2> QED BY <1>1, <2>1, PromisesStay
<1> QED BY <1>2, <1>3, <1>4, <1>5, <1>6

(* The commands that change only the switches, and what the runner does      *)
(* between batches.                                                         *)
LEMMA ControlSteps ==
    ASSUME SeasonalityInv, Remember,
           Catalog \/ CrashBackend \/ NextDay \/ Enable \/ Pause \/ Launch \/ Poll
             \/ CheckEnabled \/ CheckStop \/ Busy \/ Failure \/ CountFailure \/ After
             \/ CrashRunner
    PROVE  SeasonalityInv'
<1>0. /\ TypeOK /\ row \in Row /\ runner \in Runner /\ today \in Nat /\ MaxDay \in Nat
      /\ today \in 0..MaxDay /\ tasks \subseteq Imports /\ catalog \in BOOLEAN
  BY ConstantsAssumption DEF SeasonalityInv, TypeOK
<1>1. NoRunner \in Runner /\ NoRunner.at # "batch"
  BY DEF NoRunner, Runner
<1>2. /\ runner.at = "batch" =>
           runner.day <= today /\ row.coverage.month <= Month(runner.day)
      /\ row.coverage.month <= Month(today)
  BY DEF SeasonalityInv, Dated
<1>3. Alike(row, row)
  BY DEF Alike
<1>4. CASE Catalog \/ CrashBackend \/ NextDay
  <2>1. /\ UNCHANGED <<stored, nextId, owner, batch, months, profiles, row, runner>>
        /\ tasks' \subseteq Imports /\ catalog' \in BOOLEAN
        /\ today' \in 0..MaxDay /\ today <= today' /\ reader' \in {reader, NoReader}
    <3>1. CASE Catalog
      BY <1>0, <3>1 DEF Catalog, sourceVars
    <3>2. CASE CrashBackend
      BY <1>0, <3>2 DEF CrashBackend
    <3>3. CASE NextDay
      BY <1>0, <3>3 DEF NextDay, sourceVars
    <3> QED BY <1>4, <3>1, <3>2, <3>3
  <2>2. runner'.at = "batch" => runner'.day <= today' /\ row.coverage.month <= Month(runner'.day)
    BY <1>0, <1>2, <2>1 DEF Runner
  <2> QED BY <1>0, <1>3, <2>1, <2>2, QuietStep
<1>5. CASE Enable \/ Pause \/ Launch \/ Busy \/ CountFailure
  <2>1. /\ UNCHANGED <<stored, nextId, owner, batch, months, profiles, tasks, catalog, today,
                        reader>>
    BY <1>5 DEF Enable, Pause, Launch, Busy, CountFailure, Command, Control, sourceVars
  <2>2. row' \in Row /\ Alike(row', row)
    <3>1. CASE Enable
      BY <1>0, <3>1 DEF Enable, Command, Row, Alike
    <3>2. CASE Pause
      BY <1>0, <3>2 DEF Pause, Command, Row, Alike
    <3>3. CASE Launch
      BY ZenonT(60), <1>0, <3>3 DEF Launch, Row, Alike
    <3>4. CASE Busy
      BY <1>0, <3>4 DEF Busy, Row, Alike
    <3>5. CASE CountFailure
      <4>1. PICK failures \in Nat, enabled \in BOOLEAN :
              row' = [row EXCEPT !.error = TRUE, !.failures = failures, !.enabled = enabled]
        <5> DEFINE failures == runner.failures + 1
                   enabled == IF failures >= 3 THEN Written(row.enabled, runner.enabled, FALSE)
                                               ELSE row.enabled
        <5>1. failures \in Nat
          BY <1>0 DEF Runner
        <5>2. row.enabled \in BOOLEAN
          BY <1>0 DEF Row
        <5>3. enabled \in BOOLEAN
          <6> HIDE DEF failures
          <6> QED BY <5>2, Zenon DEF Written
        <5>4. row' = [row EXCEPT !.error = TRUE, !.failures = failures, !.enabled = enabled]
          BY <1>0, <3>5 DEF CountFailure, Row
        <5> HIDE DEF failures, enabled
        <5> QED BY <5>1, <5>3, <5>4
      <4> QED BY <1>0, <4>1 DEF Row, Alike
    <3> QED BY <1>5, <3>1, <3>2, <3>3, <3>4, <3>5
  <2>3. runner' \in Runner /\ (runner'.at = "batch" => runner' = runner)
    <3>1. CASE UNCHANGED runner
      BY <1>0, <3>1
    <3>2. CASE Launch
      BY <1>1, <3>2 DEF Launch, NoRunner, Runner
    <3>3. CASE At("after")
      BY <1>0, <3>3 DEF At, Runner
    <3> QED BY <1>5, <3>1, <3>2, <3>3 DEF Enable, Pause, Busy, CountFailure, Command
  <2>4. runner'.at = "batch" => runner'.day <= today' /\ row.coverage.month <= Month(runner'.day)
    BY <1>2, <2>1, <2>3
  <2> QED BY <1>0, <2>1, <2>2, <2>3, <2>4, QuietStep
<1>6. CASE Poll \/ CheckEnabled \/ CheckStop \/ Failure \/ After \/ CrashRunner
  <2>1. UNCHANGED <<stored, nextId, owner, batch, months, profiles, tasks, catalog, today,
                    reader, row>>
    BY <1>6 DEF Poll, CheckEnabled, CheckStop, Failure, After, CrashRunner, Control, sourceVars
  <2>2. /\ runner' \in Runner
        /\ runner'.at = "batch" => runner'.day = today
    <3>1. CASE Poll
      BY <1>0, <3>1 DEF Poll, At, Runner
    <3>2. CASE CheckEnabled
      BY <1>0, <3>2 DEF CheckEnabled, At, Runner
    <3>3. CASE CheckStop
      BY <1>0, <1>1, <3>3 DEF CheckStop, At, Leave, Runner
    <3>4. CASE Failure
      BY <1>0, <3>4 DEF Failure, Row, Runner
    <3>5. CASE After
      BY <1>0, <1>1, <3>5 DEF After, At, Leave, Runner
    <3>6. CASE CrashRunner
      BY <1>1, <3>6 DEF CrashRunner, Leave
    <3> QED BY <1>6, <3>1, <3>2, <3>3, <3>4, <3>5, <3>6
  <2>3. runner'.at = "batch" => runner'.day <= today' /\ row.coverage.month <= Month(runner'.day)
    BY <1>0, <1>2, <2>1, <2>2
  <2> QED BY <1>0, <1>3, <2>1, <2>2, <2>3, QuietStep
<1> QED BY <1>4, <1>5, <1>6

(* A report that reads a row at rest is promised the history of that moment. *)
LEMMA ReportSteps ==
    ASSUME SeasonalityInv, Remember, Report
    PROVE  SeasonalityInv'
<1>0. /\ TypeOK /\ row \in Row /\ reader \in Reader
      /\ UNCHANGED <<sourceVars, catalog, today, row, months, profiles, runner>>
      /\ UNCHANGED <<stored, nextId, owner, batch, tasks>> /\ stored' \subseteq SaleIds
  BY DEF SeasonalityInv, TypeOK, Report, ReadState, ReadPending, ReadProfiles, Answer, Reading,
         sourceVars
<1>1. Sound(row)' /\ InOrder' /\ Dated'
  <2>1. Sound(row) /\ InOrder /\ Dated /\ Alike(row', row)
    BY <1>0 DEF SeasonalityInv, Alike
  <2>2. InOrder' /\ Dated'
    BY <1>0, <2>1 DEF InOrder, Dated, Month
  <2> QED BY <1>0, <2>1, <2>2, SoundStays
<1>2. reader' \in Reader
  <2>1. CASE ReadState
    <3>1. PICK valid \in BOOLEAN :
            reader' = [NoReader EXCEPT !.at = "pending", !.valid = valid,
                                       !.generation = row.active, !.coverage = row.coverage]
      BY <1>0, <2>1 DEF ReadState, Ready
    <3> QED BY <1>0, <3>1 DEF NoReader, NoAnswer, Reader, Row
  <2>2. CASE ReadPending
    <3>1. PICK valid \in BOOLEAN : reader' = [reader EXCEPT !.at = "profiles", !.valid = valid]
      BY <1>0, <2>2 DEF ReadPending, Pending, Reader
    <3> QED BY <1>0, <3>1 DEF Reader
  <2>3. CASE ReadProfiles
    <3> DEFINE answer == [k \in Products |->
                 IF Offered(k) THEN {profiles[reader.generation][k].data} ELSE {}]
    <3>1. ASSUME NEW k \in Products PROVE profiles[reader.generation][k].data \in Sums
      BY <1>0 DEF TypeOK, Reader, Profile
    <3>2. answer \in [Products -> SUBSET Sums]
      BY <3>1
    <3>3. reader' = [reader EXCEPT !.at = "answered", !.answer = answer]
      BY <2>3 DEF ReadProfiles
    <3> HIDE DEF answer
    <3> QED BY <1>0, <3>2, <3>3 DEF Reader
  <2>4. CASE Answer
    BY <2>4, ConstantsAssumption
      DEF Answer, NoReader, Reader, NoAnswer, NoCoverage, Coverage, Generations
  <2> QED BY <2>1, <2>2, <2>3, <2>4 DEF Report
<1>3. TypeOK'
  BY <1>0, <1>2, Remembers DEF TypeOK
<1>4. Promised' /\ ReadersSeeTruth'
  <2>1. CASE ReadState
    <3>1. /\ reader.at = "off" /\ reader'.at = "pending" /\ reader'.valid = Ready(row, today)
          /\ reader'.generation = row.active /\ reader'.coverage = row.coverage
      BY <2>1 DEF ReadState, NoReader
    <3>2. ASSUME reader'.valid, NEW k \in Products, profiles[row.active][k].status = "ready"
          PROVE  \E truth \in recent'[k] : profiles[row.active][k].data = CountOnce(truth)
      <4>1. /\ row.active = row.generation /\ row.source = row.job /\ ~row.rebuild
            /\ row.phase \in {"idle", "calculate", "cleanup"}
        BY <3>1, <3>2 DEF Ready
      <4>2. Boundary(row) /\ Counted(row) /\ row.cursor = row.upper
        BY <4>1 DEF SeasonalityInv, Sound, Scanned, PhaseSays
      <4>3. Part(row.generation, k) = CountOnce(Truth(k))
        BY <1>0, <4>1, <4>2, PartIsTruth
      <4>4. profiles[row.active][k].data = Part(row.generation, k)
        BY <3>2, <4>1 DEF SeasonalityInv, Sound, Copied
      <4>5. Truth(k) \in recent'[k]
        BY <1>0, <3>1, Remembers
      <4> QED BY <4>3, <4>4, <4>5
    <3>3. Promised'
      BY <1>0, <3>1, <3>2 DEF Promised, CountOnce
    <3> QED BY <3>1, <3>3 DEF ReadersSeeTruth
  <2>2. CASE ReadPending
    <3>1. /\ reader.at = "pending" /\ reader'.at = "profiles" /\ (reader'.valid => reader.valid)
          /\ reader'.generation = reader.generation /\ reader'.coverage = reader.coverage
      BY <1>0, <2>2 DEF ReadPending, Reader
    <3>2. \A k \in Products : recent[k] \subseteq recent'[k]
      BY <1>0, <3>1, Remembers
    <3>3. Promised'
      BY <1>0, <3>1, <3>2 DEF SeasonalityInv, Promised, CountOnce
    <3> QED BY <3>1, <3>3 DEF ReadersSeeTruth
  <2>3. CASE ReadProfiles
    <3>1. /\ reader.at = "profiles" /\ reader'.at = "answered"
          /\ reader'.answer = [k \in Products |->
                IF Offered(k) THEN {profiles[reader.generation][k].data} ELSE {}]
      BY <1>0, <2>3 DEF ReadProfiles, Reader
    <3>2. \A k \in Products : recent[k] \subseteq recent'[k]
      BY <1>0, <3>1, Remembers
    <3>3. ASSUME NEW k \in Products, NEW data \in reader'.answer[k]
          PROVE  \E truth \in recent'[k] : data = CountOnce(truth)
      <4>1. Offered(k) /\ data = profiles[reader.generation][k].data
        BY <3>1, <3>3
      <4>2. \E truth \in recent[k] : data = CountOnce(truth)
        BY <3>1, <4>1 DEF SeasonalityInv, Promised, Offered
      <4> QED BY <3>2, <4>2
    <3>4. ReadersSeeTruth'
      BY <3>3 DEF ReadersSeeTruth, CountOnce
    <3> QED BY <3>1, <3>4 DEF Promised
  <2>4. CASE Answer
    BY <2>4 DEF Answer, NoReader, Promised, ReadersSeeTruth
  <2> QED BY <2>1, <2>2, <2>3, <2>4 DEF Report
<1> QED BY <1>1, <1>3, <1>4 DEF SeasonalityInv

LEMMA ChangedFields ==
    ASSUME NEW x \in Row
    PROVE  LET r == Changed(x, TRUE) IN
           /\ r \in Row /\ r.rebuild /\ r.source = x.source + 1
           /\ r.active = x.active /\ r.generation = x.generation /\ r.job = x.job
           /\ r.coverage = x.coverage
<1>1. x.source + 1 \in Nat /\ (x.rebuild \/ TRUE) = TRUE
  BY DEF Row
<1>2. Changed(x, TRUE) = [x EXCEPT !.source = x.source + 1, !.rebuild = TRUE]
  BY <1>1 DEF Changed
<1> QED BY <1>1, <1>2 DEF Row

(* A deletion and a rebuild command void what the row says of the sums until *)
(* a batch has begun a generation.                                          *)
LEMMA Voids ==
    ASSUME SeasonalityInv, Remember, row.source < MaxRevision,
           row' \in Row, row'.rebuild, row'.source = row.source + 1, row'.active = row.active,
           row'.generation = row.generation, row'.job = row.job, row'.coverage = row.coverage,
           stored' \subseteq stored,
           UNCHANGED <<nextId, owner, batch, tasks, catalog, today, months, profiles, runner,
                       reader>>
    PROVE  SeasonalityInv'
<1>0. TypeOK /\ row \in Row /\ stored' \subseteq SaleIds /\ MaxRevision \in Nat
  BY ConstantsAssumption DEF SeasonalityInv, TypeOK
<1>1. TypeOK'
  BY <1>0, Remembers DEF TypeOK
<1>2. InOrder'
  BY DEF SeasonalityInv, InOrder
<1>3. Sound(row)'
  <2>1. Bounded(row)'
    <3>1. /\ row.generation \in Int /\ row.source \in Nat /\ row.job \in Nat
          /\ row.active \in Int
      BY <1>0 DEF Row, Generations
    <3>2. /\ row.active <= row.generation /\ row.job <= row.source
          /\ row.generation <= row.source + 1
      BY DEF SeasonalityInv, Sound, Bounded
    <3> QED BY <1>0, <3>1, <3>2 DEF Bounded
  <2>2. Fresh(row)' /\ Copied(row)' /\ Known(row)'
    <3>1. Fresh(row) /\ Copied(row) /\ Known(row)
      BY DEF SeasonalityInv, Sound
    <3> QED BY <3>1 DEF Fresh, Copied, Part, Known
  <2> QED BY <2>1, <2>2 DEF Sound, Scanned, Complete
<1>4. Dated'
  BY DEF SeasonalityInv, Dated, Month
<1>5. Promised' /\ ReadersSeeTruth'
  <2>1. OnlyTruth
    BY DEF OnlyTruth
  <2> QED BY <1>0, <2>1, PromisesStay DEF SeasonalityInv
<1> QED BY <1>1, <1>2, <1>3, <1>4, <1>5 DEF SeasonalityInv

(* What an import adds lies above the boundary until a batch has seen its    *)
(* end, and its end is a new revision of the source.                        *)
LEMMA ImportSteps ==
    ASSUME SeasonalityInv, Remember, NEW i \in Imports,
           Upload(i) \/ StartImport(i) \/ AddRow(i) \/ FinishImport(i) \/ AbortImport(i)
    PROVE  SeasonalityInv'
<1>0. /\ TypeOK /\ row \in Row /\ SaleIds \subseteq Nat /\ stored \subseteq SaleIds
      /\ nextId \in Nat /\ owner \in [SaleIds -> Imports] /\ row.upper \in Nat /\ row.cursor \in Nat
      /\ batch \in [Imports -> {"absent", "queued", "processing", "done"}]
      /\ UNCHANGED <<catalog, today, months, profiles, runner, reader>>
  <2>1. SaleIds \subseteq Nat /\ 1..(MaxId + 1) \subseteq Nat
    BY ConstantsAssumption DEF SaleIds
  <2> QED BY <2>1
    DEF SeasonalityInv, TypeOK, Row, Upload, StartImport, AddRow, FinishImport, AbortImport
<1>1. /\ stored' \subseteq SaleIds /\ nextId' \in 1..(MaxId + 1)
      /\ owner' \in [SaleIds -> Imports]
      /\ batch' \in [Imports -> {"absent", "queued", "processing", "done"}]
      /\ tasks' \subseteq Imports
  <2>1. CASE AddRow(i)
    <3>1. nextId \in SaleIds /\ nextId + 1 \in 1..(MaxId + 1)
      BY <2>1, ConstantsAssumption DEF AddRow, SeasonalityInv, TypeOK, SaleIds
    <3> QED BY <2>1, <3>1 DEF AddRow, SeasonalityInv, TypeOK
  <2>2. CASE ~AddRow(i)
    BY <2>2 DEF SeasonalityInv, TypeOK, Upload, StartImport, FinishImport, AbortImport
  <2> QED BY <2>1, <2>2
<1>2. /\ row' \in Row
      /\ row'.active = row.active /\ row'.generation = row.generation /\ row'.job = row.job
      /\ row'.rebuild = row.rebuild /\ row'.coverage = row.coverage /\ row'.phase = row.phase
      /\ row'.cursor = row.cursor /\ row'.upper = row.upper
      /\ row'.sourceCursor = row.sourceCursor /\ row'.lastChecked = row.lastChecked
      /\ \/ row'.source = row.source /\ (Upload(i) \/ StartImport(i) \/ AddRow(i))
         \/ row'.source = row.source + 1
  <2>1. CASE row' = Changed(row, FALSE)
    <3>1. row.rebuild \in BOOLEAN /\ row.source + 1 \in Nat
      BY <1>0 DEF Row
    <3> QED BY <1>0, <2>1, <3>1 DEF Changed, Row
  <2>2. CASE row' = row /\ (Upload(i) \/ StartImport(i) \/ AddRow(i))
    BY <1>0, <2>2
  <2> QED BY <2>1, <2>2 DEF Upload, StartImport, AddRow, FinishImport, AbortImport
<1>3. TypeOK'
  BY <1>0, <1>1, <1>2, Remembers DEF TypeOK
<1>4. /\ \A id \in stored : id \in stored' /\ owner'[id] = owner[id] /\ id < nextId
      /\ \A id \in stored' : id \notin stored =>
            id = nextId /\ owner'[id] = i /\ batch' = batch /\ batch[i] = "processing"
      /\ nextId <= nextId' /\ (nextId' = nextId => stored' = stored)
      /\ (stored' # stored => nextId' = nextId + 1)
  <2>1. CASE AddRow(i)
    <3>1. nextId \in SaleIds
      BY <2>1, ConstantsAssumption DEF AddRow, SeasonalityInv, TypeOK, SaleIds
    <3>2. \A id \in stored : id < nextId /\ id # nextId
      BY <1>0 DEF SeasonalityInv, InOrder
    <3> QED BY <1>0, <2>1, <3>1, <3>2 DEF AddRow
  <2>2. CASE ~AddRow(i)
    <3>1. UNCHANGED <<stored, nextId, owner>>
      BY <2>2 DEF Upload, StartImport, FinishImport, AbortImport
    <3>2. \A id \in stored : id < nextId
      BY DEF SeasonalityInv, InOrder
    <3> QED BY <1>0, <3>1, <3>2
  <2> QED BY <2>1, <2>2
<1>5. ASSUME NEW id \in stored
      PROVE  /\ batch'[owner'[id]] # "absent"
             /\ batch[owner[id]] = "done" => batch'[owner'[id]] = "done"
             /\ row'.source = row.source /\ batch[owner[id]] # "done"
                  => batch'[owner'[id]] # "done"
  <2>1. owner[id] \in Imports /\ batch[owner[id]] # "absent" /\ owner'[id] = owner[id]
    BY <1>0, <1>4 DEF SeasonalityInv, InOrder
  <2>2. CASE batch' = batch
    BY <2>1, <2>2
  <2>3. CASE Upload(i)
    BY <1>0, <2>1, <2>3 DEF Upload
  <2>4. CASE StartImport(i)
    BY <1>0, <2>1, <2>4 DEF StartImport
  <2>5. CASE FinishImport(i)
    <3>1. row'.source # row.source
      BY <1>0, <2>5 DEF FinishImport, Changed, Row
    <3> QED BY <1>0, <2>1, <2>5, <3>1 DEF FinishImport
  <2> QED BY <2>2, <2>3, <2>4, <2>5 DEF AddRow, AbortImport
<1>6. InOrder'
  <2>1. ASSUME NEW id \in stored' PROVE id < nextId' /\ batch'[owner'[id]] # "absent"
    <3>1. CASE id \in stored
      BY <1>0, <1>1, <1>4, <1>5, <3>1, ConstantsAssumption
    <3>2. CASE id \notin stored
      BY <1>0, <1>4, <3>2
    <3> QED BY <3>1, <3>2
  <2> QED BY <2>1 DEF InOrder
<1>7. Sound(row)'
  <2>1. Bounded(row)'
    BY <1>0, <1>2 DEF SeasonalityInv, Sound, Bounded, Row, Generations
  <2>2. Fresh(row)' /\ Copied(row)' /\ Known(row)' /\ Complete(row)'
    BY <1>0, <1>2 DEF SeasonalityInv, Sound, Fresh, Copied, Part, Known, Complete, Month
  <2>3. ASSUME ~row.rebuild
        PROVE  row.generation > 0 /\ Boundary(row)' /\ PhaseSays(row)' /\ Counted(row)'
    <3>1. row.generation > 0 /\ Boundary(row) /\ PhaseSays(row) /\ Counted(row)
      BY <2>3 DEF SeasonalityInv, Sound, Scanned
    <3>2. \A id \in stored' : id \notin stored => ~(id <= row.upper) /\ ~(id <= row.cursor)
      <4>1. nextId > 0
        BY ConstantsAssumption DEF SeasonalityInv, TypeOK
      <4>2. row.upper < nextId /\ row.cursor < nextId
        BY <1>0, <1>4, <3>1, <4>1 DEF Boundary
      <4> QED BY <1>0, <1>4, <4>2
    <3>3. Boundary(row)'
      <4>1. row'.upper \in stored' \union {0} /\ row'.cursor <= row'.upper
        BY <1>2, <1>4, <3>1 DEF Boundary
      <4>2. ASSUME NEW id \in stored', id <= row'.upper PROVE batch'[owner'[id]] = "done"
        BY <1>2, <1>5, <3>1, <3>2, <4>2 DEF Boundary
      <4>3. ASSUME row'.source = row'.job, NEW id \in stored', id > row'.upper
            PROVE  batch'[owner'[id]] # "done"
        <5>1. row'.source = row.source /\ row.source = row.job
          BY <1>0, <1>2, <4>3 DEF SeasonalityInv, Sound, Bounded, Row
        <5>2. CASE id \in stored
          BY <1>2, <1>5, <3>1, <4>3, <5>1, <5>2 DEF Boundary
        <5>3. CASE id \notin stored
          BY <1>4, <5>3
        <5> QED BY <5>2, <5>3
      <4> QED BY <4>1, <4>2, <4>3 DEF Boundary
    <3>4. PhaseSays(row)'
      BY <1>2, <3>1 DEF PhaseSays
    <3>5. Counted(row)'
      <4>1. {id \in stored' : id <= row.cursor} = {id \in stored : id <= row.cursor}
        BY <1>4, <3>2
      <4> QED BY <1>0, <1>2, <3>1, <4>1 DEF Counted, CountOnce
    <3> QED BY <3>1, <3>3, <3>4, <3>5
  <2>4. Scanned(row)'
    BY <1>2, <2>3 DEF Scanned
  <2> QED BY <2>1, <2>2, <2>4 DEF Sound
<1>8. Dated'
  BY <1>0, <1>2 DEF SeasonalityInv, Dated, Month
<1>9. Promised' /\ ReadersSeeTruth'
  <2>1. OnlyTruth
    BY <1>0 DEF OnlyTruth
  <2> QED BY <1>0, <1>1, <2>1, PromisesStay DEF SeasonalityInv
<1> QED BY <1>3, <1>6, <1>7, <1>8, <1>9 DEF SeasonalityInv

LEMMA BatchKeeps ==
    ASSUME SeasonalityInv, Remember, Batch
    PROVE  SeasonalityInv'
<1>0. /\ UNCHANGED <<stored, nextId, owner, batch, tasks, catalog, today, reader>>
      /\ stored' \subseteq SaleIds /\ TypeOK /\ runner' = [runner EXCEPT !.at = "after"]
      /\ runner.at = "batch"
  BY DEF SeasonalityInv, TypeOK, Batch, sourceVars, At
<1>1. /\ row' \in Row /\ months' \in [Generations -> Sums]
      /\ profiles' \in [Generations -> [Products -> Profile]]
      /\ Sound(row)' /\ OnlyTruth
      /\ row'.coverage.month = Month(runner.day)
      /\ row'.phase \in {"cleanup", "idle"} => Month(row'.lastChecked) <= row'.coverage.month
  BY BatchStep
<1>2. runner' \in Runner /\ runner'.at = "after"
  BY <1>0 DEF TypeOK, Runner
<1>3. TypeOK'
  BY <1>0, <1>1, <1>2, Remembers DEF TypeOK
<1>4. InOrder'
  BY <1>0 DEF SeasonalityInv, InOrder
<1>5. Dated'
  <2>1. runner.day <= today /\ runner.day \in Int /\ today \in Int
    BY <1>0, ConstantsAssumption DEF SeasonalityInv, Dated, TypeOK, Runner
  <2>2. row'.coverage.month <= Month(today)
    BY <1>1, <2>1, MonthOrder
  <2> QED BY <1>0, <1>1, <1>2, <2>2 DEF Dated, Month
<1>6. Promised' /\ ReadersSeeTruth'
  BY <1>0, <1>1, PromisesStay DEF SeasonalityInv
<1> QED BY <1>1, <1>3, <1>4, <1>5, <1>6 DEF SeasonalityInv

-----------------------------------------------------------------------------
(* The invariant is inductive *)

LEMMA InitInv == Init => SeasonalityInv
<1> SUFFICES ASSUME Init PROVE SeasonalityInv
  OBVIOUS
<1>0. MaxId \in Nat /\ MaxRevision \in Nat /\ MaxDay \in Nat /\ 0 \in Generations
      /\ 1 \in 1..(MaxId + 1) /\ 0 \in 0..MaxDay
  BY ConstantsAssumption DEF Generations
<1>1. NoCoverage \in Coverage /\ NoSums \in Sums
  BY DEF NoCoverage, Coverage, NoSums, Sums
<1>2. NoProfile \in Profile /\ NoProfile.status = "absent"
  BY <1>1 DEF NoProfile, Profile
<1>3. row \in Row /\ NoRunner \in Runner /\ NoReader \in Reader
  BY <1>0, <1>1 DEF Init, Row, Phases, NoRunner, Runner, NoReader, Reader, NoAnswer
<1>4. TypeOK
  <2>1. owner \in [SaleIds -> Imports]
    BY DEF Init
  <2> QED BY <1>0, <1>1, <1>2, <1>3, <2>1 DEF Init, TypeOK
<1>5. Sound(row)
  <2>1. \A g \in Generations :
          months[g] = NoSums /\ \A k \in Products : profiles[g][k].status = "absent"
    BY <1>2 DEF Init
  <2>2. \A g \in Generations, id \in SaleIds : months[g][id] = 0
    BY <2>1 DEF NoSums
  <2>3. row.generation = 0 /\ row.rebuild /\ row.active = 0 /\ row.job = 0 /\ row.source = 0
    BY DEF Init
  <2>4. Bounded(row) /\ Fresh(row) /\ Copied(row)
    BY <1>0, <2>1, <2>3 DEF Bounded, Fresh, Copied
  <2>5. Known(row)
    BY <1>0, <2>2, <2>3 DEF Known
  <2> QED BY <2>3, <2>4, <2>5 DEF Sound, Scanned, Complete
<1>6. Dated
  <2>1. Month(0) \in Nat
    BY MonthType
  <2> QED BY <2>1 DEF Init, Dated, NoRunner, NoCoverage
<1> QED BY <1>4, <1>5, <1>6
  DEF SeasonalityInv, InOrder, Init, Promised, ReadersSeeTruth, NoReader

LEMMA NextInv == SeasonalityInv /\ [Next]_vars => SeasonalityInv'
<1>1. ASSUME SeasonalityInv, UNCHANGED vars PROVE SeasonalityInv'
  <2>1. UNCHANGED <<stored, nextId, owner, batch, tasks, catalog, today, row, months, profiles,
                    runner, reader, recent, late>>
    BY <1>1 DEF vars, sourceVars
  <2>2. TypeOK' /\ InOrder' /\ Dated'
    BY <1>1, <2>1 DEF SeasonalityInv, TypeOK, InOrder, Dated, Month
  <2>3. Sound(row)'
    BY <1>1, <2>1, SoundStays DEF SeasonalityInv, Alike
  <2>4. Promised' /\ ReadersSeeTruth'
    BY <1>1, <2>1 DEF SeasonalityInv, Promised, ReadersSeeTruth, CountOnce
  <2> QED BY <2>2, <2>3, <2>4 DEF SeasonalityInv
<1>2. ASSUME SeasonalityInv, Step, Remember PROVE SeasonalityInv'
  <2>1. CASE \E i \in Imports : Upload(i) \/ StartImport(i) \/ AddRow(i)
                                  \/ FinishImport(i) \/ AbortImport(i)
    BY <1>2, <2>1, ImportSteps
  <2>2. CASE \E S \in SUBSET stored : DeleteSales(S)
    <3>1. row \in Row
      BY <1>2 DEF SeasonalityInv, TypeOK
    <3> QED BY <1>2, <2>2, <3>1, ChangedFields, Voids DEF DeleteSales
  <2>3. CASE Rebuild
    <3>1. row \in Row
      BY <1>2 DEF SeasonalityInv, TypeOK
    <3> QED BY <1>2, <2>3, <3>1, ChangedFields, Voids DEF Rebuild, Command, sourceVars
  <2>4. CASE Batch
    BY <1>2, <2>4, BatchKeeps
  <2>5. CASE Report
    BY <1>2, <2>5, ReportSteps
  <2>6. CASE Catalog \/ CrashBackend \/ NextDay \/ Enable \/ Pause \/ Launch \/ Poll
               \/ CheckEnabled \/ CheckStop \/ Busy \/ Failure \/ CountFailure \/ After
               \/ CrashRunner
    BY <1>2, <2>6, ControlSteps
  <2> QED BY <1>2, <2>1, <2>2, <2>3, <2>4, <2>5, <2>6 DEF Step, Source, Run
<1> QED BY <1>1, <1>2 DEF Next

(* The invariant holds in every behaviour, whatever the worker, its          *)
(* operators, imports, deletions, reports and crashes do (run_batch).        *)
THEOREM SeasonalityInvariant == Spec => []SeasonalityInv
BY InitInv, NextInv, PTL DEF Spec

-----------------------------------------------------------------------------
(* What follows *)

(* Type correctness, for every environment and all constants.                *)
THEOREM SeasonalityTypes == Spec => []TypeOK
<1>1. SeasonalityInv => TypeOK
  BY DEF SeasonalityInv
<1> QED BY <1>1, SeasonalityInvariant, PTL

(* A report computes with histories its products have had during its own     *)
(* run (attach).                                                            *)
THEOREM ReadersSeeTruthTheorem == Spec => []ReadersSeeTruth
<1>1. SeasonalityInv => ReadersSeeTruth
  BY DEF SeasonalityInv
<1> QED BY <1>1, SeasonalityInvariant, PTL

(* Every sale is counted once, and what the day's publication calls ready is *)
(* complete and true (scan_batch, calculate_batch, publication).            *)
THEOREM ProjectionIsTrueTheorem == Spec => []ProjectionIsTrue
<1>1. SeasonalityInv => ExactlyOnce
  BY DEF SeasonalityInv, Sound, Scanned, Counted, ExactlyOnce
<1>2. SeasonalityInv => PublishedIsComplete
  <2>1. SUFFICES ASSUME SeasonalityInv, Ready(row, today), row.phase \in {"cleanup", "idle"},
                        row.lastChecked = today, NEW k \in Products, Truth(k) # {}
                 PROVE  /\ profiles[row.active][k].status = "ready"
                        /\ profiles[row.active][k].coverage = row.coverage
                        /\ profiles[row.active][k].data = CountOnce(Truth(k))
    BY DEF PublishedIsComplete
  <2>2. /\ row.active = row.generation /\ ~row.rebuild /\ row.source = row.job
        /\ row.coverage.month = Month(row.lastChecked)
    BY <2>1 DEF Ready
  <2>3. /\ TypeOK /\ row \in Row /\ stored \subseteq SaleIds
        /\ Boundary(row) /\ Counted(row) /\ row.cursor = row.upper
    BY <2>1, <2>2 DEF SeasonalityInv, TypeOK, Sound, Scanned, PhaseSays
  <2>4. Part(row.generation, k) = CountOnce(Truth(k))
    BY <2>2, <2>3, PartIsTruth
  <2>5. PICK id \in SaleIds : id \in Truth(k) /\ Product[id] = k
    BY <2>1, <2>3 DEF Truth
  <2>6. months[row.generation][id] = 1
    BY <2>4, <2>5 DEF Part, CountOnce
  <2>7. profiles[row.generation][k].status # "absent"
    BY <2>1, <2>5, <2>6 DEF SeasonalityInv, Sound, Known
  <2>8. /\ profiles[row.generation][k].status = "ready"
        /\ profiles[row.generation][k].coverage = row.coverage
    BY <2>1, <2>2, <2>7 DEF SeasonalityInv, Sound, Complete
  <2> QED BY <2>1, <2>2, <2>4, <2>8 DEF SeasonalityInv, Sound, Copied
<1> QED BY <1>1, <1>2, SeasonalityInvariant, PTL DEF ProjectionIsTrue

(* A pause is heard before the next batch is decided.                        *)
PauseHeard == late \in {0, 1} /\ (runner.at = "batch" => late = 0)

LEMMA PauseStep == TypeOK /\ PauseHeard /\ [Next]_vars => PauseHeard'
<1> SUFFICES ASSUME TypeOK, PauseHeard, [Next]_vars PROVE PauseHeard'
  OBVIOUS
<1>1. CASE UNCHANGED vars
  BY <1>1 DEF vars, PauseHeard
<1>2. CASE Next
  <2>1. /\ late' \in {0, 1} /\ (~row'.stop => late' = 0)
        /\ late' = late \/ late' = 0 \/ runner'.at = "after"
    BY <1>2 DEF Next, Remember, PauseHeard
  <2>2. runner \in Runner /\ NoRunner.at = "off"
    BY DEF TypeOK, NoRunner
  <2>3. runner'.at = "batch" => runner'.at = runner.at \/ ~row'.stop
    <3>1. CASE Source \/ Catalog \/ NextDay \/ Enable \/ Pause \/ Rebuild \/ Report
      <4>1. UNCHANGED runner
        BY <3>1 DEF Source, Upload, StartImport, AddRow, FinishImport, AbortImport, CrashBackend,
                    DeleteSales, Catalog, NextDay, Enable, Pause, Rebuild, Command, Report,
                    ReadState, ReadPending, ReadProfiles, Answer, Reading
      <4> QED BY <4>1
    <3>2. CASE Launch \/ CrashRunner
      BY <2>2, <3>2 DEF Launch, CrashRunner, Leave, NoRunner
    <3>3. CASE CheckStop
      BY <2>2, <3>3 DEF CheckStop, At, Leave, Runner
    <3>4. CASE Poll \/ CheckEnabled \/ Batch \/ Busy \/ Failure \/ CountFailure \/ After
      BY <2>2, <3>4 DEF Poll, CheckEnabled, Batch, Busy, Failure, CountFailure, After, At, Leave,
                        Runner
    <3> QED BY <1>2, <3>1, <3>2, <3>3, <3>4 DEF Next, Step, Run
  <2> QED BY <2>1, <2>3 DEF PauseHeard
<1> QED BY <1>1, <1>2

(* After a pause at most the batch that had been decided before commits (run,*)
(* worker).                                                                 *)
THEOREM PauseStopsTheorem == Spec => []PauseStops
<1>1. Init => PauseHeard
  BY DEF Init, PauseHeard
<1>2. PauseHeard => PauseStops
  BY DEF PauseHeard, PauseStops
<1> QED BY <1>1, <1>2, PauseStep, SeasonalityTypes, PTL DEF Spec

-----------------------------------------------------------------------------
(* The cleanup                                                               *)

(* A profile that is not there has nothing in it, so that what the cleanup   *)
(* no longer finds is gone.                                                  *)
Vacant ==
    \A g \in Generations, k \in Products :
        profiles[g][k].status = "absent" => profiles[g][k] = NoProfile

(* What a step keeps of the generations in use, and what it leaves of others. *)
Kept ==
    \A g \in Generations, k \in Products :
        Holds(g, k) /\ g >= row'.active - 1 => Holds(g, k)'
Swept == Kept /\ Vacant' /\ OldGenerationsGo'

(* A step that leaves sums and profiles alone, and keeps a row at rest.      *)
LEMMA NothingSwept ==
    ASSUME Vacant, OldGenerationsGo, UNCHANGED <<months, profiles>>,
           row'.phase = "idle" => row.phase = "idle" /\ row'.active = row.active
    PROVE  Swept
BY DEF Swept, Kept, Vacant, OldGenerationsGo, Holds

(* Reading a page only adds.                                                 *)
LEMMA ScanSweeps ==
    ASSUME TypeOK, Vacant, NEW r \in Row, ScanBatch(r), row'.phase # "idle"
    PROVE  Swept
<1>1. OldGenerationsGo'
  BY DEF OldGenerationsGo
<1>2. CASE UNCHANGED <<months, profiles>>
  BY <1>1, <1>2 DEF Swept, Kept, Vacant, Holds
<1>3. CASE ~UNCHANGED <<months, profiles>>
  <2>1. PICK page \in SUBSET SaleIds : AddSums(r.generation, page)
    <3>1. PICK page : page = First({id \in stored : r.cursor < id /\ id <= r.upper}, ScanSize)
      OBVIOUS
    <3>2. page \subseteq SaleIds
      BY <3>1 DEF First, TypeOK
    <3>3. AddSums(r.generation, page)
      <4>1. \/ UNCHANGED <<months, profiles>>
            \/ AddSums(r.generation, First({id \in stored : r.cursor < id /\ id <= r.upper}, ScanSize))
        BY Zenon DEF ScanBatch
      <4> QED BY <1>3, <3>1, <4>1
    <3> QED BY <3>2, <3>3
  <2>2. PICK h : h = r.generation
    OBVIOUS
  <2>3. /\ months' = [months EXCEPT ![h] = [id \in SaleIds |->
                        months[h][id] + (IF id \in page THEN 1 ELSE 0)]]
        /\ profiles' = [profiles EXCEPT ![h] = [k \in Products |->
             IF \E id \in page : Product[id] = k
               THEN [profiles[h][k] EXCEPT !.status = "dirty"] ELSE profiles[h][k]]]
    BY <2>1, <2>2 DEF AddSums, CountOnce
  <2>4. /\ months \in [Generations -> Sums] /\ profiles \in [Generations -> [Products -> Profile]]
        /\ h \in Generations
    BY <2>2 DEF TypeOK, Row
  <2>5. ASSUME NEW g \in Generations, NEW id \in SaleIds, months[g][id] > 0
        PROVE  months'[g][id] > 0
    <3>1. months[g] \in Sums /\ months[g][id] \in Nat
      BY <2>4 DEF Sums
    <3>2. CASE g = h
      <4>1. months'[g][id] = months[g][id] + (IF id \in page THEN 1 ELSE 0)
        BY <2>3, <2>4, <3>2
      <4> QED BY <2>5, <3>1, <4>1
    <3>3. CASE g # h
      BY <2>3, <2>4, <2>5, <3>3
    <3> QED BY <3>2, <3>3
  <2>6. ASSUME NEW g \in Generations, NEW k \in Products
        PROVE  profiles'[g][k] = profiles[g][k] \/ profiles'[g][k].status = "dirty"
    <3>1. profiles[g][k] \in Profile
      BY <2>4
    <3>2. CASE g = h
      <4>1. profiles'[g][k] = IF \E id \in page : Product[id] = k
               THEN [profiles[g][k] EXCEPT !.status = "dirty"] ELSE profiles[g][k]
        BY <2>3, <2>4, <3>2
      <4>2. [profiles[g][k] EXCEPT !.status = "dirty"].status = "dirty"
        BY <3>1 DEF Profile
      <4> QED BY <4>1, <4>2
    <3>3. CASE g # h
      BY <2>3, <2>4, <3>3
    <3> QED BY <3>2, <3>3
  <2>7. Kept
    BY <2>5, <2>6 DEF Kept, Holds
  <2>8. Vacant'
    BY <2>6 DEF Vacant
  <2> QED BY <1>1, <2>7, <2>8 DEF Swept
<1> QED BY <1>2, <1>3

(* Calculating only makes profiles ready.                                    *)
LEMMA CalculateSweeps ==
    ASSUME TypeOK, Vacant, NEW r \in Row, NEW day, CalculateBatch(r, day), row'.phase # "idle"
    PROVE  Swept
<1>1. OldGenerationsGo'
  BY DEF OldGenerationsGo
<1>2. PICK h, some, S : /\ h = r.generation /\ some = First(Outdated(r), ProfileSize)
                        /\ S = months[h]
  OBVIOUS
<1>3. /\ UNCHANGED months
      /\ profiles' = [profiles EXCEPT ![h] = [k \in Products |->
            IF k \notin some THEN profiles[h][k]
            ELSE [status |-> "ready", coverage |-> r.coverage,
                  data |-> [id \in SaleIds |-> IF Product[id] = k THEN S[id] ELSE 0]]]]
  BY <1>2 DEF CalculateBatch
<1>4. profiles \in [Generations -> [Products -> Profile]] /\ h \in Generations
  BY <1>2 DEF TypeOK, Row
<1>5. ASSUME NEW g \in Generations, NEW k \in Products
      PROVE  profiles'[g][k] = profiles[g][k] \/ profiles'[g][k].status = "ready"
  BY <1>3, <1>4
<1>6. Kept
  BY <1>3, <1>5 DEF Kept, Holds
<1>7. Vacant'
  BY <1>5 DEF Vacant
<1> QED BY <1>1, <1>6, <1>7 DEF Swept

(* What the cleanup takes is old; it comes to rest when it finds nothing.    *)
LEMMA CleanupSweeps ==
    ASSUME TypeOK, Vacant, NEW r \in Row, CleanupBatch(r), r.phase = "cleanup",
           row'.active = r.active
    PROVE  Swept
<1>0. /\ months \in [Generations -> Sums] /\ profiles \in [Generations -> [Products -> Profile]]
      /\ Product \in [SaleIds -> Products] /\ r.active \in Int /\ Generations \subseteq Int
  <2>1. Generations \subseteq Int
    BY ConstantsAssumption DEF Generations
  <2> QED BY <2>1, ConstantsAssumption DEF TypeOK, Row
<1> DEFINE sums == {h \in Old(r) \X Products :
                      \E id \in SaleIds : Product[id] = h[2] /\ months[h[1]][id] > 0}
           gone == {h \in Old(r) \X Products : profiles[h[1]][h[2]].status # "absent"}
<1>1. sums \subseteq Old(r) \X Products /\ gone \subseteq Old(r) \X Products
  OBVIOUS
<1>2. ASSUME NEW g \in Generations, NEW k \in Products, g >= r.active - 1
      PROVE  <<g, k>> \notin Old(r) \X Products
  BY <1>0, <1>2 DEF Old
<1>3. CASE sums # {}
  <2>1. PICK S \in SUBSET sums :
          months' = [g \in Generations |-> [id \in SaleIds |->
                       IF <<g, Product[id]>> \in S THEN 0 ELSE months[g][id]]]
    BY <1>3 DEF CleanupBatch
  <2>2. UNCHANGED profiles /\ row' = Succeeded(r)
    BY <1>3 DEF CleanupBatch
  <2>3. row'.phase = "cleanup"
    BY <2>2, SucceededFields DEF Alike
  <2> HIDE DEF sums
  <2>4. ASSUME NEW g \in Generations, NEW id \in SaleIds, g >= r.active - 1
        PROVE  months'[g][id] = months[g][id]
    <3>1. Product[id] \in Products
      BY <1>0
    <3>2. <<g, Product[id]>> \notin S
      BY <1>1, <1>2, <2>1, <2>4, <3>1
    <3> QED BY <2>1, <3>2
  <2>5. Kept
    BY <2>2, <2>4 DEF Kept, Holds
  <2> QED BY <2>2, <2>3, <2>5 DEF Swept, Vacant, OldGenerationsGo
<1>4. CASE sums = {} /\ gone # {}
  <2>1. PICK S \in SUBSET gone :
          profiles' = [g \in Generations |-> [k \in Products |->
                         IF <<g, k>> \in S THEN NoProfile ELSE profiles[g][k]]]
    BY <1>4 DEF CleanupBatch
  <2>2. UNCHANGED months /\ row' = Succeeded(r)
    BY <1>4 DEF CleanupBatch
  <2>3. row'.phase = "cleanup"
    BY <2>2, SucceededFields DEF Alike
  <2> HIDE DEF gone
  <2>4. ASSUME NEW g \in Generations, NEW k \in Products
        PROVE  profiles'[g][k] = NoProfile \/ profiles'[g][k] = profiles[g][k]
    BY <2>1
  <2>5. ASSUME NEW g \in Generations, NEW k \in Products, g >= r.active - 1
        PROVE  profiles'[g][k] = profiles[g][k]
    <3>1. <<g, k>> \notin S
      BY <1>1, <1>2, <2>1, <2>5
    <3> QED BY <2>1, <3>1
  <2>6. Kept
    BY <2>2, <2>5 DEF Kept, Holds
  <2>7. Vacant'
    BY <2>4 DEF Vacant
  <2> QED BY <2>3, <2>6, <2>7 DEF Swept, OldGenerationsGo
<1>5. CASE sums = {} /\ gone = {}
  <2>1. UNCHANGED <<months, profiles>>
    BY <1>5 DEF CleanupBatch
  <2>2. ASSUME NEW g \in Generations, g < r.active - 1
        PROVE  months[g] = NoSums /\ \A k \in Products : profiles[g][k] = NoProfile
    <3>1. g \in Old(r)
      BY <2>2 DEF Old
    <3>2. ASSUME NEW id \in SaleIds PROVE months[g][id] = 0
      <4>1. months[g] \in [SaleIds -> Nat] /\ months[g][id] \in Nat /\ Product[id] \in Products
        BY <1>0 DEF Sums
      <4>2. <<g, Product[id]>> \in Old(r) \X Products
        BY <3>1, <4>1
      <4>3. <<g, Product[id]>> \notin sums
        BY <1>5
      <4>4. ~(months[g][id] > 0)
        BY <4>2, <4>3
      <4> QED BY <4>1, <4>4
    <3>3. months[g] = NoSums
      <4>1. months[g] \in [SaleIds -> Nat]
        BY <1>0 DEF Sums
      <4> QED BY <3>2, <4>1 DEF NoSums
    <3>4. ASSUME NEW k \in Products PROVE profiles[g][k] = NoProfile
      <4>1. <<g, k>> \in Old(r) \X Products /\ <<g, k>> \notin gone
        BY <1>5, <3>1
      <4>2. profiles[g][k].status = "absent"
        BY <4>1
      <4> QED BY <4>2 DEF Vacant
    <3> QED BY <3>3, <3>4
  <2>3. OldGenerationsGo'
    BY <2>1, <2>2 DEF OldGenerationsGo
  <2> QED BY <2>1, <2>3 DEF Swept, Kept, Vacant, Holds
<1> QED BY <1>3, <1>4, <1>5

LEMMA BatchSweeps ==
    ASSUME SeasonalityInv, Vacant, OldGenerationsGo, Batch
    PROVE  Swept
<1> DEFINE day == runner.day
<1>1. /\ TypeOK /\ ~Pending /\ runner.at = "batch" /\ runner \in Runner
      /\ UNCHANGED <<stored, owner, batch>>
  BY DEF SeasonalityInv, Batch, TypeOK, sourceVars
<1>2. day \in Nat /\ row.coverage.month <= Month(day)
  BY <1>1 DEF SeasonalityInv, Dated, Runner
<1>3. PICK upper \in stored \union {0}, top \in Generations :
        /\ IsMax(upper, stored)
        /\ IsMax(top, {row.generation, row.active} \union
                       {g \in Generations : months[g] # NoSums \/
                          \E k \in Products : profiles[g][k].status # "absent"})
        /\ LET r == Prepared(day, upper, top)
           IN \/ r.phase \in {"scan", "scan_all"} /\ ScanBatch(r)
              \/ r.phase = "calculate" /\ CalculateBatch(r, day)
              \/ r.phase = "cleanup" /\ CleanupBatch(r)
  BY DEF Batch
<1>4. PICK r : r = Prepared(day, upper, top)
  OBVIOUS
<1>5. r \in Row /\ Sound(r) /\ ~r.rebuild /\ r.job = r.source
  BY <1>1, <1>2, <1>3, <1>4, Prepares
<1>6. \/ r.phase = "scan" /\ ScanBatch(r)
      \/ r.phase = "calculate" /\ CalculateBatch(r, day)
      \/ r.phase = "cleanup" /\ CleanupBatch(r)
  <2>1. r.phase # "scan_all"
    BY <1>5 DEF Row, Phases
  <2> QED BY <1>3, <1>4, <2>1
<1>7. CASE r.phase = "scan" /\ ScanBatch(r)
  <2>1. row'.phase \in {"scan", "calculate"}
    BY <1>1, <1>5, <1>7, Scans
  <2> QED BY <1>1, <1>5, <1>7, <2>1, ScanSweeps
<1>8. CASE r.phase = "calculate" /\ CalculateBatch(r, day)
  <2>1. row'.phase # "idle"
    BY <1>1, <1>2, <1>5, <1>8, Calculates
  <2> QED BY <1>1, <1>5, <1>8, <2>1, CalculateSweeps
<1>9. CASE r.phase = "cleanup" /\ CleanupBatch(r)
  <2>1. PICK x \in {r, [r EXCEPT !.phase = "idle"]} : row' = Succeeded(x)
    BY <1>9 DEF CleanupBatch
  <2>2. x \in Row /\ x.active = r.active
    BY <1>5, <2>1 DEF Row, Phases
  <2>3. row'.active = r.active
    BY <2>1, <2>2, SucceededFields DEF Alike
  <2> QED BY <1>1, <1>5, <1>9, <2>3, CleanupSweeps
<1> QED BY <1>6, <1>7, <1>8, <1>9

LEMMA SweepStep ==
    SeasonalityInv /\ Vacant /\ OldGenerationsGo /\ [Next]_vars => Swept
<1> SUFFICES ASSUME SeasonalityInv, Vacant, OldGenerationsGo, [Next]_vars PROVE Swept
  OBVIOUS
<1>0. row \in Row
  BY DEF SeasonalityInv, TypeOK
<1>1. CASE UNCHANGED vars
  BY <1>1, NothingSwept DEF vars
<1>2. CASE Next
  <2>1. CASE Batch
    BY <2>1, BatchSweeps
  <2>2. CASE ~Batch
    <3>1. UNCHANGED <<months, profiles>>
      BY <1>2, <2>2 DEF Next, Step, Source, Run, Report, Upload, StartImport, AddRow, FinishImport,
            AbortImport, CrashBackend, DeleteSales, Catalog, NextDay, Enable, Pause, Rebuild,
            Command, Launch, Poll, CheckEnabled, CheckStop, Busy, Failure, CountFailure, After,
            CrashRunner, Control, ReadState, ReadPending, ReadProfiles, Answer, Reading
    <3>2. row'.phase = row.phase /\ row'.active = row.active
      BY <1>0, <1>2, <2>2 DEF Next, Step, Source, Run, Report, Upload, StartImport, AddRow,
            FinishImport, AbortImport, CrashBackend, DeleteSales, Catalog, NextDay, Enable, Pause,
            Rebuild, Command, Changed, Launch, Poll, CheckEnabled, CheckStop, Busy, Failure,
            CountFailure, After, CrashRunner, Control, ReadState, ReadPending, ReadProfiles,
            Answer, Reading, Row
    <3> QED BY <3>1, <3>2, NothingSwept
  <2> QED BY <2>1, <2>2
<1> QED BY <1>1, <1>2

(* The cleanup takes every old generation, also those of rebuilds that were   *)
(* abandoned, and nothing of the ones in use (cleanup_batch).                *)
THEOREM CleanupIsExactTheorem == Spec => CleanupIsExact
<1>1. Init => Vacant /\ OldGenerationsGo
  BY DEF Init, Vacant, OldGenerationsGo
<1>2. Vacant /\ OldGenerationsGo /\ SeasonalityInv /\ [Next]_vars =>
        (Vacant /\ OldGenerationsGo)'
  BY SweepStep DEF Swept
<1>3. Spec => [](Vacant /\ OldGenerationsGo)
  BY <1>1, <1>2, SeasonalityInvariant, PTL DEF Spec
<1>4. SeasonalityInv /\ Vacant /\ OldGenerationsGo /\ [Next]_vars => Kept
  BY SweepStep DEF Swept
<1>5. Kept => [\A g \in Generations, k \in Products :
                 Holds(g, k) /\ g >= row'.active - 1 => Holds(g, k)']_vars
  BY DEF Kept
<1>6. Spec => GenerationsKept
  BY <1>3, <1>4, <1>5, SeasonalityInvariant, PTL DEF Spec, GenerationsKept
<1> QED BY <1>3, <1>6, PTL DEF CleanupIsExact
=============================================================================
