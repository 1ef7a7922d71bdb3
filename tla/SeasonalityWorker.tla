--------------------------- MODULE SeasonalityWorker ---------------------------
(***************************************************************************)
(* The seasonality projection: a worker that reads sale items in primary key *)
(* order, keeps exact monthly sums per product and the profiles calculated   *)
(* from them, while imports, deletions, operators and reports go on.         *)
(*                                                                          *)
(* A batch (run_batch) is one step: it holds the source and catalog locks    *)
(* exclusively and the row of seasonality_state FOR UPDATE, and commits its  *)
(* sums, profiles and cursor together or not at all.  Everything the worker  *)
(* does between batches, and a report's reading, is one step per transaction.*)
(***************************************************************************)
EXTENDS Sql

CONSTANTS
    NumProducts,    \* products (identity of the product key) are 1..NumProducts
    Product,        \* the product of each sale item
    CalendarMonth,  \* the calendar month of each sale item's date
    MaxId,          \* bound: sale items are 1..MaxId
    Imports,        \* import batches
    ScanSize,       \* --scan-size
    ProfileSize,    \* --profile-size
    MaxRevision,    \* bound on deletions and operator commands, by the revision
    MaxFailures,    \* bound on counted failures
    MaxDay,         \* bound: days 0..MaxDay
    DaysPerMonth,   \* days of one calendar month
    Environment     \* what may happen around the worker, see Surroundings

SaleIds      == 1..MaxId
Products     == 1..NumProducts
Generations  == 0..(MaxRevision + 1)
Surroundings == {"deletes", "crash", "abort", "error", "catalog", "operator",
                 "command", "reader"}

ASSUME ConstantsAssumption ==
    /\ MaxId \in Nat /\ NumProducts \in Nat /\ MaxRevision \in Nat /\ MaxDay \in Nat
    /\ MaxFailures \in Nat
    /\ {ScanSize, ProfileSize, DaysPerMonth} \subseteq Nat \ {0}
    /\ Product \in [SaleIds -> Products] /\ CalendarMonth \in [SaleIds -> Nat]
    /\ Environment \subseteq Surroundings

VARIABLES
    stored,     \* committed sale items
    nextId,     \* the id sequence of sale_items
    owner,      \* import of each sale item
    batch,      \* status of each import batch
    tasks,      \* imports whose background task is alive
    catalog,    \* somebody else holds a lock the batch needs: catalog or source
    today,      \* the day in the configured time zone
    row,        \* the row of seasonality_state
    months,     \* sums by generation: how often each sale item was added
    profiles,   \* seasonality_profiles by generation and product
    runner,     \* who holds the worker lock, where it is, its local variables
    reader,     \* a report's attach()
    \* --- history (not in the program) ---
    recent,     \* what each product's history has been since the report began
    late        \* batches committed since a pause

sourceVars == <<stored, nextId, owner, batch, tasks>>
vars == <<sourceVars, catalog, today, row, months, profiles, runner, reader, recent, late>>

-----------------------------------------------------------------------------
Month(day) == 1 + day \div DaysPerMonth

Phases   == {"idle", "scan", "calculate", "cleanup"}
Coverage == [month : Nat, seen : SUBSET Nat]
Sums     == [SaleIds -> Nat]
Row == [enabled : BOOLEAN, stop : BOOLEAN, failures : Nat, error : BOOLEAN,
        active : Generations, generation : Generations, phase : Phases,
        cursor : Nat, sourceCursor : Nat, upper : Nat, coverage : Coverage,
        source : Nat, job : Nat, rebuild : BOOLEAN, lastChecked : Int]
Profile == [status : {"absent", "dirty", "ready"}, coverage : Coverage, data : Sums]
Runner  == [who : {"nobody", "worker", "command"},
            at : {"off", "poll", "enabled", "stop", "batch", "count", "after"},
            day : Nat, failures : Nat, enabled : BOOLEAN]
Reader  == [at : {"off", "pending", "profiles", "answered"}, valid : BOOLEAN,
            generation : Generations, coverage : Coverage,
            answer : [Products -> SUBSET Sums]]

NoCoverage == [month |-> 0, seen |-> {}]
NoSums     == [id \in SaleIds |-> 0]
NoProfile  == [status |-> "absent", coverage |-> NoCoverage, data |-> NoSums]
NoRunner   == [who |-> "nobody", at |-> "off", day |-> 0, failures |-> 0, enabled |-> FALSE]
NoAnswer   == [k \in Products |-> {}]
NoReader   == [at |-> "off", valid |-> FALSE, generation |-> 0, coverage |-> NoCoverage,
               answer |-> NoAnswer]

TypeOK ==
    /\ stored \subseteq SaleIds /\ nextId \in 1..(MaxId + 1)
    /\ owner \in [SaleIds -> Imports]
    /\ batch \in [Imports -> {"absent", "queued", "processing", "done"}]
    /\ tasks \subseteq Imports /\ catalog \in BOOLEAN /\ today \in 0..MaxDay
    /\ row \in Row /\ months \in [Generations -> Sums]
    /\ profiles \in [Generations -> [Products -> Profile]]
    /\ runner \in Runner /\ reader \in Reader
    /\ recent \in [Products -> SUBSET SUBSET SaleIds] /\ late \in Nat

(* The defaults of the models, before the first import. *)
Init ==
    /\ stored = {} /\ nextId = 1 /\ (\E i \in Imports : owner = [id \in SaleIds |-> i])
    /\ batch = [i \in Imports |-> "absent"] /\ tasks = {} /\ catalog = FALSE /\ today = 0
    /\ row = [enabled |-> FALSE, stop |-> FALSE, failures |-> 0, error |-> FALSE,
              active |-> 0, generation |-> 0, phase |-> "idle",
              cursor |-> 0, sourceCursor |-> 0, upper |-> 0, coverage |-> NoCoverage,
              source |-> 0, job |-> 0, rebuild |-> TRUE, lastChecked |-> -1]
    /\ months = [g \in Generations |-> NoSums]
    /\ profiles = [g \in Generations |-> [k \in Products |-> NoProfile]]
    /\ runner = NoRunner /\ reader = NoReader
    /\ recent = [k \in Products |-> {}] /\ late = 0

-----------------------------------------------------------------------------
Pending == \E i \in Imports : batch[i] \in {"queued", "processing"}

(* The history of a product: its sale items, once their import is over. *)
Truth(k) == {id \in stored : Product[id] = k /\ batch[owner[id]] = "done"}

(* The sums that count every sale item of S once. *)
CountOnce(S) == [id \in SaleIds |-> IF id \in S THEN 1 ELSE 0]

(* changed(): a new revision of the source, after a deletion a new generation. *)
Changed(r, rebuild) == [r EXCEPT !.source = @ + 1, !.rebuild = @ \/ rebuild]

-----------------------------------------------------------------------------
(* Imports hold the source lock shared from their start to their end. *)

Upload(i) ==
    /\ batch[i] = "absent"
    /\ batch' = [batch EXCEPT ![i] = "queued"] /\ tasks' = tasks \union {i}
    /\ UNCHANGED <<stored, nextId, owner, catalog, today, row, months, profiles, runner, reader>>

StartImport(i) ==
    /\ i \in tasks /\ batch[i] = "queued"
    /\ batch' = [batch EXCEPT ![i] = "processing"]
    /\ UNCHANGED <<stored, nextId, owner, tasks, catalog, today, row, months, profiles, runner,
                   reader>>

AddRow(i) ==
    /\ i \in tasks /\ batch[i] = "processing"
    /\ nextId <= MaxId
    /\ stored' = stored \union {nextId} /\ nextId' = nextId + 1
    /\ owner' = [owner EXCEPT ![nextId] = i]
    /\ UNCHANGED <<batch, tasks, catalog, today, row, months, profiles, runner, reader>>

(* Completed or failed: in both cases the committed rows are there to stay. *)
FinishImport(i) ==
    /\ i \in tasks /\ batch[i] = "processing"
    /\ batch' = [batch EXCEPT ![i] = "done"] /\ tasks' = tasks \ {i}
    /\ row' = Changed(row, FALSE)
    /\ UNCHANGED <<stored, nextId, owner, catalog, today, months, profiles, runner, reader>>

(* except BaseException: the revision advances, the status stays. *)
AbortImport(i) ==
    /\ "abort" \in Environment
    /\ i \in tasks
    /\ tasks' = tasks \ {i}
    /\ row' = Changed(row, FALSE)
    /\ UNCHANGED <<stored, nextId, owner, batch, catalog, today, months, profiles, runner, reader>>

(* The backend dies: its background tasks are not resumed by anybody. *)
CrashBackend ==
    /\ "crash" \in Environment /\ tasks # {}
    /\ tasks' = {} /\ reader' = NoReader
    /\ UNCHANGED <<stored, nextId, owner, batch, catalog, today, row, months, profiles, runner>>

DeleteSales(S) ==
    /\ "deletes" \in Environment /\ row.source < MaxRevision
    /\ S # {} /\ S \subseteq stored
    /\ stored' = stored \ S
    /\ row' = Changed(row, TRUE)
    /\ UNCHANGED <<nextId, owner, batch, tasks, catalog, today, months, profiles, runner, reader>>

(* A synchronisation of the catalog, or an RFM snapshot, begins or ends. *)
Catalog ==
    /\ "catalog" \in Environment
    /\ catalog' = ~catalog
    /\ UNCHANGED <<sourceVars, today, row, months, profiles, runner, reader>>

NextDay ==
    /\ today < MaxDay /\ today' = today + 1
    /\ UNCHANGED <<sourceVars, catalog, row, months, profiles, runner, reader>>

-----------------------------------------------------------------------------
(* Operator commands, each under the lock of the row. *)

Command(r) ==
    /\ row' = r
    /\ UNCHANGED <<sourceVars, catalog, today, months, profiles, runner, reader>>

Enable  == Command([row EXCEPT !.enabled = TRUE, !.stop = FALSE, !.failures = 0])
Pause   == "operator" \in Environment /\ Command([row EXCEPT !.enabled = FALSE, !.stop = TRUE, !.failures = 0])
Rebuild == "operator" \in Environment /\ row.source < MaxRevision /\ Command(Changed(row, TRUE))

-----------------------------------------------------------------------------
(* One batch: r is the row as the batch has changed it so far. *)

(* _begin: a new generation from the first sale, or the tail of the active one. *)
Begun(r, upper, top) ==
    LET anew == r.rebuild \/ upper < r.sourceCursor \/ r.active = 0
    IN [r EXCEPT !.generation = IF anew THEN top + 1 ELSE r.active,
                 !.cursor = IF anew THEN 0 ELSE r.sourceCursor,
                 !.coverage.seen = IF anew THEN {} ELSE @,
                 !.upper = upper, !.job = r.source, !.rebuild = FALSE, !.phase = "scan"]

(* Mutant of CaughtUp: the phase has the name it had for yearly histories. *)
CaughtUpAll(r, upper) ==
    IF r.source = r.job THEN r
    ELSE [r EXCEPT !.upper = upper, !.job = r.source,
                   !.phase = IF r.cursor < upper THEN "scan_all" ELSE @]

(* Imports since the last batch: the new tail is read before publication. *)
CaughtUp(r, upper) ==
    IF r.source = r.job THEN r
    ELSE [r EXCEPT !.upper = upper, !.job = r.source,
                   !.phase = IF r.cursor < upper THEN "scan" ELSE @]

Prepared(day, upper, top) ==
    LET begun == IF row.phase = "idle" \/ row.rebuild THEN Begun(row, upper, top) ELSE row
    IN CaughtUp([begun EXCEPT !.coverage.month = Month(day)], upper)

Succeeded(r) == [r EXCEPT !.error = FALSE, !.failures = 0]

(* The sums of a page, upserted; the profiles they belong to become dirty. *)
AddSums(g, page) ==
    /\ months' = [months EXCEPT ![g] = [id \in SaleIds |-> @[id] + CountOnce(page)[id]]]
    /\ profiles' = [profiles EXCEPT ![g] = [k \in Products |->
                     IF \E id \in page : Product[id] = k
                       THEN [@[k] EXCEPT !.status = "dirty"] ELSE @[k]]]

(* Mutant of ScanBatch: the cursor moves when the next page is read. *)
ScanAgain(r) ==
    LET page == First({id \in stored : r.cursor < id /\ id <= r.upper}, ScanSize)
    IN \/ /\ page = {}
          /\ row' = Succeeded([r EXCEPT !.cursor = r.upper, !.phase = "calculate"])
          /\ UNCHANGED <<months, profiles>>
       \/ /\ page # {}
          /\ AddSums(r.generation, page)
          /\ \E first \in page : (\A id \in page : first <= id)
               /\ row' = Succeeded([r EXCEPT !.cursor = first, !.coverage.seen =
                                      @ \union {CalendarMonth[id] : id \in page}])

ScanBatch(r) ==
    LET page == First({id \in stored : r.cursor < id /\ id <= r.upper}, ScanSize)
    IN \/ /\ page = {}
          /\ row' = Succeeded([r EXCEPT !.cursor = r.upper, !.phase = "calculate"])
          /\ UNCHANGED <<months, profiles>>
       \/ /\ page # {}
          /\ AddSums(r.generation, page)
          /\ \E finish \in page : IsMax(finish, page)
               /\ row' = Succeeded([r EXCEPT !.cursor = finish, !.coverage.seen =
                                      @ \union {CalendarMonth[id] : id \in page}])

(* Profiles whose sums, calendar months or current month have changed. *)
Outdated(r) == {k \in Products : LET p == profiles[r.generation][k]
                                 IN \/ p.status = "dirty"
                                    \/ p.status = "ready" /\ p.coverage # r.coverage}

Published(r, day) == [r EXCEPT !.active = r.generation, !.sourceCursor = r.upper,
                               !.lastChecked = day, !.phase = "cleanup"]

CalculateBatch(r, day) ==
    LET g    == r.generation
        some == First(Outdated(r), ProfileSize)
    IN /\ row' = Succeeded(IF some = {} THEN Published(r, day) ELSE r)
       /\ profiles' = [profiles EXCEPT ![g] = [k \in Products |->
            IF k \notin some THEN @[k]
            ELSE [status |-> "ready", coverage |-> r.coverage,
                  data |-> [id \in SaleIds |-> IF Product[id] = k THEN months[g][id] ELSE 0]]]]
       /\ UNCHANGED months

(* Mutant of Old: the previous generation counts as old. *)
OldAndPrevious(r) == {g \in Generations : g < r.active}

Old(r) == {g \in Generations : g < r.active - 1}

(* Old generations go: sums first, then profiles, at most ScanSize rows each. *)
CleanupBatch(r) ==
    LET sums == {h \in Old(r) \X Products :
                    \E id \in SaleIds : Product[id] = h[2] /\ months[h[1]][id] > 0}
        gone == {h \in Old(r) \X Products : profiles[h[1]][h[2]].status # "absent"}
        Some(rows, S) == /\ S \subseteq rows
                         /\ \/ Cardinality(S) = ScanSize
                            \/ S = rows /\ Cardinality(S) < ScanSize
    IN \/ /\ sums # {}
          /\ \E S \in SUBSET sums : Some(sums, S)
               /\ months' = [g \in Generations |-> [id \in SaleIds |->
                               IF <<g, Product[id]>> \in S THEN 0 ELSE months[g][id]]]
          /\ row' = Succeeded(r) /\ UNCHANGED profiles
       \/ /\ sums = {} /\ gone # {}
          /\ \E S \in SUBSET gone : Some(gone, S)
               /\ profiles' = [g \in Generations |-> [k \in Products |->
                                 IF <<g, k>> \in S THEN NoProfile ELSE profiles[g][k]]]
          /\ row' = Succeeded(r) /\ UNCHANGED months
       \/ /\ sums = {} /\ gone = {}
          /\ row' = Succeeded([r EXCEPT !.phase = "idle"]) /\ UNCHANGED <<months, profiles>>

-----------------------------------------------------------------------------
(* The worker (`worker`) and the one-off commands (`run`, `scheduled`). *)

At(l) == runner' = [runner EXCEPT !.at = l]
Leave == runner' = NoRunner
Control == UNCHANGED <<sourceVars, catalog, today, months, profiles, reader>>

(* The worker lock excludes a second runner. *)
Launch ==
    /\ runner.who = "nobody"
    /\ \/ /\ runner' = [NoRunner EXCEPT !.who = "worker", !.at = "poll"]
          /\ UNCHANGED row
       \/ /\ "command" \in Environment
          /\ runner' = [NoRunner EXCEPT !.who = "command", !.at = "stop"]
          /\ \/ row' = [row EXCEPT !.stop = FALSE]
             \/ row.enabled /\ ~row.stop /\ UNCHANGED row
    /\ Control

(* Mutant of Due: an idle projection is looked at once a day. *)
DueDaily == row.phase # "idle" \/ row.lastChecked # today

Due == \/ row.phase # "idle" \/ row.lastChecked # today
       \/ row.source # row.job \/ row.rebuild

Poll ==
    /\ runner.at = "poll" /\ row.enabled /\ Due
    /\ At("enabled") /\ Control /\ UNCHANGED <<row>>

CheckEnabled ==
    /\ runner.at = "enabled"
    /\ At(IF row.enabled THEN "stop" ELSE "poll") /\ Control /\ UNCHANGED <<row>>

(* Mutant of CheckStop: a request to stop is left to the worker's loop. *)
CheckNothing ==
    /\ runner.at = "stop"
    /\ runner' = [runner EXCEPT !.at = "batch", !.day = today]
    /\ Control /\ UNCHANGED <<row>>

(* run(): the request to stop, then today() before the batch's locks. *)
CheckStop ==
    /\ runner.at = "stop"
    /\ \/ ~row.stop /\ runner' = [runner EXCEPT !.at = "batch", !.day = today]
       \/ row.stop /\ runner.who = "worker" /\ At("after")
       \/ row.stop /\ runner.who = "command" /\ Leave
    /\ Control /\ UNCHANGED <<row>>

Batch ==
    /\ runner.at = "batch" /\ ~Pending /\ ~catalog
    /\ \E upper \in stored \union {0} : \E top \in Generations :
         /\ IsMax(upper, stored)
         /\ IsMax(top, {row.generation, row.active} \union
                       {g \in Generations : months[g] # NoSums \/
                          \E k \in Products : profiles[g][k].status # "absent"})
         /\ LET r == Prepared(runner.day, upper, top)
            IN \/ r.phase \in {"scan", "scan_all"} /\ ScanBatch(r)
               \/ r.phase = "calculate" /\ CalculateBatch(r, runner.day)
               \/ r.phase = "cleanup" /\ CleanupBatch(r)
    /\ At("after") /\ UNCHANGED <<sourceVars, catalog, today, reader>>

(* SeasonalityBusy: noted in the row, never counted as a failure. *)
Busy ==
    /\ runner.at = "batch" /\ (Pending \/ catalog)
    /\ row' = [row EXCEPT !.error = TRUE]
    /\ At("after") /\ Control

(* Any other exception: the batch is rolled back and counted in a transaction  *)
(* that reads the row without its lock.                                       *)
Failure ==
    /\ "error" \in Environment /\ row.failures < MaxFailures
    /\ runner.at = "batch"
    /\ runner' = [runner EXCEPT !.at = "count", !.failures = row.failures,
                                !.enabled = row.enabled]
    /\ Control /\ UNCHANGED <<row>>

CountFailure ==
    /\ runner.at = "count"
    /\ LET failures == runner.failures + 1
       IN row' = [row EXCEPT !.error = TRUE, !.failures = failures,
                             !.enabled = IF failures >= 3 THEN Written(@, runner.enabled, FALSE)
                                                          ELSE @]
    /\ At("after") /\ Control

(* The limit of batches ends a worker's burst or a command at any round. *)
After ==
    /\ runner.at = "after"
    /\ LET over == row.error \/ row.phase = "idle"
       IN \/ runner.who = "worker" /\ At("poll")
          \/ runner.who = "worker" /\ ~over /\ At("enabled")
          \/ runner.who = "command" /\ Leave
          \/ runner.who = "command" /\ ~over /\ At("stop")
    /\ Control /\ UNCHANGED <<row>>

CrashRunner ==
    /\ "crash" \in Environment /\ runner.who # "nobody"
    /\ Leave /\ Control /\ UNCHANGED <<row>>

-----------------------------------------------------------------------------
(* A report: the row, then the pending imports, then the profiles. *)

Ready(r, day) ==
    /\ r.active # 0 /\ r.active = r.generation /\ ~r.rebuild
    /\ r.coverage.month = Month(day) /\ r.phase \in {"idle", "calculate", "cleanup"}
    /\ r.source = r.job

Reading == UNCHANGED <<sourceVars, catalog, today, row, months, profiles, runner>>

ReadState ==
    /\ "reader" \in Environment /\ reader.at = "off"
    /\ reader' = [NoReader EXCEPT !.at = "pending", !.valid = Ready(row, today),
                                  !.generation = row.active, !.coverage = row.coverage]
    /\ Reading

ReadPending ==
    /\ reader.at = "pending"
    /\ reader' = [reader EXCEPT !.at = "profiles", !.valid = @ /\ ~Pending]
    /\ Reading

(* Mutant of Offered: profiles are told apart by their coverage alone. *)
OfferedDirty(k) ==
    LET p == profiles[reader.generation][k]
    IN reader.valid /\ p.status # "absent" /\ p.coverage = reader.coverage

(* The profiles a report may use. *)
Offered(k) ==
    LET p == profiles[reader.generation][k]
    IN reader.valid /\ p.status = "ready" /\ p.coverage = reader.coverage

ReadProfiles ==
    /\ reader.at = "profiles"
    /\ reader' = [reader EXCEPT !.at = "answered", !.answer = [k \in Products |->
                    IF Offered(k) THEN {profiles[reader.generation][k].data} ELSE {}]]
    /\ Reading

Answer == reader.at = "answered" /\ reader' = NoReader /\ Reading

-----------------------------------------------------------------------------
Source == \/ \E i \in Imports : Upload(i) \/ StartImport(i) \/ AddRow(i)
                                  \/ FinishImport(i) \/ AbortImport(i)
          \/ CrashBackend \/ \E S \in SUBSET stored : DeleteSales(S)
Run    == Poll \/ CheckEnabled \/ CheckStop \/ Batch \/ Busy \/ Failure \/ CountFailure \/ After
Report == ReadState \/ ReadPending \/ ReadProfiles \/ Answer
Step   == \/ Source \/ Catalog \/ NextDay \/ Enable \/ Pause \/ Rebuild
          \/ Launch \/ Run \/ CrashRunner \/ Report

(* What a report may have seen of each product, and what a pause has not stopped. *)
Remember ==
    /\ late' = IF ~row'.stop THEN 0
               ELSE IF runner.at = "batch" /\ runner'.at = "after" /\ ~row'.error THEN late + 1
               ELSE late
    /\ recent' = [k \in Products |->
                    IF reader'.at = "off" THEN {}
                    ELSE (IF reader.at = "off" THEN {Truth(k)} ELSE recent[k]) \union {Truth(k)'}]

Next == Step /\ Remember

Spec == Init /\ [][Next]_vars

(* A live runner's event loop keeps running; nobody has to import, read or      *)
(* command anything, and no worker has to be launched.                          *)
FairSpec == Spec /\ WF_vars(Run /\ Remember)

-----------------------------------------------------------------------------
(* Properties *)

(* The sums of the current generation count every sale item up to the cursor   *)
(* exactly once and nothing else, whatever batch failed, was interrupted or    *)
(* repeated (scan_batch; docs/promotion_seasonality.md: a repetition does not  *)
(* double the sums).                                                          *)
ExactlyOnce ==
    ~row.rebuild /\ row.generation > 0
        => months[row.generation] = CountOnce({id \in stored : id <= row.cursor})

(* A report never computes with a profile that was not, at some moment of its  *)
(* own run, exactly the product's history: not one from before a deletion, in  *)
(* the middle of an import, half scanned or counted twice (attach).            *)
ReadersSeeTruth ==
    reader.at = "answered" =>
        \A k \in Products : \A data \in reader.answer[k] :
            \E truth \in recent[k] : data = CountOnce(truth)

(* On the day of its publication a projection that calls itself ready is       *)
(* complete: every product with sales has a usable and exact profile.          *)
PublishedIsComplete ==
    Ready(row, today) /\ ~Pending /\ row.phase \in {"cleanup", "idle"} /\ row.lastChecked = today
        => \A k \in Products : Truth(k) # {} =>
             LET p == profiles[row.active][k]
             IN p.status = "ready" /\ p.coverage = row.coverage /\ p.data = CountOnce(Truth(k))

(* Whatever imports, deletions, rebuilds, crashes and repeated batches do      *)
(* between two batches: the sums count every sale once, and what the day's     *)
(* publication calls ready is all there and true (scan_batch, run_batch).      *)
ProjectionIsTrue == ExactlyOnce /\ PublishedIsComplete

Holds(g, k) == /\ profiles[g][k].status # "absent"
               /\ \E id \in SaleIds : Product[id] = k /\ months[g][id] > 0

(* No step takes a product out of the active generation, of the one before it, *)
(* which reports may still be reading, or of one that is being built, after    *)
(* however many abandoned and published rebuilds (cleanup_batch, _begin).      *)
GenerationsKept ==
    [][\A g \in Generations, k \in Products :
         Holds(g, k) /\ g >= row'.active - 1 => Holds(g, k)']_vars

(* A projection at rest holds nothing of older generations, not even of a      *)
(* rebuild that was abandoned half way (cleanup_batch).                        *)
OldGenerationsGo ==
    row.phase = "idle" => \A g \in Generations : g < row.active - 1 =>
        months[g] = NoSums /\ \A k \in Products : profiles[g][k] = NoProfile

(* The cleanup takes all of the old generations and nothing of those in use.   *)
CleanupIsExact == GenerationsKept /\ []OldGenerationsGo

(* After a pause at most the batch that had already been decided commits.      *)
PauseStops == late <= 1

(* An enabled worker that is left alone brings the projection up to date,      *)
(* however often the day changes or imports arrive before that.                *)
Undisturbed == runner.who = "worker" /\ row.enabled /\ ~row.stop /\ ~Pending /\ ~catalog
BecomesReady ==
    <>[]Undisturbed /\ <>[][~Failure]_vars => []<>(Ready(row, today) /\ row.lastChecked = today)

=============================================================================
