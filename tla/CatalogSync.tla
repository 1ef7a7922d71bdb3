----------------------------- MODULE CatalogSync -----------------------------
(***************************************************************************)
(* The managed VRCatalog synchronisation: one opt-in worker, the operator's *)
(* CLI, the web commands, and the imports that keep adding sale items.      *)
(*                                                                          *)
(* A process is a worker (catalog_sync_worker.serve) or the CLI             *)
(* (app/catalog_sync.py).  One step is one database transaction, one HTTP   *)
(* exchange or one in-memory decision between two awaits.  The control row  *)
(* is written by three parties without a common lock: a worker that reads   *)
(* the row and writes it later does so in two steps, and, as the ORM does,  *)
(* writes only the columns whose value differs from the one it had read.    *)
(***************************************************************************)
EXTENDS Sql

CONSTANTS
    Workers,        \* incarnations of the standalone worker
    Cli,            \* the operator's command line process
    Nobody,         \* no session holds the advisory lock
    NumIdentities,  \* identities (hashes of code/article pairs) are 1..NumIdentities
    Malformed,      \* identities the lookup contract rejects (LookupInput)
    MaxId,          \* bound: sale item ids are 1..MaxId
    BatchSize,      \* settings.catalog_sync_batch_size
    CliBatch,       \* --batch-size
    CliRows,        \* --max-scan-rows
    CliProducts,    \* --max-products
    RetryLimit,     \* settings.catalog_sync_retry_limit
    MaxCycle,       \* bound: no new full cycle after this one
    MaxCommands,    \* bound on accepted web starts
    MaxLosses,      \* bound on advisory locks lost by a live process
    Environment     \* what may happen around the worker, see Surroundings

Procs      == Workers \union {Cli}
SaleIds    == 1..MaxId
Surroundings == {"cli", "imports", "deletes", "crash", "signal", "dberror", "stale"}
Identities == 1..NumIdentities

ASSUME ConstantsAssumption ==
    /\ Cli \notin Workers /\ Nobody \notin Procs
    /\ NumIdentities \in Nat /\ Malformed \subseteq Identities
    /\ MaxId \in Nat /\ RetryLimit \in Nat /\ MaxLosses \in Nat
    /\ MaxCycle \in Nat /\ MaxCommands \in Nat
    /\ {BatchSize, CliBatch, CliRows, CliProducts} \subseteq Nat \ {0}
    /\ Environment \subseteq Surroundings

VARIABLES
    \* --- database ---
    pair,       \* identity of each sale item, fixed when the item is imported
    stored,     \* ids of the committed sale items
    inflight,   \* ids allocated by imports that have not committed yet
    nextId,     \* the id sequence of sale_items
    control,    \* row of catalog_sync_control
    state,      \* row of catalog_sync_state
    revision,   \* catalog_sync_state.revision, advanced by SQL
    lookups,    \* catalog_lookups
    syncLock,   \* holder of advisory lock 734190117
    leaderLock, \* holder of advisory lock 734190118
    \* --- processes ---
    pc,         \* where each process is
    shutdown,   \* its shutdown / stop event
    run,        \* a worker's local variables of run_request
    page,       \* local variables of synchronize / refresh_batch
    \* --- bounds and history (not in the program) ---
    commands,   \* accepted starts so far
    losses,     \* locks lost so far
    dead,       \* TRUE: every command accepted so far precedes the last boot
    scope,      \* identities known when the open refresh was prepared
    checked,    \* identities whose check was saved since then
    late        \* sale items the cycle had passed before their import committed them

dataVars  == <<pair, stored, inflight, nextId>>
catVars   == <<state, revision, lookups>>
lockVars  == <<syncLock, leaderLock>>
localVars == <<shutdown, run, page>>
histVars  == <<commands, losses, dead, scope, checked, late>>
vars == <<dataVars, control, catVars, lockVars, pc, localVars, histVars>>

-----------------------------------------------------------------------------
Modes    == {"discovery", "refresh"}
Active   == {"queued", "running", "waiting", "stopping"}
Statuses == Active \union {"paused", "completed", "failed"}
Outcomes == {"matched", "not_found", "ambiguous"}
Kept     == Outcomes \union {"invalid"}

Control == [requested: BOOLEAN, status: Statuses, mode: Modes, ready: BOOLEAN,
            refreshCursor: Nat, refreshUpper: Nat,
            refreshCompleted: BOOLEAN]
State   == [cycle: Nat, cursor: Nat, upper: Nat, completed: BOOLEAN]
Lookup  == [status: Kept \union {"absent", "pending"}, cycle: Nat]

PC == {"off", "boot", "poll", "idle", "unstop", "acquire", "mode", "prepare", "loop", "mark",
       "guard", "begin", "page", "http", "verify", "save",
       "refresh", "refreshHttp", "refreshVerify", "refreshSave",
       "account", "error", "wait", "finish", "release", "unwind", "report", "final", "close"}

(* Program points of one batch: their errors are counted and perhaps retried. *)
Batch == {"guard", "begin", "page", "http", "verify", "save",
          "refresh", "refreshHttp", "refreshVerify", "refreshSave"}
(* Program points inside `async with sync_lock(engine)`. *)
Inside == Batch \union {"mode", "prepare", "loop", "mark", "account", "error", "wait",
                        "finish", "release", "unwind"}

(* A page of discovery has been read and its checks are not saved yet.          *)
Asked == {"http", "verify", "save"}

Faults == {"none", "memory", "temporary", "permanent"}
Run  == [mode: Modes, requested: BOOLEAN, status: Statuses, failures: Nat,
         fault: Faults, verdict: Statuses]
Page == [cycle: Nat, cursor: Nat, upper: Nat, checkpoint: Nat,
         todo: SUBSET Identities, invalid: SUBSET Identities, rows: Int, products: Int]

NoRun  == [mode |-> "discovery", requested |-> FALSE, status |-> "paused", failures |-> 0,
           fault |-> "none", verdict |-> "paused"]
NoPage == [cycle |-> 0, cursor |-> 0, upper |-> 0, checkpoint |-> 0,
           todo |-> {}, invalid |-> {}, rows |-> 0, products |-> 0]

TypeOK ==
    /\ pair \in [SaleIds -> Identities]
    /\ stored \subseteq SaleIds /\ inflight \subseteq SaleIds
    /\ nextId \in 1..(MaxId + 1)
    /\ control \in Control /\ state \in State /\ revision \in Nat
    /\ lookups \in [Identities -> Lookup]
    /\ syncLock \in Procs \union {Nobody} /\ leaderLock \in Workers \union {Nobody}
    /\ pc \in [Procs -> PC] /\ shutdown \in [Procs -> BOOLEAN]
    /\ run \in [Procs -> Run] /\ page \in [Procs -> Page]
    /\ commands \in Nat /\ losses \in Nat /\ dead \in BOOLEAN
    /\ scope \subseteq Identities /\ checked \subseteq Identities /\ late \subseteq SaleIds

(* A deployment that has never been synchronised, with some sales imported. *)
Init ==
    /\ pair \in [SaleIds -> Identities]
    /\ nextId \in 1..(MaxId + 1) /\ stored = 1..(nextId - 1) /\ inflight = {}
    /\ control = [requested |-> FALSE, status |-> "paused", mode |-> "discovery",
                  ready |-> FALSE, refreshCursor |-> 0, refreshUpper |-> 0,
                  refreshCompleted |-> TRUE]
    /\ state = [cycle |-> 0, cursor |-> 0, upper |-> 0, completed |-> TRUE]
    /\ revision = 0
    /\ lookups = [i \in Identities |-> [status |-> "absent", cycle |-> 0]]
    /\ syncLock = Nobody /\ leaderLock = Nobody
    /\ pc = [p \in Procs |-> "off"] /\ shutdown = [p \in Procs |-> FALSE]
    /\ run = [p \in Procs |-> NoRun] /\ page = [p \in Procs |-> NoPage]
    /\ commands = 0 /\ losses = 0 /\ dead = TRUE /\ scope = {} /\ checked = {} /\ late = {}

-----------------------------------------------------------------------------
(* Reading helpers *)

Known    == {i \in Identities : lookups[i].status # "absent"}

Goto(p, l) == pc' = [pc EXCEPT ![p] = l]

-----------------------------------------------------------------------------
(* Sale items: imports allocate an id and commit it later; deletions. *)

Allocate ==
    /\ "imports" \in Environment
    /\ nextId <= MaxId
    /\ inflight' = inflight \union {nextId}
    /\ nextId' = nextId + 1
    /\ UNCHANGED <<pair, stored, control, catVars, lockVars, pc, localVars, histVars>>

(* The cycle has left this id behind: it lies below the checkpoint, or below  *)
(* that of a page already read, or inside a cycle that is complete.            *)
Passed(id) ==
    \/ id <= state.cursor
    \/ state.completed /\ id <= state.upper
    \/ \E p \in Procs : pc[p] \in Asked /\ id <= page[p].checkpoint

Commit(id) ==
    /\ id \in inflight
    /\ stored' = stored \union {id}
    /\ inflight' = inflight \ {id}
    /\ late' = (IF Passed(id) THEN late \union {id} ELSE late)
    /\ UNCHANGED <<pair, nextId, control, catVars, lockVars, pc, localVars,
                   commands, losses, dead, scope, checked>>

Rollback(id) ==
    /\ id \in inflight
    /\ inflight' = inflight \ {id}
    /\ UNCHANGED <<pair, stored, nextId, control, catVars, lockVars, pc, localVars, histVars>>

DeleteSale(id) ==
    /\ "deletes" \in Environment
    /\ id \in stored
    /\ stored' = stored \ {id}
    /\ UNCHANGED <<pair, inflight, nextId, control, catVars, lockVars, pc, localVars, histVars>>

-----------------------------------------------------------------------------
(* The web commands: each holds the control row's lock for its transaction. *)

(* What start() accepts.  The probe of the run lock is transactional. *)
StartAccepted(mode) ==
    /\ control.ready
    /\ ~control.requested /\ control.status \notin Active
    /\ syncLock = Nobody
    /\ mode = "refresh" => state.completed
    /\ mode # control.mode => control.refreshCompleted

Start(mode) ==
    /\ commands < MaxCommands
    /\ StartAccepted(mode)
    /\ control' = [control EXCEPT !.mode = mode, !.requested = TRUE, !.status = "queued"]
    /\ commands' = commands + 1 /\ dead' = FALSE
    /\ UNCHANGED <<dataVars, catVars, lockVars, pc, localVars, losses, scope, checked, late>>

Pause ==
    /\ control' = [control EXCEPT
                    !.requested = FALSE,
                    !.status = IF @ \notin Active THEN @
                               ELSE IF control.ready THEN "stopping" ELSE "paused"]
    /\ UNCHANGED <<dataVars, catVars, lockVars, pc, localVars, histVars>>

(* STALE_SECONDS pass without a heartbeat reaching the row. *)
Stale ==
    /\ "stale" \in Environment
    /\ control.ready
    /\ control' = [control EXCEPT !.ready = FALSE]
    /\ UNCHANGED <<dataVars, catVars, lockVars, pc, localVars, histVars>>

-----------------------------------------------------------------------------
(* The worker's outer loop: serve() *)

(* A second worker fails on the leader lock and exits: no step of the model. *)
Launch(w) ==
    /\ pc[w] = "off" /\ leaderLock = Nobody
    /\ leaderLock' = w
    /\ Goto(w, "boot")
    /\ UNCHANGED <<dataVars, control, catVars, syncLock, localVars, histVars>>

(* Mutant of Boot: takes over the command of the previous worker. *)
BootResumes(w) ==
    /\ pc[w] = "boot"
    /\ control' = [control EXCEPT !.ready = TRUE]
    /\ dead' = TRUE
    /\ Goto(w, "poll")
    /\ UNCHANGED <<dataVars, catVars, lockVars, localVars, commands, losses, scope, checked, late>>

Boot(w) ==
    /\ pc[w] = "boot"
    /\ control' = [control EXCEPT
                    !.requested = FALSE, !.ready = TRUE,
                    !.status = IF @ \in {"completed", "failed"} THEN @ ELSE "paused"]
    /\ dead' = TRUE
    /\ Goto(w, "poll")
    /\ UNCHANGED <<dataVars, catVars, lockVars, localVars, commands, losses, scope, checked, late>>

(* heartbeat(): a worker whose leader session is gone disables itself. *)
Heartbeat(w) ==
    /\ pc[w] \notin {"off", "boot", "final", "close"} /\ ~shutdown[w]
    /\ IF leaderLock = w
         THEN control' = [control EXCEPT !.ready = TRUE] /\ UNCHANGED shutdown
         ELSE shutdown' = [shutdown EXCEPT ![w] = TRUE] /\ UNCHANGED control
    /\ UNCHANGED <<dataVars, catVars, lockVars, pc, run, page, histVars>>

Poll(w) ==
    /\ pc[w] = "poll"
    /\ Goto(w, IF shutdown[w] THEN "final"
               ELSE IF control.requested THEN "acquire" ELSE "idle")
    /\ UNCHANGED <<dataVars, control, catVars, lockVars, localVars, histVars>>

(* Mutant of Idle: a stop nobody carries out is left in the row. *)
IdleIgnoresStop(w) ==
    /\ pc[w] = "idle"
    /\ Goto(w, "poll")
    /\ UNCHANGED <<dataVars, control, catVars, lockVars, localVars, histVars>>

Idle(w) ==
    /\ pc[w] = "idle"
    /\ Goto(w, IF control.status = "stopping" THEN "unstop" ELSE "poll")
    /\ UNCHANGED <<dataVars, control, catVars, lockVars, localVars, histVars>>

Unstop(w) ==
    /\ pc[w] = "unstop"
    /\ control' = [control EXCEPT !.status = "paused"]
    /\ Goto(w, "poll")
    /\ UNCHANGED <<dataVars, catVars, lockVars, localVars, histVars>>

(* The finally block of serve(), in the two halves of its transaction. *)
Final(w) ==
    /\ pc[w] = "final"
    /\ run' = [run EXCEPT ![w].requested = control.requested, ![w].status = control.status]
    /\ shutdown' = [shutdown EXCEPT ![w] = TRUE]
    /\ Goto(w, "close")
    /\ UNCHANGED <<dataVars, control, catVars, lockVars, page, histVars>>

Free(lock, p) == IF lock = p THEN Nobody ELSE lock

(* What is left of a process that is gone: its sessions end, its locks go. *)
Gone(p) ==
    /\ Goto(p, "off")
    /\ syncLock' = Free(syncLock, p) /\ leaderLock' = Free(leaderLock, p)
    /\ shutdown' = [shutdown EXCEPT ![p] = FALSE]
    /\ run' = [run EXCEPT ![p] = NoRun] /\ page' = [page EXCEPT ![p] = NoPage]

Close(w) ==
    /\ pc[w] = "close"
    /\ control' = [control EXCEPT
                    !.requested = Written(@, run[w].requested, FALSE),
                    !.status = IF run[w].status \in {"completed", "failed"} THEN @
                               ELSE Written(@, run[w].status, "paused"),
                    !.ready = FALSE]
    /\ Gone(w)
    /\ UNCHANGED <<dataVars, catVars, histVars>>

-----------------------------------------------------------------------------
(* One command: run_request() *)

(* Mutant of Acquire: pg_try_advisory_lock is called, its answer not used. *)
AcquireAnyway(w) ==
    /\ pc[w] = "acquire"
    /\ syncLock' = (IF syncLock = Nobody THEN w ELSE syncLock)
    /\ Goto(w, "mode")
    /\ UNCHANGED <<dataVars, control, catVars, leaderLock, shutdown, run, page, histVars>>

Acquire(w) ==
    /\ pc[w] = "acquire"
    /\ IF syncLock = Nobody
         THEN syncLock' = w /\ Goto(w, "mode") /\ UNCHANGED run
         ELSE /\ run' = [run EXCEPT ![w].verdict = "paused"]
              /\ Goto(w, "report") /\ UNCHANGED syncLock
    /\ UNCHANGED <<dataVars, control, catVars, leaderLock, shutdown, page, histVars>>

(* Reads the mode and asks requested(). *)
ReadMode(w) ==
    /\ pc[w] = "mode"
    /\ run' = [run EXCEPT ![w] = [NoRun EXCEPT !.mode = control.mode]]
    /\ Goto(w, IF control.requested /\ ~shutdown[w] THEN "prepare" ELSE "finish")
    /\ UNCHANGED <<dataVars, control, catVars, lockVars, shutdown, page, histVars>>

(* Mutant of PrepareDiscovery: the tail is opened by its boundary alone. *)
PrepareWholeTail(w) ==
    /\ pc[w] = "prepare" /\ run[w].mode = "discovery"
    /\ \E upper \in stored \union {0} :
         /\ IsMax(upper, stored)
         /\ state' = [state EXCEPT !.cursor = 0, !.upper = upper, !.completed = FALSE]
         /\ Goto(w, "loop")
    /\ UNCHANGED <<dataVars, control, revision, lookups, lockVars, shutdown, run, page, histVars>>

PrepareDiscovery(w) ==
    /\ pc[w] = "prepare" /\ run[w].mode = "discovery"
    /\ \E upper \in stored \union {0} :
         /\ IsMax(upper, stored)
         /\ \/ /\ state.cycle = 0 \/ ~state.completed     \* first or unfinished cycle
               /\ Goto(w, "loop") /\ UNCHANGED <<state, run>>
            \/ /\ state.cycle # 0 /\ state.completed /\ upper > state.upper
               /\ state' = [state EXCEPT !.cursor = IF @ > state.upper THEN @ ELSE state.upper,
                                         !.upper = upper, !.completed = FALSE]
               /\ Goto(w, "loop") /\ UNCHANGED run
            \/ /\ state.cycle # 0 /\ state.completed /\ upper <= state.upper
               /\ run' = [run EXCEPT ![w].verdict = "completed"]
               /\ Goto(w, "finish") /\ UNCHANGED state
    /\ UNCHANGED <<dataVars, control, revision, lookups, lockVars, shutdown, page, histVars>>

(* Mutant of PrepareRefresh: relies on the check that start() made. *)
PrepareRefreshUnchecked(w) ==
    /\ pc[w] = "prepare" /\ run[w].mode = "refresh"
    /\ \/ ~control.refreshCompleted /\ UNCHANGED <<control, scope, checked>>
       \/ /\ control.refreshCompleted
          /\ \E upper \in Known \union {0} :
               /\ IsMax(upper, Known)
               /\ control' = [control EXCEPT !.refreshCursor = 0, !.refreshUpper = upper,
                                             !.refreshCompleted = FALSE]
          /\ scope' = Known /\ checked' = {}
    /\ Goto(w, "loop")
    /\ UNCHANGED <<dataVars, catVars, lockVars, localVars, commands, losses, dead, late>>

(* Outside the batch's try: initial_scan_incomplete leaves the lock first. *)
PrepareRefresh(w) ==
    /\ pc[w] = "prepare" /\ run[w].mode = "refresh"
    /\ \/ /\ ~state.completed
          /\ Goto(w, "unwind") /\ UNCHANGED <<control, scope, checked>>
       \/ /\ state.completed /\ ~control.refreshCompleted    \* continued
          /\ Goto(w, "loop") /\ UNCHANGED <<control, scope, checked>>
       \/ /\ state.completed /\ control.refreshCompleted
          /\ \E upper \in Known \union {0} :
               /\ IsMax(upper, Known)
               /\ control' = [control EXCEPT !.refreshCursor = 0, !.refreshUpper = upper,
                                             !.refreshCompleted = FALSE]
          /\ scope' = Known /\ checked' = {}
          /\ Goto(w, "loop")
    /\ UNCHANGED <<dataVars, catVars, lockVars, localVars, commands, losses, dead, late>>

(* Mutant of Loop: the verdict in the vocabulary of the other row's status. *)
LoopStops(w) ==
    /\ pc[w] = "loop"
    /\ IF control.requested /\ ~shutdown[w]
         THEN run' = [run EXCEPT ![w].status = control.status] /\ Goto(w, "mark")
         ELSE run' = [run EXCEPT ![w].verdict = "stopped"] /\ Goto(w, "finish")
    /\ UNCHANGED <<dataVars, control, catVars, lockVars, shutdown, page, histVars>>

(* while await requested(): ... if not control.requested: break *)
Loop(w) ==
    /\ pc[w] = "loop"
    /\ IF control.requested /\ ~shutdown[w]
         THEN /\ run' = [run EXCEPT ![w].status = control.status]
              /\ Goto(w, "mark")
         ELSE /\ run' = [run EXCEPT ![w].verdict = "paused"]
              /\ Goto(w, "finish")
    /\ UNCHANGED <<dataVars, control, catVars, lockVars, shutdown, page, histVars>>

Mark(w) ==
    /\ pc[w] = "mark"
    /\ control' = [control EXCEPT !.status = Written(@, run[w].status, "running")]
    /\ Goto(w, "guard")
    /\ UNCHANGED <<dataVars, catVars, lockVars, localVars, histVars>>

(* An exception of the batch: `except Exception as exc` in run_request; in the *)
(* CLI it ends the command.                                                    *)
Fail(p, fault) ==
    /\ page' = [page EXCEPT ![p] = NoPage]
    /\ Goto(p, "error")
    /\ run' = [run EXCEPT ![p].fault = fault]

(* verify_lock of the run lock, then check_memory. *)
Guard(w) ==
    /\ pc[w] = "guard"
    /\ \/ /\ syncLock = w
          /\ Goto(w, IF run[w].mode = "discovery" THEN "begin" ELSE "refresh")
          /\ UNCHANGED <<run, page>>
       \/ syncLock # w /\ Fail(w, "permanent")
       \/ syncLock = w /\ Fail(w, "memory")
       \/ syncLock = w /\ Fail(w, "permanent")     \* memory_metrics_unavailable
    /\ UNCHANGED <<dataVars, control, catVars, lockVars, shutdown, histVars>>

(* Reads the committed completion, adds the run counters, then delay(). *)
Account(w) ==
    /\ pc[w] = "account"
    /\ LET completed == IF run[w].mode = "discovery" THEN state.completed
                                                     ELSE control.refreshCompleted
       IN /\ run' = [run EXCEPT ![w].failures = 0, ![w].fault = "none",
                                ![w].verdict = IF completed THEN "completed" ELSE "paused"]
          /\ Goto(w, IF completed THEN "finish" ELSE "loop")
    /\ page' = [page EXCEPT ![w] = NoPage]
    /\ UNCHANGED <<dataVars, control, catVars, lockVars, shutdown, histVars>>

(* Counts the failure; gives up, or reads the row it will set to waiting. *)
Error(w) ==
    /\ pc[w] = "error" /\ w # Cli
    /\ LET failures == run[w].failures + 1
           giveUp   == run[w].fault = "permanent" \/ failures > RetryLimit
       IN /\ run' = [run EXCEPT
                      ![w].failures = failures,
                      ![w].requested = control.requested, ![w].status = control.status,
                      ![w].verdict = IF run[w].fault = "memory" THEN "paused" ELSE "failed"]
          /\ Goto(w, IF giveUp THEN "finish" ELSE "wait")
    /\ UNCHANGED <<dataVars, control, catVars, lockVars, shutdown, page, histVars>>

Wait(w) ==
    /\ pc[w] = "wait"
    /\ control' = [control EXCEPT
                    !.status = Written(@, run[w].status,
                                       IF run[w].requested THEN "waiting" ELSE "stopping")]
    /\ Goto(w, "loop")
    /\ UNCHANGED <<dataVars, catVars, lockVars, localVars, histVars>>

Reported(w) == control' = [control EXCEPT !.requested = FALSE, !.status = run[w].verdict]

(* finish() inside the run lock, then the lock's release. *)
Finish(w) ==
    /\ pc[w] = "finish"
    /\ Reported(w)
    /\ Goto(w, "release")
    /\ UNCHANGED <<dataVars, catVars, lockVars, localVars, histVars>>

(* The release of a broken session raises, like any error outside the batch. *)
Release(w) ==
    /\ pc[w] = "release"
    /\ syncLock' = Free(syncLock, w)
    /\ Goto(w, IF syncLock = w THEN "poll" ELSE "unwind")
    /\ run' = [run EXCEPT ![w] = NoRun]
    /\ UNCHANGED <<dataVars, control, catVars, leaderLock, shutdown, page, histVars>>

Unwind(w) ==
    /\ pc[w] = "unwind"
    /\ syncLock' = Free(syncLock, w)
    /\ run' = [run EXCEPT ![w] = [NoRun EXCEPT !.verdict = "failed"]]
    /\ Goto(w, "report")
    /\ UNCHANGED <<dataVars, control, catVars, leaderLock, shutdown, page, histVars>>

(* finish() in an except clause, outside the run lock. *)
Report(w) ==
    /\ pc[w] = "report"
    /\ Reported(w)
    /\ run' = [run EXCEPT ![w] = NoRun]
    /\ Goto(w, "poll")
    /\ UNCHANGED <<dataVars, catVars, lockVars, shutdown, page, histVars>>

-----------------------------------------------------------------------------
(* The CLI: `python -m app.catalog_sync run` *)

CliStart ==
    /\ "cli" \in Environment
    /\ pc[Cli] = "off" /\ syncLock = Nobody
    /\ state.completed => state.cycle < MaxCycle
    /\ syncLock' = Cli
    /\ Goto(Cli, "begin")
    /\ UNCHANGED <<dataVars, control, catVars, leaderLock, localVars, histVars>>

CliEnd ==
    /\ pc[Cli] \in {"account", "error"}
    /\ Gone(Cli)
    /\ UNCHANGED <<dataVars, control, catVars, histVars>>

-----------------------------------------------------------------------------
(* One invocation of synchronize(), by a worker or by the CLI *)

(* A finished cycle is followed by a new one over all the sale items. *)
Begin(p) ==
    /\ pc[p] = "begin"
    /\ \/ /\ state.completed
          /\ \E upper \in stored \union {0} :
               /\ IsMax(upper, stored)
               /\ state' = [cycle |-> state.cycle + 1, cursor |-> 0, upper |-> upper,
                            completed |-> FALSE]
          /\ late' = {}
       \/ ~state.completed /\ UNCHANGED <<state, late>>
    /\ page' = [page EXCEPT
                 ![p] = [NoPage EXCEPT !.rows = IF p = Cli THEN CliRows ELSE BatchSize,
                                       !.products = IF p = Cli THEN CliProducts ELSE BatchSize]]
    /\ Goto(p, "page")
    /\ UNCHANGED <<dataVars, control, revision, lookups, lockVars, shutdown, run,
                   commands, losses, dead, scope, checked>>

(* Mutant of Unseen: an identity met before is taken for a checked one. *)
Unmet(ids) == {pair[id] : id \in ids} \ Known

Unseen(ids) == {pair[id] : id \in ids} \ {i \in Identities : lookups[i].cycle = state.cycle
                                                          /\ lookups[i].status # "absent"}

(* The last row a page visits: every row before it is already checked in this *)
(* cycle or still fits into the limit of products.                            *)
IsCheckpoint(c, rows, products) ==
    LET Fits(d) == Cardinality(Unseen({r \in rows : r <= d})) <= products
    IN c \in rows /\ Fits(c) /\ \A d \in rows : Fits(d) => d <= c

(* Known identities a page must ask for, new ones inserted as pending. *)
FetchPage(p) ==
    LET ahead == {id \in stored : state.cursor < id /\ id <= state.upper}
        batch == IF p = Cli THEN CliBatch ELSE BatchSize
        rows  == First(ahead, IF page[p].rows < batch THEN page[p].rows ELSE batch)
    IN IF ahead = {}
         THEN /\ state' = [state EXCEPT !.completed = TRUE]
              /\ Goto(p, "account")
              /\ UNCHANGED <<lookups, page>>
         ELSE \E c \in rows :
              /\ IsCheckpoint(c, rows, page[p].products)
              /\ LET visited == {r \in rows : r <= c}
                     asked   == Unseen(visited)
                 IN /\ lookups' = [i \in Identities |->
                                     IF i \in asked /\ lookups[i].status = "absent"
                                       THEN [status |-> "pending", cycle |-> 0]
                                       ELSE lookups[i]]
                    /\ page' = [page EXCEPT
                                 ![p] = [cycle |-> state.cycle, cursor |-> state.cursor,
                                         upper |-> state.upper, checkpoint |-> c,
                                         todo |-> asked \ Malformed,
                                         invalid |-> asked \intersect Malformed,
                                         rows |-> page[p].rows - Cardinality(visited),
                                         products |-> page[p].products - Cardinality(asked)]]
              /\ Goto(p, "http")
              /\ UNCHANGED state

(* lock_guard, ensure_headroom and the transaction that reads a page. *)
ReadPage(p) ==
    /\ pc[p] = "page"
    /\ \/ /\ page[p].rows > 0 /\ page[p].products > 0 /\ ~shutdown[p]
          /\ p = Cli \/ syncLock = p
          /\ FetchPage(p) /\ UNCHANGED run
       \/ /\ page[p].rows <= 0 \/ page[p].products <= 0 \/ shutdown[p]
          /\ Goto(p, "account") /\ UNCHANGED <<state, lookups, page, run>>
       \/ /\ page[p].rows > 0 /\ page[p].products > 0 /\ ~shutdown[p]
          /\ \/ p # Cli /\ syncLock # p /\ Fail(p, "permanent")
             \/ Fail(p, "memory")
          /\ UNCHANGED <<state, lookups>>
    /\ UNCHANGED <<dataVars, control, revision, lockVars, shutdown, histVars>>

(* The lookup request, outside any transaction, and the check of the lock *)
(* before its results are written.                                         *)
Request(p, verify) ==
    /\ \/ Goto(p, verify) /\ UNCHANGED <<run, page>>
       \/ page[p].todo # {} /\ \E fault \in {"temporary", "permanent"} : Fail(p, fault)
    /\ UNCHANGED <<dataVars, control, catVars, lockVars, shutdown, histVars>>

Verify(p, save) ==
    /\ IF p = Cli \/ syncLock = p
         THEN Goto(p, save) /\ UNCHANGED <<run, page>>
         ELSE Fail(p, "permanent")
    /\ UNCHANGED <<dataVars, control, catVars, lockVars, shutdown, histVars>>

(* save_results and the statuses of the malformed identities. *)
SaveResults(p) ==
    \E result \in [page[p].todo -> Outcomes] :
        lookups' = [i \in Identities |->
                      IF i \in page[p].todo
                        THEN [status |-> result[i], cycle |-> page[p].cycle]
                      ELSE IF i \in page[p].invalid
                        THEN [status |-> "invalid",
                              cycle  |-> IF pc[p] = "save" THEN page[p].cycle
                                                           ELSE lookups[i].cycle]
                      ELSE lookups[i]]

(* Mutant of Bumped: malformed identities do not count as results. *)
BumpedByResults(p) == IF page[p].todo = {} THEN revision ELSE revision + 1

Bumped(p) == IF page[p].todo \union page[p].invalid = {} THEN revision ELSE revision + 1

(* Lookups, cursor, completion and revision in one transaction. *)
Save(p) ==
    /\ pc[p] = "save"
    /\ SaveResults(p)
    /\ state' = [state EXCEPT
                  !.cursor = Written(@, page[p].cursor, page[p].checkpoint),
                  !.completed = @ \/ page[p].checkpoint >= page[p].upper]
    /\ revision' = Bumped(p)
    /\ IF page[p].checkpoint >= page[p].upper
         THEN Goto(p, "account") ELSE Goto(p, "page")
    /\ page' = [page EXCEPT ![p] = [NoPage EXCEPT !.rows = page[p].rows,
                                                  !.products = page[p].products]]
    /\ UNCHANGED <<dataVars, control, lockVars, shutdown, run, histVars>>

-----------------------------------------------------------------------------
(* One batch of a refresh: refresh_batch() *)

ReadLookups(w) ==
    /\ pc[w] = "refresh"
    /\ LET ahead == {i \in Known : control.refreshCursor < i /\ i <= control.refreshUpper}
           rows  == First(ahead, BatchSize)
           asked == {i \in rows : lookups[i].status # "invalid"}
       IN IF ahead = {}
            THEN /\ control' = [control EXCEPT !.refreshCompleted = TRUE]
                 /\ Goto(w, "account") /\ UNCHANGED page
            ELSE \E last \in rows :
                 /\ IsMax(last, rows)
                 /\ page' = [page EXCEPT
                              ![w] = [NoPage EXCEPT
                                       !.cycle = state.cycle, !.cursor = control.refreshCursor,
                                       !.upper = control.refreshUpper, !.checkpoint = last,
                                       !.todo = asked \ Malformed,
                                       !.invalid = asked \intersect Malformed]]
                 /\ Goto(w, "refreshHttp") /\ UNCHANGED control
    /\ UNCHANGED <<dataVars, catVars, lockVars, shutdown, run, histVars>>

(* Mutant of SaveRefresh: the boundary is taken for the checkpoint. *)
SaveRefreshUpper(w) ==
    /\ pc[w] = "refreshSave"
    /\ SaveResults(w)
    /\ revision' = Bumped(w)
    /\ control' = [control EXCEPT !.refreshCursor = page[w].upper, !.refreshCompleted = TRUE]
    /\ checked' = checked \union page[w].todo \union page[w].invalid
    /\ Goto(w, "account")
    /\ UNCHANGED <<dataVars, state, lockVars, localVars, commands, losses, dead, scope, late>>

SaveRefresh(w) ==
    /\ pc[w] = "refreshSave"
    /\ SaveResults(w)
    /\ revision' = Bumped(w)
    /\ control' = [control EXCEPT !.refreshCursor = page[w].checkpoint,
                                  !.refreshCompleted =
                                    Written(@, FALSE, page[w].checkpoint >= page[w].upper)]
    /\ checked' = checked \union page[w].todo \union page[w].invalid
    /\ Goto(w, "account")
    /\ UNCHANGED <<dataVars, state, lockVars, localVars, commands, losses, dead, scope, late>>

-----------------------------------------------------------------------------
(* Failures *)

Signal(p) ==
    /\ "signal" \in Environment
    /\ pc[p] # "off" /\ ~shutdown[p]
    /\ shutdown' = [shutdown EXCEPT ![p] = TRUE]
    /\ UNCHANGED <<dataVars, control, catVars, lockVars, pc, run, page, histVars>>

Crash(p) ==
    /\ "crash" \in Environment
    /\ pc[p] # "off"
    /\ Gone(p)
    /\ UNCHANGED <<dataVars, control, catVars, histVars>>

(* A statement fails or times out: its transaction is rolled back. *)
DatabaseError(w) ==
    /\ "dberror" \in Environment
    /\ pc[w] # "off"
    /\ \/ /\ pc[w] \in Batch
          /\ Fail(w, "permanent") /\ UNCHANGED <<shutdown, lockVars>>
       \/ /\ pc[w] \in (Inside \ Batch) \union {"acquire"}
          /\ Goto(w, "unwind") /\ page' = [page EXCEPT ![w] = NoPage]
          /\ UNCHANGED <<shutdown, run, lockVars>>
       \/ /\ pc[w] \in {"poll", "idle", "unstop", "report"}
          /\ Goto(w, "final") /\ UNCHANGED <<localVars, lockVars>>
       \/ pc[w] \in {"boot", "final", "close"} /\ Gone(w)
    /\ UNCHANGED <<dataVars, control, catVars, histVars>>

(* The dedicated session of an advisory lock is broken under its owner. *)
LoseLock ==
    /\ losses < MaxLosses
    /\ losses' = losses + 1
    /\ \/ syncLock # Nobody /\ syncLock' = Nobody /\ UNCHANGED leaderLock
       \/ leaderLock # Nobody /\ leaderLock' = Nobody /\ UNCHANGED syncLock
    /\ UNCHANGED <<dataVars, control, catVars, pc, localVars, commands, dead, scope, checked, late>>

-----------------------------------------------------------------------------
Synchronize(p) ==
    \/ Begin(p) \/ ReadPage(p) \/ Save(p)
    \/ pc[p] = "http" /\ Request(p, "verify")
    \/ pc[p] = "verify" /\ Verify(p, "save")

RefreshBatch(w) ==
    \/ ReadLookups(w) \/ SaveRefresh(w)
    \/ pc[w] = "refreshHttp" /\ Request(w, "refreshVerify")
    \/ pc[w] = "refreshVerify" /\ Verify(w, "refreshSave")

RunRequest(w) ==
    \/ Acquire(w) \/ ReadMode(w) \/ PrepareDiscovery(w) \/ PrepareRefresh(w)
    \/ Loop(w) \/ Mark(w) \/ Guard(w) \/ Account(w) \/ Error(w) \/ Wait(w)
    \/ Finish(w) \/ Release(w) \/ Unwind(w) \/ Report(w)
    \/ Synchronize(w) \/ RefreshBatch(w)

Serve(w) == Boot(w) \/ Poll(w) \/ Idle(w) \/ Unstop(w) \/ Final(w) \/ Close(w) \/ RunRequest(w)
CliRun   == CliEnd \/ Synchronize(Cli)
Web      == Pause \/ Stale \/ \E mode \in Modes : Start(mode)
Imports  == Allocate \/ \E id \in SaleIds : Commit(id) \/ Rollback(id) \/ DeleteSale(id)
Faulty   == LoseLock \/ \E p \in Procs : Signal(p) \/ Crash(p)

Next ==
    \/ \E w \in Workers : Launch(w) \/ Serve(w) \/ Heartbeat(w) \/ DatabaseError(w)
    \/ CliStart \/ CliRun \/ Web \/ Imports \/ Faulty

(* A live worker's event loop keeps scheduling its tasks, and every database *)
(* or HTTP wait in them is bounded by a timeout.  Nobody has to start a       *)
(* worker or to press a button.                                               *)
Fairness == /\ \A w \in Workers : WF_vars(Serve(w)) /\ WF_vars(Heartbeat(w))
            /\ WF_vars(CliRun)

Spec     == Init /\ [][Next]_vars
FairSpec == Spec /\ Fairness

-----------------------------------------------------------------------------
(* Properties *)

Settled(i) == lookups[i].status \in Kept /\ lookups[i].cycle = state.cycle

(* Every committed sale item that the checkpoint has passed, and in a         *)
(* finished cycle every one up to its boundary, has an identity checked in    *)
(* the current cycle: a failed request, a crash, a pause, a deletion or the   *)
(* change between worker and CLI loses none (synchronize, prepare).  The only  *)
(* ones it may miss are those the cycle had passed before they committed.      *)
Covered ==
    \A id \in stored \ late :
        (id <= state.cursor \/ (state.completed /\ id <= state.upper)) => Settled(pair[id])

(* A refresh, however often it is paused, crashed and continued, checks every *)
(* identity it found when it was opened before it calls itself complete, and  *)
(* its cursor never passes one it has not checked (refresh_batch).            *)
RefreshCovers ==
    \A i \in scope :
        (control.refreshCompleted \/ i <= control.refreshCursor)
            => i \in checked \/ lookups[i].status = "invalid"

(* No command accepted before a worker's boot is ever pending after it: "old  *)
(* run commands are never executed automatically" (boot), whatever a dying    *)
(* worker, the web and a stale transaction still write to the control row.    *)
OldCommandsAreDead == dead => ~control.requested

(* Within a cycle the checkpoint only advances, and a cycle is only left for  *)
(* the next one when it is complete (synchronize, prepare).                   *)
CheckpointAdvances ==
    [][IF state'.cycle = state.cycle
         THEN state'.cursor >= state.cursor /\ state'.upper >= state.upper
         ELSE state'.cycle = state.cycle + 1 /\ state.completed]_state

(* Reports in other processes key their cache by the revision: no saved check *)
(* goes unnoticed (synchronize, refresh_batch).                               *)
ChecksAreVisible ==
    [][(\E i \in Identities : lookups'[i] # lookups[i] /\ lookups'[i].status \in Kept)
         => revision' > revision]_vars

(* Both modes are refused, each because the other's pass is unfinished.       *)
LockedOut ==
    \A mode \in Modes : \/ (mode = "refresh" /\ ~state.completed)
                        \/ (mode # control.mode /\ ~control.refreshCompleted)

(* Commands, however they are paused, crashed and continued, never bring the   *)
(* web where each mode waits for the other: a worker does not rely on what     *)
(* start() has checked long before it.  Only a cycle the CLI opens beside a    *)
(* paused refresh does (start, prepare).                                       *)
OnlyCliLocksOut ==
    [][(LockedOut' /\ ~LockedOut) => (pc[Cli] = "begin" /\ pc'[Cli] = "page")]_vars

AllOff == \A w \in Workers : pc[w] = "off"

(* An accepted command is carried out or refused, never left pending while    *)
(* workers live: the row does not answer 409 to every further start.          *)
RequestSettles == control.requested ~> (~control.requested \/ AllOff)

(* The row does not stay in a status that forbids a start.                    *)
StatusSettles ==
    control.status \in Active ~> (control.status \notin Active \/ AllOff \/ losses > 0)

(* However a command ends - the lock busy or lost, an error outside a batch,   *)
(* a shutdown between poll and run, a pause beside it - the next one can be    *)
(* given (run_request, serve, start).                                          *)
CommandsSettle == RequestSettles /\ StatusSettles

(* Every committed sale is checked or lies above the boundary, where the next *)
(* discovery starts (docs/catalog_background_sync.md: discovery processes the  *)
(* new sales, those added meanwhile go to the next command).                   *)
NoSaleLeftBehind ==
    state.completed => \A id \in stored : id > state.upper \/ Settled(pair[id])

-----------------------------------------------------------------------------
(* Why Covered holds in whatever order the imports commit, while no live       *)
(* session loses its lock: the parts of an inductive invariant.                *)

Holding == Inside \ {"unwind"}             \* points reached only with the run lock
Paging  == Asked \union {"page"}
Reasked == {"refreshHttp", "refreshVerify", "refreshSave"}

OneWriter == \A p \in Procs : pc[p] \in Holding => syncLock = p

(* Nothing is late but below the boundary, the largest id committed when it    *)
(* was read: an import that no other overtakes loses nothing.                  *)
Cycles ==
    /\ state.cursor <= state.upper
    /\ \A id \in late : id <= state.upper
    /\ ~state.completed => state.cycle >= 1
    /\ \A i \in Identities : lookups[i].status = "pending" => lookups[i].cycle = 0

(* The page read before the request still describes the rows it will be       *)
(* saved against, and its identities make up for all that was not checked.    *)
PageIsCurrent(p) ==
    /\ pc[p] \in Paging => ~state.completed
    /\ pc[p] \in Asked \union Reasked => page[p].cycle = state.cycle
    /\ pc[p] \in Asked =>
         /\ page[p].cursor = state.cursor /\ page[p].upper = state.upper
         /\ state.cursor < page[p].checkpoint /\ page[p].checkpoint <= state.upper
         /\ \A id \in stored \ late : id <= page[p].checkpoint
              => Settled(pair[id]) \/ pair[id] \in page[p].todo \union page[p].invalid

(* One writer at a time, whose page is current: nothing read before the        *)
(* request goes stale during it (synchronize, refresh_batch, sync_lock).       *)
SnapshotsHold ==
    OneWriter /\ Cycles /\ (\A p \in Procs : PageIsCurrent(p)) /\ Covered

=============================================================================
