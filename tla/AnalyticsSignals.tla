--------------------------- MODULE AnalyticsSignals ---------------------------
(***************************************************************************)
(* The shadow signals: a run reads the sales table in primary key order into *)
(* purchase days of its own, evaluates every client and moves the persistent *)
(* episodes, then is published.  It may be interrupted between any two       *)
(* batches, by imports, deletions, another scope, another day, an operator,  *)
(* a failure or another worker.                                              *)
(*                                                                          *)
(* A batch (run_batch) is one step: it holds the source lock exclusively and *)
(* the control row FOR UPDATE from its first read to its commit.  What a     *)
(* worker does between batches is one step per transaction.                  *)
(***************************************************************************)
EXTENDS Sql, PurchaseCycle

CONSTANTS
    NumClients,     \* analytical client keys are 1..NumClients, in their order
    InitialSales,   \* what is stored at first
    Rows,           \* the rows an import may add, without their id
    Directories,    \* what ClientsVR may answer: buyer types of each client
    InitialDirectory,
    FirstDay, LastDay, \* bound: the last closed day moves from one to the other
    Releases,       \* bound: releases of the algorithm and scope policies, 1..Releases
    ScanSize,       \* --scan-size
    ClientSize,     \* --client-size
    Workers,        \* processes that may run batches
    Automation,     \* the one of them that is the churn command: it passes no
                    \* date, keeps no checkpoint and records no failure
    MaxMoves        \* bound on what happens around the batches

ClientKeys == 1..NumClients
Days       == 1..LastDay
BuyerTypes == {"wholesale", "corporate"}
Unavailable == <<>>  \* no answer, or one that is not a list of names

ASSUME SignalsAssumption ==
    /\ {NumClients, FirstDay, LastDay, Releases, ScanSize, ClientSize} \subseteq Nat \ {0}
    /\ FirstDay <= LastDay /\ MaxMoves \in Nat
    /\ IsFiniteSet(InitialSales)
    /\ InitialSales \subseteq [id : Nat \ {0}, client : ClientKeys, date : Nat \ {0},
                              positive : BOOLEAN]
    /\ Rows \subseteq [client : ClientKeys, date : Nat \ {0}, positive : BOOLEAN]
    /\ Directories \subseteq [ClientKeys -> SUBSET BuyerTypes] \union {Unavailable}
    /\ InitialDirectory \in Directories

VARIABLES
    sales,      \* committed sales
    revision,   \* seasonality_state.source_revision
    importing,  \* the one import's batch and its background task
    directory,  \* what ClientsVR answers
    today,      \* last_closed_day()
    release,    \* the deployed versions of scope and algorithm policies
    control,    \* the row of analytics_signal_state
    runs,       \* analytics_signal_runs with their purchase days and evaluations
    episodes,   \* analytics_signals of each client, oldest first
    changes,    \* analytics_signal_changes
    published,  \* analytics_delivery_publications in the order of their sequence
    leader,     \* the session that holds WORKER_LOCK
    worker,     \* each worker: where it is and its local variables
    reader,     \* a report read page by page
    moves       \* bound: what has happened around the batches

sourceVars == <<sales, revision, importing, directory, today, release>>
signalVars == <<runs, episodes, changes, published>>
vars == <<sourceVars, signalVars, control, leader, worker, reader, moves>>

Nobody == 0
Off    == [pc |-> "off", target |-> 0, run |-> 0, beat |-> 0]
None   == 0
Open   == {"ACTIVE", "SUSPENDED"}
Resumable == {"RUNNING", "PAUSED", "FAILED"}
Closed == {"SUPERSEDED", "BLOCKED", "SUCCEEDED"}
NoLine == [run |-> None, at |-> 0, seen |-> {}]

Init ==
    /\ sales = InitialSales /\ revision = 1 /\ importing = "none"
    /\ directory = InitialDirectory /\ today = FirstDay /\ release = 1
    /\ control = [enabled |-> TRUE, active |-> None, published |-> None]
    /\ runs = <<>> /\ episodes = [c \in ClientKeys |-> <<>>] /\ changes = {}
    /\ published = <<>>
    /\ leader = Nobody /\ moves = 0 /\ reader = NoLine
    /\ worker = [w \in Workers |-> Off]

Move == moves < MaxMoves /\ moves' = moves + 1

-----------------------------------------------------------------------------
(* What happens to the source. *)

(* An upload: the batch is queued, its task has not begun. *)
Upload ==
    /\ importing = "none" /\ Move
    /\ importing' = "queued"
    /\ UNCHANGED <<sales, revision, directory, today, release, signalVars, control, leader, worker, reader>>

(* _process_import: takes the source lock shared, every row is committed by  *)
(* itself; completed or failed, the revision moves with the last commit.     *)
StartImport ==
    /\ importing = "queued" /\ importing' = "processing"
    /\ UNCHANGED <<sales, revision, directory, today, release, signalVars, control, leader, worker, reader, moves>>

ImportRow ==
    /\ importing = "processing" /\ Move
    /\ \E row \in Rows, last \in 0..(Cardinality(InitialSales) + MaxMoves) :
           /\ IsMax(last, {s.id : s \in sales})
           /\ sales' = sales \union {[id |-> last + 1, client |-> row.client, date |-> row.date,
                                      positive |-> row.positive]}
    /\ UNCHANGED <<revision, importing, directory, today, release, signalVars, control, leader, worker, reader>>

FinishImport ==
    /\ importing = "processing" /\ importing' = "none" /\ revision' = revision + 1
    /\ UNCHANGED <<sales, directory, today, release, signalVars, control, leader, worker, reader, moves>>

(* The process dies: the lock is gone, the batch stays "processing".         *)
CrashImport ==
    /\ importing = "processing" /\ Move /\ importing' = "dead"
    /\ UNCHANGED <<sales, revision, directory, today, release, signalVars, control, leader, worker, reader>>

DeleteSale ==
    /\ Move
    /\ \E s \in sales : sales' = sales \ {s}
    /\ revision' = revision + 1
    /\ UNCHANGED <<importing, directory, today, release, signalVars, control, leader, worker, reader>>

ChangeDirectory ==
    /\ Move /\ directory' \in Directories \ {directory}
    /\ UNCHANGED <<sales, revision, importing, today, release, signalVars, control, leader, worker, reader>>

PassDay ==
    /\ Move /\ today < LastDay /\ today' = today + 1
    /\ UNCHANGED <<sales, revision, importing, directory, release, signalVars, control, leader, worker, reader>>

Deploy ==
    /\ Move /\ release < Releases /\ release' = release + 1
    /\ UNCHANGED <<sales, revision, importing, directory, today, signalVars, control, leader, worker, reader>>

-----------------------------------------------------------------------------
(* What a batch finds. *)

(* load_analytics_scope: a name of both buyer types is ambiguous, left out.  *)
Scope ==
    IF directory = Unavailable THEN [keys |-> {}, source |-> "UNAVAILABLE"]
    ELSE [keys |-> {c \in ClientKeys : Cardinality(directory[c]) = 1}, source |-> "ClientsVR"]

Pending == importing \in {"queued", "processing", "dead"}

(* stored_source_context: with an import pending the directory is not asked. *)
Context ==
    IF Pending THEN [keys |-> {}, source |-> "UNAVAILABLE"] ELSE Scope

Earlier(d, e) == IF d < e THEN d ELSE e

Decision(asOf) ==
    LET present == \E s \in sales : s.client \in Context.keys /\ s.date <= Earlier(asOf, today)
        lacking == IF Pending THEN {} ELSE
                   IF Context.source = "UNAVAILABLE" THEN {"BUYER_TYPE_SOURCE_UNAVAILABLE"} ELSE
                   IF Context.keys = {} THEN {"BUYER_TYPE_SCOPE_EMPTY"} ELSE
                   IF ~present THEN {"NO_SCOPED_STORED_SALES"} ELSE {}
        allowed == present /\ ~Pending /\ lacking = {}
    IN  [requested |-> asOf, closed |-> today,
         effective |-> IF allowed THEN Earlier(asOf, today) ELSE None,
         revision  |-> revision,
         upper     |-> Max({s.id : s \in sales} \union {0}),
         allowed   |-> allowed,
         reasons   |-> lacking \union (IF Pending THEN {"IMPORT_PENDING"} ELSE {})
                       \union (IF asOf > today THEN {"REQUESTED_DATE_NOT_CLOSED"} ELSE {})]

(* begin_run refuses to go back behind the published run or to leave its scope. *)
Judged(decision) ==
    LET p == control.published
        backwards == p # None /\ decision.effective # None /\ runs[p].asOf > decision.effective
        foreign   == p # None /\ runs[p].policy # release
    IN  [decision EXCEPT
            !.allowed = @ /\ ~backwards /\ ~foreign,
            !.reasons = @ \union (IF backwards THEN {"EFFECTIVE_DATE_PRECEDES_PUBLISHED_RUN"} ELSE {})
                          \union (IF foreign THEN {"ANALYTIC_SCOPE_CHANGED"} ELSE {})]

Candidate ==
    IF control.active # None /\ runs[control.active].status = "BLOCKED"
    THEN control.active ELSE control.published

(* Mutant of Reusable: any answer of the present scope and policy will do.    *)
ReusableByScope(judged) ==
    Candidate # None /\ runs[Candidate].scope = Context /\ runs[Candidate].policy = release

Reusable(judged) ==
    /\ Candidate # None
    /\ runs[Candidate].decision = judged
    /\ runs[Candidate].scope = Context
    /\ runs[Candidate].policy = release

(* Mutant of Blocker: the evidence is not compared, only the date and scope.  *)
BlockerByDate(run, current) ==
    \/ ~current.allowed
    \/ run.decision.requested # current.requested
    \/ ~(run.asOf <= current.effective /\ current.effective <= current.requested)
    \/ run.scope # Context

(* resume_blocker: may the frozen checkpoint go on over today's source?      *)
Blocker(run, current) ==
    \/ run.decision.revision # current.revision \/ run.decision.upper # current.upper
    \/ ~current.allowed
    \/ run.decision.requested # current.requested
    \/ ~(run.asOf <= current.effective /\ current.effective <= current.requested)
    \/ run.scope # Context

-----------------------------------------------------------------------------
(* The two phases of a run. *)

(* Mutant of Scanned: the page begins with the sale the last one ended with.  *)
ScannedTwice(run) ==
    LET ids   == First({s.id : s \in {t \in sales : t.id >= run.cursor /\ t.id <= run.decision.upper}},
                       ScanSize)
        batch == {s \in sales : s.id \in ids /\ s.date <= run.asOf /\ s.client \in run.scope.keys}
        On(k) == {s \in batch : <<s.client, s.date>> = k}
        old(k) == IF k \in DOMAIN run.days THEN run.days[k] ELSE [checks |-> 0, positive |-> 0]
    IN  IF ids \in {{}, {run.cursor}} THEN [run EXCEPT !.phase = "evaluate"]
        ELSE [run EXCEPT
                !.cursor = Max(ids),
                !.days = [k \in DOMAIN run.days \union {<<s.client, s.date>> : s \in batch} |->
                            [checks |-> old(k).checks + Cardinality(On(k)),
                             positive |-> old(k).positive + Cardinality({s \in On(k) : s.positive})]]]

(* scan_batch: adds the checks of the next sales to the run's purchase days. *)
Scanned(run) ==
    LET ids   == First({s.id : s \in {t \in sales : t.id > run.cursor /\ t.id <= run.decision.upper}},
                       ScanSize)
        batch == {s \in sales : s.id \in ids /\ s.date <= run.asOf /\ s.client \in run.scope.keys}
        On(k) == {s \in batch : <<s.client, s.date>> = k}
        old(k) == IF k \in DOMAIN run.days THEN run.days[k] ELSE [checks |-> 0, positive |-> 0]
    IN  IF ids = {} THEN [run EXCEPT !.phase = "evaluate"]
        ELSE [run EXCEPT
                !.cursor = Max(ids),
                !.days = [k \in DOMAIN run.days \union {<<s.client, s.date>> : s \in batch} |->
                            [checks |-> old(k).checks + Cardinality(On(k)),
                             positive |-> old(k).positive + Cardinality({s \in On(k) : s.positive})]]]

(* Everybody with a purchase day and everybody in scope who ever had a signal. *)
Evaluated(run) ==
    {k[1] : k \in DOMAIN run.days} \union {c \in run.scope.keys : episodes[c] # <<>>}

NextClients(run) == First({c \in Evaluated(run) : c > run.clientCursor}, ClientSize)

PurchasesOf(run, c) ==
    {k[2] : k \in {j \in DOMAIN run.days : j[1] = c /\ run.days[j].positive > 0}}

(* What evaluate_batch knows of a client: its features and their verdict.     *)
Facts(run, c) ==
    LET f == Features(PurchasesOf(run, c), run.asOf)
    IN  [features |-> f, verdict |-> Verdict(f, run.asOf)]

(* What apply_evidence leaves on the signal, without bookkeeping. *)
Evidence(run, facts) == [decision |-> run.decision, features |-> facts.features]

(* reconcile_batch for one client: what happens to its latest episode.       *)
Latest(c) == episodes[c][Len(episodes[c])]

(* A later purchase closes an open episode before anything else.             *)
Purchased(run, s, facts) ==
    IF s.status \in Open /\ facts.features.last > s.anchor
    THEN [s EXCEPT !.status = "RESOLVED", !.reason = "PURCHASE_OCCURRED", !.asOf = run.asOf,
                   !.evidence = Evidence(run, facts), !.revision = @ + 1]
    ELSE s

Judgement(s, facts) ==
    IF ~facts.verdict.eligible THEN [status |-> "SUSPENDED", reason |-> facts.verdict.reason]
    ELSE IF facts.features.last < s.anchor THEN [status |-> "RESOLVED", reason |-> "DATA_CORRECTION"]
    ELSE IF ~facts.verdict.risk THEN [status |-> "RESOLVED", reason |-> "MODEL_REEVALUATION"]
    ELSE [status |-> "ACTIVE", reason |-> "none"]

(* An open episode takes the verdict; only a change of content is recorded.  *)
Reevaluated(run, s, facts) ==
    LET j == Judgement(s, facts)
        t == [s EXCEPT !.status = j.status, !.reason = j.reason, !.asOf = run.asOf,
                       !.evidence = Evidence(run, facts)]
    IN  IF s.status \notin Open \/ t = s THEN s ELSE [t EXCEPT !.revision = @ + 1]

Kind(old, new) ==
    IF new = "RESOLVED" THEN "RESOLVED"
    ELSE IF old = "ACTIVE" /\ new = "SUSPENDED" THEN "SUSPENDED"
    ELSE IF old = "SUSPENDED" /\ new = "ACTIVE" THEN "RESUMED" ELSE "UPDATED"

NewEpisode(run, facts) ==
    [status |-> "ACTIVE", reason |-> "none", asOf |-> run.asOf, evidence |-> Evidence(run, facts),
     anchor |-> facts.features.last, revision |-> 1]

(* Mutant of Reconciled: an open episode does not keep a new one away.         *)
ReconciledTwice(run, c, facts) ==
    LET n    == Len(episodes[c])
        kept == [e \in 1..n |-> IF e < n THEN episodes[c][e]
                                ELSE Reevaluated(run, Purchased(run, Latest(c), facts), facts)]
    IN  IF facts.verdict.risk
        THEN Append(kept, NewEpisode(run, facts)) ELSE kept

(* The client's episodes after the batch. *)
Reconciled(run, c, facts) ==
    LET n    == Len(episodes[c])
        kept == [e \in 1..n |-> IF e < n THEN episodes[c][e]
                                ELSE Reevaluated(run, Purchased(run, Latest(c), facts), facts)]
    IN  IF facts.verdict.risk /\ (n = 0 \/ kept[n].status = "RESOLVED")
        THEN Append(kept, NewEpisode(run, facts)) ELSE kept

(* The change rows record() adds on the way from old to new episodes.        *)
Recorded(r, c, old, new) ==
    {[client |-> c, episode |-> e, revision |-> new[e].revision, run |-> r,
      kind |-> IF e > Len(old) THEN "CREATED" ELSE Kind(old[e].status, new[e].status)] :
         e \in {i \in DOMAIN new : i > Len(old) \/ new[i].revision # old[i].revision}}

(* The row of analytics_client_evaluations. *)
Row(facts, after) ==
    [eligible |-> facts.verdict.eligible,
     status |-> IF after = <<>> THEN "NORMAL" ELSE after[Len(after)].status]

(* The store refuses to evaluate a signal that was seen at a later date.     *)
Backwards(run) ==
    run.phase = "evaluate" /\
    \E c \in NextClients(run) : episodes[c] # <<>> /\ Latest(c).asOf > run.asOf

-----------------------------------------------------------------------------
(* Workers. *)
Start(w) ==
    /\ worker[w].pc = "off" /\ leader = Nobody /\ leader' = w
    /\ worker' = [worker EXCEPT ![w] = [pc |-> "top", target |-> None, run |-> None, beat |-> 0]]
    /\ UNCHANGED <<sourceVars, signalVars, control, reader, moves>>

Active == IF control.active = None THEN None
          ELSE IF runs[control.active].status \in Resumable THEN control.active ELSE None

(* The loop reads the checkpoint in a transaction of its own, and with it the *)
(* date it will ask the batch for.                                           *)
ReadCheckpoint(w) ==
    /\ worker[w].pc = "top"
    /\ \/ /\ w # Automation /\ UNCHANGED moves
          /\ worker' = [worker EXCEPT ![w] =
                [pc |-> "ready", run |-> control.active,
                 beat |-> IF control.active = None THEN 0 ELSE runs[control.active].beat,
                 target |-> IF Active = None THEN today ELSE runs[Active].decision.requested]]
       \/ /\ w # Automation /\ Move
          /\ \E asOf \in FirstDay..LastDay :
                worker' = [worker EXCEPT ![w] =
                    [pc |-> "ready", run |-> control.active, target |-> asOf,
                     beat |-> IF control.active = None THEN 0 ELSE runs[control.active].beat]]
       \/ /\ w = Automation /\ UNCHANGED moves
          /\ worker' = [worker EXCEPT ![w].pc = "ready", ![w].target = None]
    /\ UNCHANGED <<sourceVars, signalVars, control, leader, reader>>

AsOf(w) == IF worker[w].target # None THEN worker[w].target
           ELSE IF Active # None THEN runs[Active].decision.requested ELSE today

(* The batch's transaction can begin: the source lock is free, the worker on. *)
Ready(w) == worker[w].pc = "ready" /\ importing # "processing" /\ control.enabled

(* After a commit the loop verifies its leadership and goes round.           *)
Resting(w, r, beat) ==
    /\ worker' = [worker EXCEPT ![w] = IF leader # w THEN Off ELSE
                      [pc |-> "top", run |-> r, beat |-> beat, target |-> None]]
    /\ UNCHANGED <<sourceVars, leader, reader, moves>>

Disabled(w) ==
    /\ worker[w].pc = "ready" /\ importing # "processing" /\ ~control.enabled
    /\ worker' = [worker EXCEPT ![w] = Off]
    /\ leader' = IF leader = w THEN Nobody ELSE leader
    /\ UNCHANGED <<sourceVars, signalVars, control, reader, moves>>

Busy(w) ==
    /\ worker[w].pc = "ready" /\ importing = "processing"
    /\ worker' = [worker EXCEPT ![w] = IF leader # w THEN Off ELSE [@ EXCEPT !.pc = "top"]]
    /\ UNCHANGED <<sourceVars, signalVars, control, leader, reader, moves>>

Incompatible(run) == run.policy # release

(* Mutant of Supersede: the control row goes on pointing at the run.          *)
SupersedeInPlace(w, now) ==
    /\ Ready(w) /\ leader = w /\ Active # None
    /\ \/ Incompatible(runs[Active])
       \/ /\ runs[Active].decision.requested = now.requested
          /\ Blocker(runs[Active], now)
    /\ runs' = [runs EXCEPT ![Active].status = "SUPERSEDED", ![Active].beat = @ + 1]
    /\ UNCHANGED <<control, episodes, changes, published>>
    /\ Resting(w, Active, 0)

(* A checkpoint of another policy, or one the source has left behind.        *)
Supersede(w, now) ==
    /\ Ready(w) /\ leader = w /\ Active # None
    /\ \/ Incompatible(runs[Active])
       \/ /\ runs[Active].decision.requested = now.requested
          /\ Blocker(runs[Active], now)
    /\ runs' = [runs EXCEPT ![Active].status = "SUPERSEDED", ![Active].beat = @ + 1]
    /\ control' = [control EXCEPT !.active = None]
    /\ UNCHANGED <<episodes, changes, published>>
    /\ Resting(w, Active, 0)

NewRun(judged) ==
    [status |-> IF judged.allowed THEN "RUNNING" ELSE "BLOCKED",
     phase  |-> IF judged.allowed THEN "scan" ELSE "blocked",
     asOf   |-> IF judged.effective # None THEN judged.effective
                ELSE Earlier(judged.requested, judged.closed),
     decision |-> judged, scope |-> Context, policy |-> release, cursor |-> 0, clientCursor |-> 0,
     beat |-> 0, days |-> <<>>, rows |-> <<>>]

(* begin_run finds the answer it has already given, or may not begin.        *)
Repeat(w, now) ==
    /\ Ready(w) /\ Active = None
    /\ \E judged \in {Judged(now)} :
        \/ /\ Reusable(judged) /\ UNCHANGED <<runs, control>>
           /\ Resting(w, Candidate, 0)
        \/ /\ ~Reusable(judged) /\ ~judged.allowed
           /\ runs' = Append(runs, NewRun(judged))
           /\ control' = [control EXCEPT !.active = Len(runs) + 1]
           /\ Resting(w, Len(runs) + 1, 0)
    /\ UNCHANGED <<episodes, changes, published>>

(* What the batch works on: the checkpoint taken up again, or a new run.     *)
Opened(now) ==
    IF Active # None
    THEN {[r EXCEPT !.status = "RUNNING"] :
             r \in {s \in {runs[Active]} : /\ ~Incompatible(s) /\ ~Blocker(s, now)
                                         /\ s.decision.requested = now.requested}}
    ELSE {NewRun(j) : j \in {k \in {Judged(now)} : k.allowed /\ ~Reusable(k)}}

OpenedId == IF Active # None THEN Active ELSE Len(runs) + 1

Saved(r, run) == IF r > Len(runs) THEN Append(runs, run) ELSE [runs EXCEPT ![r] = run]

Scan(w, now) ==
    /\ Ready(w) /\ leader = w
    /\ \E run \in {r \in Opened(now) : r.phase = "scan"} :
        /\ runs' = Saved(OpenedId, [Scanned(run) EXCEPT !.beat = @ + 1])
        /\ control' = [control EXCEPT !.active = OpenedId]
        /\ Resting(w, OpenedId, run.beat + 1)
    /\ UNCHANGED <<episodes, changes, published>>

(* evaluate_batch with reconcile_batch: clients in key order, their episodes, *)
(* change rows, evaluations and the cursor in one commit.                    *)
Evaluate(w, now) ==
    /\ Ready(w) /\ leader = w
    /\ \E run \in {r \in Opened(now) : r.phase = "evaluate"} :
        /\ NextClients(run) # {} /\ ~Backwards(run)
        /\ \E facts \in {[c \in NextClients(run) |-> Facts(run, c)]} :
           \E done \in {[c \in DOMAIN facts |-> Reconciled(run, c, facts[c])]} :
            /\ episodes' = [c \in ClientKeys |-> IF c \in DOMAIN done THEN done[c] ELSE episodes[c]]
            /\ changes' = changes \union
                 UNION {Recorded(Active, c, episodes[c], done[c]) : c \in DOMAIN done}
            /\ runs' = [runs EXCEPT ![Active] =
                 [run EXCEPT !.clientCursor = Max(DOMAIN done), !.beat = @ + 1,
                             !.rows = [c \in DOMAIN run.rows \union DOMAIN done |->
                                IF c \in DOMAIN done THEN Row(facts[c], done[c]) ELSE run.rows[c]]]]
        /\ Resting(w, Active, run.beat + 1)
    /\ UNCHANGED <<control, published>>

(* Mutant of PublishDelivery: the newest publication comes first.             *)
PublishDeliveryFirst(r) ==
    published' = IF \E i \in DOMAIN published : published[i] = r THEN published
                 ELSE <<r>> \o published

(* No client is left: the run is complete and published in the same commit,  *)
(* under the row lock of the sequence, once.                                 *)
PublishDelivery(r) ==
    published' = IF \E i \in DOMAIN published : published[i] = r THEN published
                 ELSE Append(published, r)

Complete(w, now) ==
    /\ Ready(w) /\ leader = w
    /\ \E run \in {r \in Opened(now) : r.phase = "evaluate"} :
        /\ NextClients(run) = {}
        /\ runs' = [runs EXCEPT ![Active] = [run EXCEPT !.status = "SUCCEEDED", !.phase = "complete",
                                                        !.beat = @ + 1]]
        /\ control' = [control EXCEPT !.published = Active, !.active = None]
        /\ PublishDelivery(Active)
        /\ Resting(w, Active, run.beat + 1)
    /\ UNCHANGED <<episodes, changes>>

(* The batch raises and rolls back: the database, or anything else.          *)
Fault(w) ==
    /\ worker[w].pc = "ready" /\ importing # "processing" /\ Move
    /\ worker' = [worker EXCEPT ![w].pc = "failed"]
    /\ UNCHANGED <<sourceVars, signalVars, control, leader, reader>>

(* It refuses to commit: a lost lock, another date than the checkpoint's, an *)
(* episode that would go back in time.                                       *)
Refuse(w, now) ==
    /\ Ready(w)
    /\ \/ leader # w /\ (Active # None \/ Opened(now) # {})
       \/ /\ Active # None /\ ~Incompatible(runs[Active])
          /\ \/ runs[Active].decision.requested # now.requested
             \/ ~Blocker(runs[Active], now) /\ Backwards(runs[Active])
    /\ worker' = [worker EXCEPT ![w].pc = "failed"]
    /\ UNCHANGED <<sourceVars, signalVars, control, leader, reader, moves>>

(* Mutant of RecordFailure: the run the loop knew fails, whatever it became.  *)
RecordFailureBlindly(w) ==
    /\ worker[w].pc = "failed"
    /\ LET r == worker[w].run
       IN  runs' = IF r # None THEN [runs EXCEPT ![r].status = "FAILED", ![r].beat = @ + 1] ELSE runs
    /\ worker' = [worker EXCEPT ![w] = Off]
    /\ leader' = IF leader = w THEN Nobody ELSE leader
    /\ UNCHANGED <<sourceVars, episodes, changes, published, control, reader, moves>>

(* record_failure, of the checkpoint the loop knew; the process ends.        *)
RecordFailure(w) ==
    /\ worker[w].pc = "failed"
    /\ LET r == worker[w].run
           fenced == /\ w # Automation /\ r # None /\ worker[w].beat # 0
                     /\ control.active = r /\ control.enabled
                     /\ runs[r].status \in {"RUNNING", "FAILED"}
                     /\ runs[r].beat = worker[w].beat
       IN  runs' = IF fenced THEN [runs EXCEPT ![r].status = "FAILED", ![r].beat = @ + 1] ELSE runs
    /\ worker' = [worker EXCEPT ![w] = Off]
    /\ leader' = IF leader = w THEN Nobody ELSE leader
    /\ UNCHANGED <<sourceVars, episodes, changes, published, control, reader, moves>>

(* SIGTERM between two batches, then the finally block.                      *)
Shutdown(w) ==
    /\ worker[w].pc = "top" /\ Move
    /\ worker' = [worker EXCEPT ![w].pc = "stopping"]
    /\ leader' = IF leader = w THEN Nobody ELSE leader
    /\ UNCHANGED <<sourceVars, signalVars, control, reader>>

PauseOnShutdown(w) ==
    /\ worker[w].pc = "stopping"
    /\ LET r == worker[w].run
           own == /\ w # Automation /\ r # None /\ control.active = r
                  /\ runs[r].status = "RUNNING"
                  /\ worker[w].beat # 0 /\ runs[r].beat = worker[w].beat
       IN  runs' = IF own THEN [runs EXCEPT ![r].status = "PAUSED"] ELSE runs
    /\ worker' = [worker EXCEPT ![w] = Off]
    /\ UNCHANGED <<sourceVars, episodes, changes, published, control, leader, reader, moves>>

(* The command is over, or the process is killed.                            *)
Leave(w) ==
    /\ worker[w].pc # "off" /\ Move
    /\ worker' = [worker EXCEPT ![w] = Off]
    /\ leader' = IF leader = w THEN Nobody ELSE leader
    /\ UNCHANGED <<sourceVars, signalVars, control, reader>>

(* The session of the advisory lock breaks; its worker does not know yet.    *)
LoseLeadership ==
    /\ leader # Nobody /\ Move /\ leader' = Nobody
    /\ UNCHANGED <<sourceVars, signalVars, control, worker, reader>>

(* The operator's commands. *)
Enable ==
    /\ ~control.enabled /\ Move /\ control' = [control EXCEPT !.enabled = TRUE]
    /\ UNCHANGED <<sourceVars, signalVars, leader, worker, reader>>

Pause ==
    /\ control.enabled /\ Move /\ control' = [control EXCEPT !.enabled = FALSE]
    /\ runs' = IF control.active # None /\ runs[control.active].status = "RUNNING"
               THEN [runs EXCEPT ![control.active].status = "PAUSED"] ELSE runs
    /\ UNCHANGED <<sourceVars, episodes, changes, published, leader, worker, reader>>

(* The report: each page is one snapshot of the database; the cursor names   *)
(* the run of the page before, another published run is a conflict.          *)
ReadPage ==
    LET p == control.published
        from == IF reader.run = None THEN 0 ELSE reader.at
        page == First({c \in DOMAIN runs[p].rows : c > from}, 1)
    IN  /\ p # None /\ page # {}
        /\ reader.run \in {None, p}
        /\ reader' = [run |-> p, at |-> Max(page),
                      seen |-> reader.seen \union {<<c, runs[p].rows[c]>> : c \in page}]
        /\ UNCHANGED <<sourceVars, signalVars, control, leader, worker, moves>>

Conflict ==
    /\ reader.run \notin {None, control.published}
    /\ reader' = NoLine
    /\ UNCHANGED <<sourceVars, signalVars, control, leader, worker, moves>>

Source == Upload \/ StartImport \/ ImportRow \/ FinishImport \/ CrashImport \/ DeleteSale
          \/ ChangeDirectory \/ PassDay \/ Deploy
(* stored_source_context is read once, in the batch's transaction. *)
Batch(w) ==
    \/ /\ worker[w].pc = "ready"
       /\ \E now \in {Decision(AsOf(w))} :
            Supersede(w, now) \/ Repeat(w, now) \/ Scan(w, now) \/ Evaluate(w, now)
            \/ Complete(w, now) \/ Refuse(w, now)
    \/ Disabled(w) \/ Busy(w)
Running(w) == ReadCheckpoint(w) \/ Batch(w) \/ RecordFailure(w) \/ PauseOnShutdown(w)
Next ==
    \/ Source
    \/ \E w \in Workers : Start(w) \/ Running(w) \/ Fault(w) \/ Shutdown(w) \/ Leave(w)
    \/ LoseLeadership \/ Enable \/ Pause \/ ReadPage \/ Conflict

(* A worker that runs goes on; an import that runs comes to its end.  Nobody *)
(* has to start a worker, to upload, to page on or to repair anything, and   *)
(* the churn command may reach its deadline anywhere.                        *)
Fairness ==
    /\ WF_vars(StartImport) /\ WF_vars(FinishImport)
    /\ \A w \in Workers \ {Automation} : WF_vars(Running(w))

Spec == Init /\ [][Next]_vars /\ Fairness

-----------------------------------------------------------------------------
(* Every row the worker writes is one the tables admit: AnalyticsSignalRun,  *)
(* AnalyticsSignalState, AnalyticsSignal with its check constraints.         *)
TypeOK ==
    /\ \A s \in sales : s.id \in Nat /\ s.client \in ClientKeys /\ s.date \in Nat
    /\ revision \in Nat /\ importing \in {"none", "queued", "processing", "dead"}
    /\ control.enabled \in BOOLEAN
    /\ {control.active, control.published} \subseteq DOMAIN runs \union {None}
    /\ control.published # None => runs[control.published].status = "SUCCEEDED"
    /\ control.active # None => runs[control.active].status \in Resumable \union {"BLOCKED"}
    /\ \A r \in DOMAIN runs :
        /\ runs[r].status \in Resumable \union Closed
        /\ runs[r].phase \in {"scan", "evaluate", "blocked", "complete"}
        /\ (runs[r].status = "SUCCEEDED") = (runs[r].phase = "complete")
        /\ runs[r].asOf \in Days /\ runs[r].clientCursor \in ClientKeys \union {0}
        /\ runs[r].cursor <= runs[r].decision.upper
        /\ DOMAIN runs[r].days \subseteq ClientKeys \X Days
        /\ DOMAIN runs[r].rows \subseteq ClientKeys
    /\ \A c \in ClientKeys : \A e \in DOMAIN episodes[c] :
        episodes[c][e].status \in Open \union {"RESOLVED"} /\ episodes[c][e].revision \in Nat \ {0}
    /\ leader \in Workers \union {Nobody}
    /\ \A w \in Workers : worker[w].pc \in {"off", "top", "ready", "failed", "stopping"}

(* analytics_signals_shadow.md 158-160: the purchase days are added up batch *)
(* by batch, whatever interrupted them, to exactly what the sales table says *)
(* up to the cursor; nothing is counted twice or left out.                   *)
ProjectionExact ==
    (Active # None /\ importing \in {"none", "queued"} /\ runs[Active].decision.revision = revision) =>
        LET run  == runs[Active]
            read == {s \in sales : /\ s.id <= (IF run.phase = "evaluate" THEN run.decision.upper ELSE run.cursor)
                                   /\ s.date <= run.asOf /\ s.client \in run.scope.keys}
        IN  run.days = [k \in {<<s.client, s.date>> : s \in read} |->
                [checks |-> Cardinality({s \in read : <<s.client, s.date>> = k}),
                 positive |-> Cardinality({s \in read : <<s.client, s.date>> = k /\ s.positive})]]

(* Interrupted, superseded and repeated runs all move the same episodes: a   *)
(* client has at most one open episode, its last, and the change rows of an  *)
(* episode are its revisions without a gap, the last one in its status.      *)
EpisodesSound ==
    \A c \in ClientKeys : \A e \in DOMAIN episodes[c] :
        LET s   == episodes[c][e]
            log == {x \in changes : x.client = c /\ x.episode = e}
        IN  /\ e < Len(episodes[c]) => s.status = "RESOLVED"
            /\ {x.revision : x \in log} = 1..s.revision /\ Cardinality(log) = s.revision
            /\ \E x \in log : /\ x.revision = s.revision
                              /\ (x.kind \in {"RESOLVED", "SUSPENDED"}
                                  => s.status = x.kind)
                              /\ (s.status = "RESOLVED" => x.kind = "RESOLVED")

(* routers/analytics_delivery.py 1-5: a consumer that takes the publications  *)
(* in their order and compares per-signal revisions never meets an older one. *)
PublicationOrder ==
    \A i, j \in DOMAIN published : i < j =>
        \A x, y \in changes :
            (/\ x.run = published[i] /\ y.run = published[j] /\ x.client = y.client)
            => \/ x.episode < y.episode
               \/ x.episode = y.episode /\ x.revision < y.revision

(* routers/analytics_signals.py 65-76: pages joined by their cursors are the  *)
(* rows of one published run, none skipped, though runs replace each other.   *)
ReportIsOneRun ==
    reader.run # None =>
        reader.seen = {<<c, runs[reader.run].rows[c]>> :
                           c \in {d \in DOMAIN runs[reader.run].rows : d <= reader.at}}

(* A run that is superseded, blocked or succeeded never changes again, with  *)
(* its evaluations and its change rows: no late batch, failure or shutdown   *)
(* of another worker reaches it.                                             *)
ClosedRunsStay ==
    [][\A r \in DOMAIN runs : runs[r].status \in Closed =>
          /\ runs'[r] = runs[r]
          /\ {x \in changes' : x.run = r} = {x \in changes : x.run = r}]_vars

(* What a closed run holds is final, and a report shows one such run.         *)
ReportsStay == []ReportIsOneRun /\ ClosedRunsStay

feed == [i \in DOMAIN published |->
            LET run == runs[published[i]]
            IN  [asOf |-> run.asOf, scope |-> run.scope.keys,
                 risk |-> {c \in DOMAIN run.rows : run.rows[c].status = "ACTIVE"}]]
Feed == INSTANCE AnalyticsFeed WITH scope <- Scope.keys

(* The runs implement AnalyticsFeed: whatever happens between the batches, a *)
(* published run says of every client in scope what the sales say at the     *)
(* moment of its publication.                                                *)
FeedIsAtomic == Feed!Spec

(* A worker that keeps running brings the report up to the source: in the    *)
(* end a published or a blocked run answers for the present revision.        *)
Settled ==
    \E r \in {control.active, control.published} \ {None} :
        /\ runs[r].status \in {"SUCCEEDED", "BLOCKED"}
        /\ runs[r].decision.revision = revision /\ runs[r].decision.upper = Decision(today).upper
WorkerSettles ==
    \A w \in Workers \ {Automation} : <>[](worker[w].pc \in {"top", "ready"}) => <>[]Settled
=============================================================================
