----------------------------- MODULE SalesIntake -----------------------------
(***************************************************************************)
(* How sales get into the database and out of it, and what follows: the    *)
(* background task of an upload, the nightly FTP run and the one started   *)
(* by hand, a deletion, and the rebuild of the RFM snapshot each of them   *)
(* ends with (services/imports.py, ftp_autoload.py, rfm_snapshot.py).      *)
(* A task is a coroutine: one action per statement between its awaits.     *)
(***************************************************************************)
EXTENDS Integers, Sequences, FiniteSets, SequencesExt

CONSTANTS
    Files,         \* what the parser reads in each content (SalesFile!Read)
    Uploaded,      \* the contents of one upload request, in order
    Remote,        \* the contents of the files of 1C on the FTP remote, by name
    Marked,        \* those an earlier run has left there as EROOR_
    Filters,       \* the sets of documents a user may select for deletion
    Calendar,      \* the dates the clock goes through
    Retries,       \* FtpConfig.retries
    Autoloads,     \* the nightly run and the one started by hand
    MaxUploads, MaxRuns, MaxRemovals, MaxMishaps

ASSUME IntakeAssumption ==
    /\ Uploaded \in Seq(DOMAIN Files) /\ Marked \subseteq DOMAIN Remote
    /\ IsFiniteSet(DOMAIN Remote) /\ \A n \in DOMAIN Remote : Remote[n] \in DOMAIN Files
    /\ Retries \in Nat \ {0} /\ Calendar \in Seq(ToSet(Calendar)) \ {<<>>}
    /\ Autoloads \cap {"upload", "removal"} = {}
    /\ {MaxUploads, MaxRuns, MaxRemovals, MaxMishaps} \subseteq Nat

Rfm == INSTANCE RfmSegments

VARIABLES
    batches,       \* import_batches, in the order of their ids
    sales,         \* sales with their import_id
    disk,          \* batches whose temporary source exists
    announced,     \* the source revision has moved since the sales last changed
    remote,        \* what each of these files is called on the server now
    task,          \* the coroutines
    shared,        \* tasks holding the source lock shared
    exclusive,     \* tasks holding the source lock exclusively (at most one)
    rfmLock,       \* tasks holding the RFM lock (at most one)
    runLock,       \* tasks holding run_lock (at most one)
    nightly,       \* the scheduler's coroutine is alive
    snapshot,      \* the active RFM snapshot (a set with at most one)
    today,         \* the clock, an index of Calendar
    used,          \* how often each bounded thing has happened
    seenDocs,      \* history: documents that have ever been stored
    behind         \* history: something the rebuilds need not make up for happened

locks  == <<shared, exclusive, rfmLock>>
store  == <<batches, sales, disk, announced, seenDocs>>
vars == <<batches, sales, disk, announced, remote, task, shared, exclusive,
          rfmLock, runLock, nightly, snapshot, today, used, seenDocs, behind>>

Tasks     == Autoloads \cup {"upload", "removal"}
Names     == DOMAIN Remote
Listed    == {"plain", "EROOR_"}
Days      == DOMAIN Calendar

Rows     == [c \in DOMAIN Files |-> Files[c].rows]
Readable == {c \in DOMAIN Files : Files[c].readable}

(* A stored sale is <<fingerprint, import_id>>; the rest of it follows.     *)
Parsed    == UNION {UNION {r.sale : r \in ToSet(Rows[c])} : c \in DOMAIN Files}
Facts(fp) == CHOOSE s \in Parsed : s.fp = fp
Known(stored) == {Facts(s[1]) : s \in stored}
(* A sale's document: what the file says without its amount.                *)
Doc(fp) == SubSeq(fp, 1, 3)

(* A row is passed over or has one sale at most; what an older import may    *)
(* have called its sale is of the same document.                             *)
ASSUME FilesAssumption ==
    \A c \in DOMAIN Files :
        /\ Files[c].readable \in BOOLEAN /\ Rows[c] \in Seq(ToSet(Rows[c]))
        /\ \A r \in ToSet(Rows[c]) :
             /\ r.skip \in BOOLEAN /\ (r.skip => r.sale = {})
             /\ \A s1, s2 \in r.sale : s1 = s2
             /\ \A s \in r.sale : \A fp \in s.fps : Doc(fp) = Doc(s.fp)

Batch == [content : DOMAIN Files, status : {"queued", "processing", "completed", "failed"},
          path : BOOLEAN, total : Nat, added : Nat, duplicate : Nat, skipped : Nat, error : Nat]
NewBatch(c) == [content |-> c, status |-> "queued", path |-> TRUE, total |-> 0,
                added |-> 0, duplicate |-> 0, skipped |-> 0, error |-> 0]

Idle == [pc |-> "idle", todo |-> <<>>, batch |-> 0, name |-> 0, form |-> "plain", row |-> 0,
         raised |-> FALSE, tries |-> 0, day |-> 1, served |-> FALSE, seen |-> {}]

Init ==
    /\ batches = <<>> /\ sales = {} /\ disk = {} /\ announced = TRUE
    /\ remote = [n \in Names |-> IF n \in Marked THEN "EROOR_" ELSE "future"]
    /\ task = [t \in Tasks |-> Idle]
    /\ shared = {} /\ exclusive = {} /\ rfmLock = {} /\ runLock = {}
    /\ nightly = TRUE /\ snapshot = {} /\ today = 1
    /\ used = [uploads |-> 0, runs |-> 0, removals |-> 0, mishaps |-> 0]
    /\ seenDocs = {} /\ behind = FALSE

At(t, l) == task[t].pc = l
Goto(t, l) == task' = [task EXCEPT ![t].pc = l]
Use(what, limit) == used[what] < limit /\ used' = [used EXCEPT ![what] = @ + 1]
(* An exception of the database, of the file system or of the network.      *)
Fault == Use("mishaps", MaxMishaps)

Raise(t, l) == task' = [task EXCEPT ![t].pc = l, ![t].raised = TRUE]
Busy(l)     == {t \in Tasks : task[t].pc = l}

----------------------------------------------------- (* Starts, the outside *)
(* upload(): the files and their batches are there before the task is; a    *)
(* refused or failing request takes its files and rows back.                *)
Upload ==
    /\ At("upload", "idle") /\ Use("uploads", MaxUploads)
    /\ LET ids == [i \in DOMAIN Uploaded |-> Len(batches) + i] IN
       /\ batches' = batches \o [i \in DOMAIN Uploaded |-> NewBatch(Uploaded[i])]
       /\ disk' = disk \cup ToSet(ids)
       /\ task' = [task EXCEPT !["upload"].pc = "next", !["upload"].todo = ids]
    /\ UNCHANGED <<sales, announced, seenDocs, remote, locks, runLock, nightly, snapshot, today, behind>>

StartRemoval ==
    /\ At("removal", "idle") /\ Use("removals", MaxRemovals) /\ Goto("removal", "lock")
    /\ UNCHANGED <<store, remote, locks, runLock, nightly, snapshot, today, behind>>

(* run_autoload: a run that finds run_lock taken returns at once.           *)
StartRun(t) ==
    /\ At(t, "idle") /\ (t = "night" => nightly)
    /\ runLock = {} /\ Use("runs", MaxRuns)
    /\ runLock' = {t} /\ Goto(t, "list")
    /\ UNCHANGED <<store, remote, shared, exclusive, rfmLock, nightly, snapshot, today, behind>>

(* 1C never gives two files one name: names carry the date.                 *)
Export(n) ==
    /\ remote[n] = "future" /\ remote' = [remote EXCEPT ![n] = "plain"]
    /\ UNCHANGED <<store, task, locks, runLock, nightly, snapshot, today, used, behind>>

(* The backend dies and starts again.                                       *)
Crash ==
    /\ Busy("idle") # Tasks /\ Use("mishaps", MaxMishaps)
    /\ task' = [t \in Tasks |-> Idle]
    /\ shared' = {} /\ exclusive' = {} /\ rfmLock' = {} /\ runLock' = {}
    /\ nightly' = TRUE /\ behind' = TRUE
    /\ UNCHANGED <<store, remote, snapshot, today>>

------------------------------------------------------------- (* An import *)
NextUpload ==
    /\ At("upload", "next")
    /\ LET todo == task["upload"].todo IN
       task' = [task EXCEPT !["upload"] =
                  IF todo = <<>> THEN Idle
                  ELSE [Idle EXCEPT !.pc = "lock", !.batch = Head(todo), !.todo = Tail(todo)]]
    /\ UNCHANGED <<store, remote, locks, runLock, nightly, snapshot, today, used, behind>>

Content(t) == batches[task[t].batch].content
Current(t) == Rows[Content(t)][task[t].row]
Stored(fps) == \E s \in sales : s[1] \in fps

(* process_import: the source lock, the first commit of the batch, the      *)
(* heading of its file.                                                     *)
Begin(t) ==
    /\ At(t, "lock") /\ t # "removal" /\ exclusive = {}
    /\ shared' = shared \cup {t}
    /\ \/ /\ batches' = [batches EXCEPT ![task[t].batch].status = "processing"]
          /\ task' = IF Content(t) \in Readable
                     THEN [task EXCEPT ![t].pc = "row", ![t].row = 1]
                     ELSE [task EXCEPT ![t].pc = "fail"]
          /\ UNCHANGED used
       \/ Fault /\ Raise(t, "cleanup") /\ UNCHANGED batches
    /\ UNCHANGED <<sales, disk, announced, seenDocs, remote, exclusive, rfmLock, runLock,
                   nightly, snapshot, today, behind>>

(* A row's outcome is counted in the transaction that stores its sale.      *)
Count(t, outcome) ==
    /\ batches' = [batches EXCEPT ![task[t].batch].total = @ + 1,
                                  ![task[t].batch][outcome] = @ + 1]
    /\ task' = [task EXCEPT ![t].pc = "row", ![t].row = @ + 1]

RowOutcome(t) ==
    IF Current(t).skip THEN "skipped"
    ELSE IF Current(t).sale = {} THEN "error"
    ELSE IF \E s \in Current(t).sale : Stored(s.fps) THEN "duplicate" ELSE "new"

Row(t) ==
    /\ At(t, "row") /\ task[t].row <= Len(Rows[Content(t)])
    /\ \/ /\ IF RowOutcome(t) = "new" THEN Goto(t, "insert") /\ UNCHANGED batches
             ELSE Count(t, RowOutcome(t))
          /\ UNCHANGED used
       \/ Fault /\ Count(t, "error")
       \/ Fault /\ Goto(t, "fail") /\ UNCHANGED batches
    /\ UNCHANGED <<sales, disk, announced, seenDocs, remote, locks, runLock, nightly, snapshot, today, behind>>

(* Since the look a moment ago somebody else may have stored it.            *)
Insert(t) ==
    /\ At(t, "insert")
    /\ \E s \in Current(t).sale :
         \/ /\ Stored({s.fp}) /\ Count(t, "error")
            /\ UNCHANGED <<sales, announced, seenDocs, used>>
         \/ /\ ~Stored({s.fp}) /\ Count(t, "added")
            /\ sales' = sales \cup {<<s.fp, task[t].batch>>}
            /\ seenDocs' = seenDocs \cup {Doc(s.fp)}
            /\ announced' = FALSE /\ UNCHANGED used
         \/ /\ Fault /\ Count(t, "error") /\ UNCHANGED <<sales, announced, seenDocs>>
    /\ UNCHANGED <<disk, remote, locks, runLock, nightly, snapshot, today, behind>>

Complete(t) ==
    /\ At(t, "row") /\ task[t].row > Len(Rows[Content(t)])
    /\ \/ /\ batches' = [batches EXCEPT ![task[t].batch].status = "completed"]
          /\ announced' = TRUE /\ Goto(t, "cleanup") /\ UNCHANGED used
       \/ Fault /\ Goto(t, "fail") /\ UNCHANGED <<batches, announced>>
    /\ UNCHANGED <<sales, disk, seenDocs, remote, locks, runLock, nightly, snapshot, today, behind>>

(* Mutant of Fail: a failed import announces nothing.                      *)
FailQuietly(t) ==
    /\ At(t, "fail") /\ behind' = TRUE
    /\ \/ /\ batches' = [batches EXCEPT ![task[t].batch].status = "failed"]
          /\ Goto(t, "cleanup") /\ UNCHANGED <<used, announced>>
       \/ Fault /\ Raise(t, "cleanup") /\ UNCHANGED <<batches, announced>>
    /\ UNCHANGED <<sales, disk, seenDocs, remote, locks, runLock, nightly, snapshot, today>>

Fail(t) ==
    /\ At(t, "fail") /\ behind' = TRUE
    /\ \/ /\ batches' = [batches EXCEPT ![task[t].batch].status = "failed"]
          /\ announced' = TRUE /\ Goto(t, "cleanup") /\ UNCHANGED used
       \/ Fault /\ Raise(t, "cleanup") /\ UNCHANGED <<batches, announced>>
    /\ UNCHANGED <<sales, disk, seenDocs, remote, locks, runLock, nightly, snapshot, today>>

AfterImport(t) == CASE t = "upload"       -> "next"
                    [] t \in Autoloads    -> "finish"
                    [] OTHER              -> "idle"
Resume(t, l) == IF l = "idle" THEN Idle
                ELSE [task[t] EXCEPT !.pc = l, !.raised = FALSE, !.row = 0, !.tries = 0,
                                     !.day = 1, !.served = FALSE, !.seen = {}]

(* An exception of an import, which process_import's handler announces as a *)
(* change of the sales, ends an upload's remaining files with it.           *)
Aborted(t) ==
    task' = [task EXCEPT ![t] = Resume(t, IF t \in Autoloads THEN "mark" ELSE "idle")]

(* Mutant of CleanUp: the rebuild is asked for inside the source lock.       *)
CleanUpInside(t) ==
    /\ At(t, "cleanup") /\ UNCHANGED <<shared, used, announced, behind>>
    /\ disk' = disk \ {task[t].batch}
    /\ batches' = [batches EXCEPT ![task[t].batch].path = FALSE]
    /\ task' = [task EXCEPT ![t] = Resume(t, "request")]
    /\ UNCHANGED <<sales, seenDocs, remote, exclusive, rfmLock, runLock, nightly, snapshot, today>>

(* with_temporary_source, _clear_stored_path and the release of the lock: a *)
(* file that cannot be removed makes an exception of an import that has     *)
(* ended well, and announcing may fail as well.                             *)
CleanUp(t) ==
    /\ At(t, "cleanup") /\ shared' = shared \ {t}
    /\ \/ /\ disk' = disk \ {task[t].batch}
          /\ batches' = [batches EXCEPT ![task[t].batch].path = FALSE]
          /\ \/ /\ task[t].raised /\ Aborted(t)
                /\ \/ announced' = TRUE /\ UNCHANGED used
                   \/ Fault /\ UNCHANGED announced
             \/ /\ ~task[t].raised /\ UNCHANGED <<announced, used>>
                /\ task' = [task EXCEPT ![t] = Resume(t,
                      IF batches[task[t].batch].status = "completed" THEN "request"
                      ELSE AfterImport(t))]
          /\ UNCHANGED behind
       \/ /\ Fault /\ Aborted(t) /\ announced' = TRUE /\ behind' = TRUE
          /\ UNCHANGED <<disk, batches>>
    /\ UNCHANGED <<sales, seenDocs, remote, exclusive, rfmLock, runLock, nightly, snapshot, today>>

(* delete_sales: the selected sales, or all a filter shows, in one          *)
(* transaction under the shared lock.                                       *)
LockRemoval ==
    /\ At("removal", "lock") /\ exclusive = {}
    /\ shared' = shared \cup {"removal"} /\ Goto("removal", "delete")
    /\ UNCHANGED <<store, remote, exclusive, rfmLock, runLock, nightly, snapshot, today, used, behind>>

Delete ==
    /\ At("removal", "delete") /\ shared' = shared \ {"removal"}
    /\ \/ /\ \E filter \in Filters : sales' = {s \in sales : s[1][2] \notin filter}
          /\ announced' = TRUE /\ Goto("removal", "request") /\ UNCHANGED used
       \/ /\ Fault /\ task' = [task EXCEPT !["removal"] = Idle]
          /\ UNCHANGED <<sales, announced>>
    /\ UNCHANGED <<batches, disk, seenDocs, remote, exclusive, rfmLock, runLock,
                   nightly, snapshot, today, behind>>

---------------------------------------------------- (* The RFM snapshot *)
(* requested_at and the period are taken before the locks are waited for.   *)
(* Nothing else reads the clock, so that it moves here.                     *)
Request(t) ==
    /\ At(t, "request")
    /\ \E day \in today .. Len(Calendar) :
         /\ today' = day
         /\ task' = [task EXCEPT ![t].pc = "rfm", ![t].day = day, ![t].served = FALSE]
    /\ UNCHANGED <<store, remote, locks, runLock, nightly, snapshot, used, behind>>

LockRfm(t) ==
    /\ At(t, "rfm") /\ rfmLock = {} /\ rfmLock' = {t} /\ Goto(t, "source")
    /\ UNCHANGED <<store, remote, shared, exclusive, runLock, nightly, snapshot, today, used, behind>>

(* Mutant of LockSource: a rebuild does not wait for running imports.        *)
LockSourceEarly(t) ==
    /\ At(t, "source") /\ exclusive = {}
    /\ exclusive' = {t} /\ Goto(t, "current")
    /\ UNCHANGED <<store, remote, shared, rfmLock, runLock, nightly, snapshot, today, used, behind>>

LockSource(t) ==
    /\ At(t, "source") /\ shared = {} /\ exclusive = {}
    /\ exclusive' = {t} /\ Goto(t, "current")
    /\ UNCHANGED <<store, remote, shared, rfmLock, runLock, nightly, snapshot, today, used, behind>>

Period(t) == Rfm!SnapshotPeriod(Calendar[task[t].day])

(* Mutant of Coalesced: any snapshot of the day will do.                     *)
CoalescedAlways(t) == \E s \in snapshot : s.day = task[t].day

(* A snapshot calculated after the request, for the same period, will do.   *)
Coalesced(t) ==
    task[t].served /\ \E s \in snapshot : s.day = task[t].day

Rebuilt(t) ==
    /\ task' = [task EXCEPT ![t] = Resume(t, AfterImport(t))]
    /\ exclusive' = exclusive \ {t} /\ rfmLock' = rfmLock \ {t} /\ UNCHANGED shared

ReadCurrent(t) ==
    /\ At(t, "current")
    /\ IF Coalesced(t) THEN Rebuilt(t)
       ELSE /\ task' = [task EXCEPT ![t].pc = "history",
                                    ![t].seen = {s.fp : s \in Rfm!Current(Known(sales), Period(t))}]
            /\ UNCHANGED locks
    /\ UNCHANGED <<store, remote, runLock, nightly, snapshot, today, used, behind>>

(* The second statement, the rows and the pointer to them, committed        *)
(* together with the locks.  A client of the first statement the second     *)
(* does not know is a KeyError.                                             *)
Build(t) ==
    /\ At(t, "history")
    /\ LET seen    == {Facts(fp) : fp \in task[t].seen}
           history == Rfm!History(Known(sales), Period(t)) IN
       IF UNION {s.client : s \in seen} \subseteq DOMAIN history
       THEN /\ snapshot' = {[day     |-> task[t].day,
                             clients |-> Rfm!Enrich(Rfm!RfmRows(seen, history, Period(t)))]}
            /\ task' = [u \in Tasks |->
                          IF u = t THEN Resume(t, AfterImport(t))
                          ELSE [task[u] EXCEPT !.served = @ \/ task[u].pc \in {"rfm", "source"}]]
            /\ exclusive' = {} /\ rfmLock' = {} /\ behind' = FALSE
            /\ UNCHANGED shared
       ELSE Rebuilt(t) /\ behind' = TRUE /\ UNCHANGED snapshot
    /\ UNCHANGED <<store, remote, runLock, nightly, today, used>>

(* rebuild_after_sales_update: a failing rebuild is logged.                 *)
RebuildFails(t) ==
    /\ task[t].pc \in {"rfm", "source", "current", "history"}
    /\ Fault /\ Rebuilt(t) /\ behind' = TRUE
    /\ UNCHANGED <<store, remote, runLock, nightly, snapshot, today>>

------------------------------------------------------- (* The FTP run *)
EndRun(t) == task' = [task EXCEPT ![t] = Idle] /\ runLock' = {}
NextFile(t, todo) ==
    IF todo = <<>> THEN EndRun(t)
    ELSE /\ task' = [task EXCEPT ![t] = [Idle EXCEPT !.pc = "download", !.name = Head(todo)[1],
                                          !.form = Head(todo)[2], !.todo = Tail(todo)]]
         /\ UNCHANGED runLock

(* importable_ftp_files keeps the order of the remote, which is any.        *)
List(t) ==
    /\ At(t, "list")
    /\ \/ /\ \E todo \in SetToSeqs({<<n, remote[n]>> : n \in {m \in Names : remote[m] \in Listed}}) : NextFile(t, todo)
          /\ UNCHANGED used
       \/ Fault /\ EndRun(t)
    /\ UNCHANGED <<store, remote, locks, nightly, snapshot, today, behind>>

Download(t) ==
    /\ At(t, "download")
    /\ \/ /\ batches' = Append(batches, NewBatch(Remote[task[t].name]))
          /\ disk' = disk \cup {Len(batches) + 1}
          /\ task' = [task EXCEPT ![t].pc = "lock", ![t].batch = Len(batches) + 1]
          /\ UNCHANGED used
       \/ Fault /\ Goto(t, "mark") /\ UNCHANGED <<batches, disk>>
    /\ UNCHANGED <<sales, announced, seenDocs, remote, locks, runLock, nightly, snapshot, today, behind>>

(* Mutant of Success: rows in error are no reason to keep the file.          *)
SuccessWithErrors(t) == batches[task[t].batch].status = "completed"

Success(t) == LET b == batches[task[t].batch] IN b.status = "completed" /\ b.error = 0

(* One attempt at a command of the server: it is done, or refused because   *)
(* the file is not there any more, or an error comes back with or without   *)
(* it being done.  Renaming leaves a name with the prefix alone.            *)
Attempt(t, result, then, otherwise) ==
    LET n        == task[t].name
        there    == remote[n] = task[t].form
        possible == there \/ (result = "EROOR_" /\ task[t].form = "EROOR_")
        done     == IF there THEN [remote EXCEPT ![n] = result] ELSE remote
        again    == IF task[t].tries + 1 < Retries
                    THEN task' = [task EXCEPT ![t].tries = @ + 1]
                    ELSE task' = [task EXCEPT ![t].tries = 0, ![t].pc = otherwise] IN
    \/ /\ possible /\ remote' = done /\ UNCHANGED used
       /\ task' = [task EXCEPT ![t].tries = 0, ![t].pc = then]
    \/ ~possible /\ again /\ UNCHANGED <<remote, used>>
    \/ Fault /\ again /\ remote' \in {remote, done}

Finish(t) ==
    /\ At(t, "finish") /\ Attempt(t, IF Success(t) THEN "gone" ELSE "EROOR_", "ended", "mark")
    /\ UNCHANGED <<store, locks, runLock, nightly, snapshot, today, behind>>

MarkError(t) ==
    /\ At(t, "mark") /\ Attempt(t, "EROOR_", "ended", "ended")
    /\ UNCHANGED <<store, locks, runLock, nightly, snapshot, today, behind>>

EndFile(t) ==
    /\ At(t, "ended") /\ disk' = disk \ {task[t].batch}
    /\ NextFile(t, task[t].todo)
    /\ UNCHANGED <<batches, sales, announced, seenDocs, remote, locks, nightly, snapshot, today, used, behind>>

(* The commits outside of every handler: their exception ends the run, and  *)
(* with the nightly one the scheduler's coroutine, until the next start.    *)
Die(t) ==
    /\ task[t].pc \in {"list", "download", "ended"} /\ Fault /\ EndRun(t)
    /\ nightly' = (nightly /\ t # "night")
    /\ disk' = disk \ {task[t].batch}
    /\ UNCHANGED <<batches, sales, announced, seenDocs, remote, locks, snapshot, today, behind>>

---------------------------------------------------- (* Specification *)
Import(t) ==
    \/ Begin(t) \/ Row(t) \/ Insert(t) \/ Complete(t) \/ Fail(t) \/ CleanUp(t)
Rebuild(t) ==
    \/ Request(t) \/ LockRfm(t) \/ LockSource(t) \/ ReadCurrent(t) \/ Build(t)
    \/ RebuildFails(t)
Autoload(t) ==
    \/ List(t) \/ Download(t) \/ Finish(t) \/ MarkError(t) \/ EndFile(t) \/ Die(t)

Step(t) ==
    \/ Import(t) \/ Rebuild(t)
    \/ t \in Autoloads /\ Autoload(t)
    \/ t = "upload" /\ NextUpload
    \/ t = "removal" /\ (LockRemoval \/ Delete)

Environment ==
    \/ Upload \/ StartRemoval \/ (\E t \in Autoloads : StartRun(t))
    \/ (\E n \in Names : Export(n)) \/ Crash

Next == Environment \/ \E t \in Tasks : Step(t)
Spec == Init /\ [][Next]_vars

------------------------------------------------------- (* Properties *)
(* A batch that has ended well accounts for every row of its file, each     *)
(* sale it still has was counted as added, and a file is kept no longer     *)
(* than its import; locks are held by the statements between which the code *)
(* holds them.                                                              *)
TypeOK ==
    /\ batches \in Seq(Batch) /\ disk \subseteq DOMAIN batches
    /\ \A s \in sales : s[2] \in DOMAIN batches
    /\ \A s1, s2 \in sales : s1[1] = s2[1] => s1 = s2
    /\ \A i \in DOMAIN batches :
         LET b == batches[i] IN
         /\ b.total = b.added + b.duplicate + b.skipped + b.error
         /\ (b.status = "completed" => b.total = Len(Rows[b.content]))
         /\ Cardinality({s \in sales : s[2] = i}) <= b.added
    /\ (used.mishaps = 0 /\ Busy("idle") = Tasks => disk = {})
    /\ remote \in [Names -> Listed \cup {"future", "gone"}]
    /\ Cardinality(exclusive) <= 1 /\ (exclusive # {} => shared = {})
    /\ exclusive \subseteq rfmLock /\ rfmLock \subseteq Tasks
    /\ shared \subseteq Tasks /\ runLock \subseteq Autoloads
    /\ \A t \in Autoloads : ~At(t, "idle") <=> runLock = {t}
    /\ today \in Days /\ {announced, nightly, behind} \subseteq BOOLEAN

(* A file leaves the FTP server only when every sale it tells of has been   *)
(* stored: whatever failed, was retried, crashed or ran beside it, the run  *)
(* deletes what it has imported without error and keeps the rest, under its *)
(* own name or as EROOR_.                                                   *)
Documents(c) == {Doc(s.fp) : s \in UNION {Rows[c][n].sale : n \in DOMAIN Rows[c]}}
Wrong(c)     == \E n \in DOMAIN Rows[c] : ~Rows[c][n].skip /\ Rows[c][n].sale = {}
NothingLost ==
    [][\A n \in Names : remote[n] \in Listed /\ remote'[n] \notin Listed =>
          /\ Remote[n] \in Readable /\ ~Wrong(Remote[n])
          /\ Documents(Remote[n]) \subseteq seenDocs]_vars

(* Whoever gets the source lock exclusively (a seasonality batch) can tell  *)
(* that the sales have changed: the revision has moved since the last       *)
(* change, or an unfinished batch tells it to wait, however an import ended.*)
SourceAnnounced ==
    shared = {} /\ ~announced =>
        \E i \in DOMAIN batches : batches[i].status \in {"queued", "processing"}

(* The reference for the scores, of the sales known on a day: tied values    *)
(* share the quintile of their middle, counted and not accumulated; nobody  *)
(* is new who has bought before the last 30 days.                           *)
Purchases(known, c, from, to) == {s \in known : s.client = {c} /\ s.date >= from /\ s.date <= to}
Place(x, xs, of(_)) ==
    LET less  == Cardinality({y \in xs : of(y) < of(x)})
        equal == Cardinality({y \in xs : of(y) = of(x)}) IN
    CHOOSE k \in 1 .. 5 : /\ 2 * (k - 1) * Cardinality(xs) <= (2 * less + equal) * 5
                          /\ (k = 5 \/ (2 * less + equal) * 5 < 2 * k * Cardinality(xs))
Expected(known, day) ==
    LET d    == Calendar[day]
        to   == Rfm!Day(d)
        from == IF d.m = 2 /\ d.d = 29 THEN Rfm!Day([y |-> d.y - 1, m |-> 3, d |-> 1])
                ELSE Rfm!Day([d EXCEPT !.y = @ - 1])
        own(c) == Purchases(known, c, from, to)
        cs     == {c \in UNION {s.client : s \in known} : own(c) # {}}
        last(c)  == Rfm!Max({s.date : s \in own(c)})
        times(c) == Cardinality(own(c))
        spent(c) == Rfm!MapThenSumSet(LAMBDA s : s.amount, own(c)) IN
    {[client |-> c, r |-> Place(c, cs, last), f |-> Place(c, cs, times),
      m |-> Place(c, cs, spent),
      fresh |-> Purchases(known, c, 0, to - 31) = {}] : c \in cs}
Agrees(clients, known, day) ==
    /\ Cardinality(clients) = Cardinality(Expected(known, day))
    /\ \A x \in Expected(known, day) : \E y \in clients :
         /\ x.client = y.client /\ x.r = y.r /\ x.f = y.f /\ x.m = y.m
         /\ (y.segment = "new" => x.fresh)

(* What a rebuild without interruption makes of the sales known on a day,   *)
(* and that its scores are those of the reference whatever is known.        *)
Segments(known, day) ==
    LET period == Rfm!SnapshotPeriod(Calendar[day]) IN
    Rfm!Enrich(Rfm!RfmRows(Rfm!Current(known, period), Rfm!History(known, period), period))
ScoresAgree(ledger) ==
    \A known \in SUBSET ledger, day \in Days : Agrees(Segments(known, day), known, day)

(* When everything has come to rest and nothing failed or died, the active  *)
(* snapshot is that of the sales there are: no rebuild was coalesced with a *)
(* snapshot read before its import ended, or overtaken by an older one.     *)
SnapshotCatchesUp ==
    Busy("idle") = Tasks /\ ~behind =>
        IF snapshot = {} THEN sales = {}
        ELSE \A s \in snapshot : Agrees(s.clients, Known(sales), s.day)

(* Everybody who waits for a lock waits for somebody who can go on: an      *)
(* import gives its source lock back before it asks for a rebuild, and the  *)
(* two locks of a rebuild are taken in one order.                           *)
Blocked(t) ==
    \/ At(t, "lock") /\ exclusive # {}
    \/ At(t, "rfm") /\ rfmLock # {}
    \/ At(t, "source") /\ (shared \cup exclusive # {})
NobodyStuck ==
    Busy("idle") # Tasks => \E t \in Tasks \ Busy("idle") : ~Blocked(t)
=============================================================================
