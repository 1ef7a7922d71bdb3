----------------------------- MODULE ChurnDelivery -----------------------------
(***************************************************************************)
(* The permanent churn automation: once a day a job calculates a run, turns  *)
(* it into a release under three approved policies and hands the release's   *)
(* events, page by page, to the task service, whose answers are kept in a    *)
(* ledger.  A host script that systemd starts every five minutes drives it   *)
(* by commands executed in the backend and at the receiver, and may stop     *)
(* anywhere; operators, imports and the calendar change everything else.     *)
(*                                                                          *)
(* A backend command is one transaction, hence one step; tick is several.    *)
(* The receiver decides on each event of a page in a transaction of its own. *)
(***************************************************************************)
EXTENDS Sql, Integers, Sequences

CONSTANTS
    NumClients,     \* clients with a reviewed identity are 1..NumClients
    FirstDay, LastDay, \* bound: today moves from one to the other
    PageSize,       \* events of a page (25)
    PagesPerRun,    \* pages of one host run (4)
    MaxAttempts,    \* failed attempts after which a job has failed (3)
    DailyLimit,     \* new tasks a day, of both permanent policies
    Cooldown,       \* days between two tasks of a client
    MaxMoves        \* bound on what happens around the host's work

Clients == 1..NumClients
Days    == FirstDay..LastDay
Kinds   == {"daily", "diagnostic"}

ASSUME ChurnAssumption ==
    /\ {NumClients, FirstDay, LastDay, PageSize, PagesPerRun, MaxAttempts, DailyLimit}
          \subseteq Nat \ {0}
    /\ FirstDay <= LastDay /\ Cooldown \in Nat /\ MaxMoves \in Nat

VARIABLES
    today, due,     \* Moscow's date; its HH:MM is past the policy's time
    source,         \* seasonality_state.source_revision, an import is pending
    bought,         \* day of each client's last purchase
    binding,        \* analytics_automation_identities
    native,         \* analytics_automation_policy
    schedule,       \* churn_schedule
    receiver,       \* analytics_permanent_policy at the receiver
    checkpoint,     \* the unfinished run of the signal worker
    runs, published,\* its completed runs, and the one it points at
    jobs,           \* churn_jobs with their churn_receipts
    releases,       \* analytics_automation_releases with their events
    tasks,          \* the receiver's tasks, by the signal they were created for
    host,           \* the host script: where it is and its local variables
    orphan,         \* an ack command whose caller has given up
    late,           \* tasks made since the last page that was current when served
    moves           \* bound: what has happened around the host's work

worldVars  == <<today, due, source, bought, binding>>
policyVars == <<native, schedule, receiver>>
runVars    == <<checkpoint, runs, published>>
vars == <<worldVars, policyVars, runVars, jobs, releases, tasks, host, orphan, late, moves>>

None  == 0
NoJob == [status |-> "none"]
NewJob(revision) == [status |-> "QUEUED", policy |-> revision, run |-> None, release |-> None,
                     allowed |-> 0, attempts |-> 0, delayed |-> FALSE, receipts |-> <<>>]
NoRun == [asOf |-> None, revision |-> 0]
Idle  == [pc |-> "off", job |-> <<None, "daily">>, page |-> {}, receipts |-> <<>>, pages |-> 0]

Calculable == {"QUEUED", "CALCULATING"}
Releasable == {"AWAITING_EVIDENCE", "BLOCKED"}
Sendable   == {"RELEASED", "DELIVERING"}
Terminal   == {"SUCCEEDED", "PARTIAL", "DIAGNOSED"}

(* Rows are added to a table under their keys; those it has stay.            *)
Added(table, rows) ==
    [k \in DOMAIN table \union DOMAIN rows |-> IF k \in DOMAIN table THEN table[k] ELSE rows[k]]

(* Everything is approved and on, as the operators leave it before the first day. *)
Init ==
    /\ today = FirstDay /\ due = FALSE
    /\ source = [revision |-> 1, pending |-> FALSE]
    /\ bought = [c \in Clients |-> 0]
    /\ binding = [c \in Clients |-> [revision |-> 1, verified |-> TRUE]]
    /\ native = [revision |-> 2, on |-> TRUE]
    /\ schedule = [revision |-> 2, approved |-> TRUE, enabled |-> TRUE, producer |-> 2, receiver |-> 2]
    /\ receiver = [revision |-> 2, approved |-> TRUE, enabled |-> TRUE, producer |-> 2]
    /\ checkpoint = NoRun /\ runs = <<>> /\ published = None
    /\ jobs = [k \in Days \X Kinds |-> NoJob]
    /\ releases = <<>> /\ tasks = <<>>
    /\ host = Idle /\ orphan = Idle /\ late = 0 /\ moves = 0

Move == moves < MaxMoves /\ moves' = moves + 1

-----------------------------------------------------------------------------
(* The calendar, the imports and the identities. *)

PassDay ==
    /\ Move /\ today < LastDay
    /\ today' = today + 1 /\ due' = FALSE
    /\ UNCHANGED <<source, bought, binding, policyVars, runVars, jobs, releases, tasks, host, orphan, late>>

BecomeDue ==
    /\ ~due /\ due' = TRUE
    /\ UNCHANGED <<today, source, bought, binding, policyVars, runVars, jobs, releases, tasks, host,
                   orphan, late, moves>>

StartImport ==
    /\ ~source.pending /\ Move /\ source' = [source EXCEPT !.pending = TRUE]
    /\ UNCHANGED <<today, due, bought, binding, policyVars, runVars, jobs, releases, tasks, host, orphan, late>>

(* It brings a purchase of yesterday, the last day a run may speak of.       *)
FinishImport ==
    /\ source.pending /\ source' = [revision |-> source.revision + 1, pending |-> FALSE]
    /\ \E c \in Clients : bought' = [bought EXCEPT ![c] = today - 1]
    /\ UNCHANGED <<today, due, binding, policyVars, runVars, jobs, releases, tasks, host, orphan, late, moves>>

ReviewIdentity ==
    /\ Move
    /\ \E c \in Clients, verified \in BOOLEAN :
           binding' = [binding EXCEPT ![c] = [revision |-> @.revision + 1, verified |-> verified]]
    /\ UNCHANGED <<today, due, source, bought, policyVars, runVars, jobs, releases, tasks, host, orphan, late>>

(* A release's proof runs out. *)
Expire ==
    /\ Move
    /\ \E r \in DOMAIN releases : releases[r].valid /\ releases' = [releases EXCEPT ![r].valid = FALSE]
    /\ UNCHANGED <<worldVars, policyVars, runVars, jobs, tasks, host, orphan, late>>

-----------------------------------------------------------------------------
(* The three policies.  A command that names another revision than the       *)
(* present one is refused.                                                   *)

Operators == UNCHANGED <<worldVars, runVars, jobs, releases, tasks, host, orphan, late>>

NativePolicy ==
    /\ Move /\ Operators /\ UNCHANGED <<schedule, receiver>>
    /\ \/ native' = [revision |-> native.revision + 1, on |-> FALSE]     \* draft, revoke
       \/ native' = [revision |-> native.revision + 1, on |-> TRUE]      \* approve

DraftSchedule ==
    /\ Move /\ Operators /\ UNCHANGED <<native, receiver>>
    /\ schedule' = [revision |-> schedule.revision + 1, approved |-> FALSE, enabled |-> FALSE,
                    producer |-> native.revision, receiver |-> receiver.revision]

ApproveSchedule ==
    /\ Move /\ Operators /\ UNCHANGED <<native, receiver>>
    /\ schedule' = [schedule EXCEPT !.revision = @ + 1, !.approved = TRUE, !.enabled = FALSE]

EnableSchedule ==
    /\ schedule.approved /\ ~schedule.enabled /\ Move /\ Operators /\ UNCHANGED <<native, receiver>>
    /\ schedule' = [schedule EXCEPT !.enabled = TRUE]

DisableSchedule ==
    /\ schedule.enabled /\ Move /\ Operators /\ UNCHANGED <<native, receiver>>
    /\ schedule' = [schedule EXCEPT !.enabled = FALSE]

(* saveAnalyticsPermanentPolicy: draft, approve, enable and disable.         *)
ReceiverPolicy ==
    /\ Move /\ Operators /\ UNCHANGED <<native, schedule>>
    /\ \/ receiver' = [revision |-> receiver.revision + 1, approved |-> FALSE, enabled |-> FALSE,
                       producer |-> schedule.revision]
       \/ receiver' = [receiver EXCEPT !.revision = @ + 1, !.approved = TRUE, !.enabled = FALSE]
       \/ /\ receiver.approved \/ receiver.enabled
          /\ receiver' = [receiver EXCEPT !.enabled = ~@]

(* The web's diagnostic job; an earlier one of the day is found again.       *)
Diagnose ==
    /\ jobs[<<today, "diagnostic">>] = NoJob /\ Move
    /\ jobs' = [jobs EXCEPT ![<<today, "diagnostic">>] = NewJob(schedule.revision)]
    /\ UNCHANGED <<worldVars, policyVars, runVars, releases, tasks, host, orphan, late>>

-----------------------------------------------------------------------------
(* What a release is made of and when it is current. *)

Yesterday == today - 1

(* guard_job: a job's policy is in force, and it is the job of today.        *)
Guarded(key) ==
    /\ key[2] = "daily" => /\ schedule.enabled /\ schedule.approved
                           /\ schedule.revision = jobs[key].policy
    /\ key[1] = today

(* current_release *)
Current(r) ==
    LET release == releases[r]
    IN  /\ native.on /\ release.native = native.revision
        /\ release.schedule # None => /\ schedule.enabled /\ schedule.approved
                                      /\ release.schedule = schedule.revision
        /\ release.revision = source.revision /\ ~source.pending
        /\ release.valid /\ release.asOf = Yesterday
        /\ \A c \in DOMAIN release.anchors :
               binding[c].verified /\ binding[c].revision = release.guards[c]

(* release_churn: whom a run of the last closed day still lets one contact.  *)
AtRisk(run) == {c \in Clients : run.asOf > bought[c]}
Ready(run)  == {c \in AtRisk(run) : binding[c].verified}

Refused(r) ==
    \/ ~native.on \/ r # published
    \/ runs[r].asOf # Yesterday
    \/ runs[r].revision # source.revision \/ source.pending
    \/ Ready(runs[r]) = {}

NewRelease(r, policy) ==
    [run |-> r, asOf |-> runs[r].asOf, revision |-> runs[r].revision, native |-> native.revision,
     schedule |-> policy, receiver |-> schedule.receiver, valid |-> TRUE,
     anchors |-> [c \in Ready(runs[r]) |-> bought[c]],
     guards |-> [c \in Ready(runs[r]) |-> binding[c].revision]]

(* The operator's own release: it carries no permanent policy, and leaves    *)
(* the run without another.                                                  *)
ReleaseByHand ==
    /\ published # None /\ ~Refused(published) /\ Move
    /\ \A r \in DOMAIN releases : releases[r].run # published
    /\ releases' = Append(releases, NewRelease(published, None))
    /\ UNCHANGED <<worldVars, policyVars, runVars, jobs, tasks, host, orphan, late>>

-----------------------------------------------------------------------------
(* tick: the day's job and its calculation. *)

At(pc) == host.pc = pc
Goto(pc) == host' = [host EXCEPT !.pc = pc]
Stop == host' = Idle
HostOnly == UNCHANGED <<worldVars, policyVars, orphan, late, moves>>

(* The timer starts the script; its lock keeps a second one out.             *)
Wake ==
    /\ At("off") /\ Goto("tick") /\ HostOnly /\ UNCHANGED <<runVars, jobs, releases, tasks>>

Key(kind) == <<today, kind>>

(* enqueue, and which job is to be calculated; without a daily job a         *)
(* diagnostic one may be.                                                    *)
Tick ==
    /\ At("tick") /\ HostOnly /\ UNCHANGED <<runVars, releases, tasks>>
    /\ IF schedule.approved /\ schedule.enabled /\ due
       THEN LET job == IF jobs[Key("daily")] = NoJob THEN NewJob(schedule.revision) ELSE jobs[Key("daily")]
            IN  /\ jobs' = [jobs EXCEPT ![Key("daily")] = job]
                /\ host' = [host EXCEPT !.job = Key("daily"),
                                        !.pc = IF job.status \in Calculable THEN "calculate" ELSE "choose"]
       ELSE /\ UNCHANGED jobs
            /\ host' = [host EXCEPT !.job = Key("diagnostic"),
                          !.pc = IF jobs[Key("diagnostic")].status \in Calculable THEN "calculate" ELSE "choose"]

Recorded(status, run) == [jobs EXCEPT ![host.job].status = status, ![host.job].run = run]

(* One round of calculate: the guard, a batch of the signal worker in its    *)
(* own transaction ...                                                       *)
Fresh(run) == run.asOf = Yesterday /\ run.revision = source.revision /\ ~source.pending

RunBatch ==
    /\ At("calculate") /\ Guarded(host.job) /\ HostOnly /\ UNCHANGED <<jobs, releases, tasks>>
    /\ \/ /\ checkpoint # NoRun
          /\ checkpoint' = NoRun
          /\ IF checkpoint.revision = source.revision /\ ~source.pending
             THEN runs' = Append(runs, checkpoint) /\ published' = Len(runs) + 1 /\ Goto("SUCCEEDED")
             ELSE UNCHANGED <<runs, published>> /\ Goto("BLOCKED")               \* superseded
       \/ /\ checkpoint = NoRun /\ source.pending
          /\ UNCHANGED runVars /\ Goto("BLOCKED")
       \/ /\ checkpoint = NoRun /\ published # None /\ Fresh(runs[published])
          /\ UNCHANGED runVars /\ Goto("SUCCEEDED")
       \/ /\ checkpoint = NoRun /\ ~source.pending
          /\ published # None => ~Fresh(runs[published])
          /\ checkpoint' = [asOf |-> Yesterday, revision |-> source.revision]
          /\ UNCHANGED <<runs, published>> /\ Goto("RUNNING")

(* ... and what it makes of the job in another.  A run of an earlier day is  *)
(* only the way to today's.                                                  *)
RecordBatch ==
    /\ host.pc \in {"RUNNING", "SUCCEEDED", "BLOCKED"} /\ HostOnly /\ UNCHANGED <<runVars, releases, tasks>>
    /\ \/ /\ At("SUCCEEDED") /\ runs[published].asOf = host.job[1] - 1
          /\ jobs' = Recorded(IF host.job[2] = "daily" THEN "AWAITING_EVIDENCE" ELSE "DIAGNOSED", published)
          /\ Goto("choose")
       \/ /\ \/ At("RUNNING")
             \/ At("SUCCEEDED") /\ runs[published].asOf # host.job[1] - 1
          /\ jobs' = Recorded("CALCULATING", None) /\ Goto("calculate")
       \/ /\ At("BLOCKED") /\ jobs' = Recorded("BLOCKED", None) /\ Goto("choose")

(* The guard refuses, or the time of the command is over. *)
EndCalculation ==
    /\ At("calculate") /\ UNCHANGED <<worldVars, policyVars, runVars, jobs, releases, tasks, orphan, late>>
    /\ \/ ~Guarded(host.job) /\ Stop /\ UNCHANGED moves
       \/ Move /\ Goto("choose")

-----------------------------------------------------------------------------
(* The host works on the day's job. *)

Choose ==
    /\ At("choose") /\ HostOnly /\ UNCHANGED <<runVars, jobs, releases, tasks>>
    /\ LET job == jobs[Key("daily")]
       IN  IF job.status \in Releasable \union Sendable /\ ~job.delayed
           THEN host' = [host EXCEPT !.job = Key("daily"),
                           !.pc = IF job.status \in Releasable THEN "authorize" ELSE "page"]
           ELSE Stop

(* authorize with release_churn and attach: one transaction.  What it raises *)
(* rolls it back and is a failure of the host's run.                         *)
Authorize ==
    /\ At("authorize") /\ HostOnly /\ UNCHANGED <<runVars, tasks>>
    /\ LET job == jobs[host.job]
           earlier == {r \in DOMAIN releases : releases[r].run = job.run}
           permitted == /\ Guarded(host.job) /\ job.status \in Releasable /\ job.run # None
                        /\ native.revision = schedule.producer
       IN  \/ /\ permitted /\ earlier = {} /\ ~Refused(job.run)
              /\ releases' = Append(releases, NewRelease(job.run, job.policy))
              /\ jobs' = [jobs EXCEPT ![host.job] = [@ EXCEPT !.status = "RELEASED",
                            !.release = Len(releases) + 1, !.allowed = Cardinality(Ready(runs[job.run]))]]
              /\ Goto("page")
           \/ /\ permitted /\ (Refused(job.run) \/ earlier # {})
              /\ jobs' = [jobs EXCEPT ![host.job].status = "BLOCKED"]
              /\ UNCHANGED releases /\ Goto("failing")
           \/ /\ permitted => earlier # {}
              /\ UNCHANGED <<jobs, releases>> /\ Goto("failing")

Pending(key) ==
    {c \in DOMAIN releases[jobs[key].release].anchors : c \notin DOMAIN jobs[key].receipts}

(* Mutant of Servable: the release is taken to be current for good.          *)
ServableWhileGuarded(key) == Guarded(key)

(* page: served only while guard_job and current_release hold.               *)
Servable(key) == Guarded(key) /\ Current(jobs[key].release)

Page ==
    /\ At("page") /\ UNCHANGED <<worldVars, policyVars, runVars, jobs, releases, tasks, orphan, moves>>
    /\ LET key == host.job
       IN  IF jobs[key].status \notin Sendable THEN Stop /\ UNCHANGED late
           ELSE IF ~Servable(key) THEN Goto("failing") /\ UNCHANGED late
           ELSE /\ IF Pending(key) = {} THEN Stop
                   ELSE host' = [host EXCEPT !.pc = "deliver", !.page = First(Pending(key), PageSize),
                                             !.receipts = <<>>]
                /\ late' = IF Guarded(key) /\ Current(jobs[key].release) THEN 0 ELSE late

-----------------------------------------------------------------------------
(* The receiver. *)

(* analyticsPermanentPolicy: the event names the policy in force on both sides. *)
Accepts(release) ==
    /\ receiver.approved /\ receiver.enabled
    /\ release.receiver = receiver.revision /\ release.schedule = receiver.producer

(* analyticsPermanentBudget: the day's limit, and nobody is asked to call a  *)
(* client again before the client has bought again and time has passed.      *)
WithinBudget(signal) ==
    /\ Cardinality({t \in DOMAIN tasks : tasks[t].day = today}) < DailyLimit
    /\ \A t \in DOMAIN tasks : t[1] = signal[1] =>
          signal[2] > t[2] /\ today >= tasks[t].day + Cooldown

(* created_for_release: the task's own evidence names this release.          *)
CreatedFor(decision, by, r) == by = r

(* processAnalyticsEvent: check, reservation and task in one transaction.    *)
DeliverEvent ==
    /\ At("deliver") /\ host.page # DOMAIN host.receipts
    /\ UNCHANGED <<worldVars, policyVars, runVars, jobs, releases, orphan, moves>>
    /\ LET r == jobs[host.job].release
           c == CHOOSE d \in host.page \ DOMAIN host.receipts :
                    \A e \in host.page \ DOMAIN host.receipts : d <= e
           signal   == <<c, releases[r].anchors[c]>>
           existing == signal \in DOMAIN tasks
           created  == Accepts(releases[r]) /\ ~existing /\ WithinBudget(signal)
           after    == IF created THEN Added(tasks, [s \in {signal} |-> [release |-> r, day |-> today]])
                      ELSE tasks
           known    == signal \in DOMAIN after
           decision == IF created THEN "TASK_CREATED"
                       ELSE IF Accepts(releases[r]) /\ existing THEN "TASK_EXISTS" ELSE "BLOCKED"
       IN  /\ tasks' = after
           /\ late' = IF created /\ ~(Guarded(host.job) /\ Current(r)) THEN late + 1 ELSE late
           /\ host' = [host EXCEPT !.receipts = Added(@, [d \in {c} |->
                         [decision |-> decision, task |-> known,
                          created |-> known /\ CreatedFor(decision, after[signal].release, r)]])]

Delivered ==
    /\ At("deliver") /\ host.page = DOMAIN host.receipts /\ Goto("ack")
    /\ HostOnly /\ UNCHANGED <<runVars, jobs, releases, tasks>>

-----------------------------------------------------------------------------
(* The ledger. *)

Agreed == {"TASK_CREATED", "TASK_EXISTS"}
Contradicts(old, new) ==
    \/ old.task # new.task \/ old.created # new.created
    \/ old.decision # new.decision /\ {old.decision, new.decision} # Agreed

(* acknowledge: all receipts of the page or none.  It asks neither for the   *)
(* policy nor for the day: what has happened is recorded.                    *)
Acceptable(key, receipts) ==
    \A c \in DOMAIN receipts \intersect DOMAIN jobs[key].receipts :
        ~Contradicts(jobs[key].receipts[c], receipts[c])

Accepted(receipts) == {c \in DOMAIN receipts : receipts[c].decision \in Agreed}

Acknowledged(key, receipts) ==
    LET all == Added(jobs[key].receipts, receipts)
    IN  [jobs EXCEPT ![key].receipts = all,
                     ![key].status = IF Cardinality(DOMAIN all) # jobs[key].allowed THEN "DELIVERING"
                                     ELSE IF Accepted(all) = DOMAIN all THEN "SUCCEEDED" ELSE "PARTIAL"]

Ack ==
    /\ At("ack") /\ HostOnly /\ UNCHANGED <<runVars, releases, tasks>>
    /\ LET key == host.job
       IN  IF ~Acceptable(key, host.receipts) THEN Goto("failing") /\ UNCHANGED jobs
           ELSE /\ jobs' = Acknowledged(key, host.receipts)
                /\ IF jobs'[key].status \in {"SUCCEEDED", "PARTIAL"} \/ host.pages + 1 = PagesPerRun
                   THEN Stop
                   ELSE host' = [host EXCEPT !.pc = "page", !.page = {}, !.receipts = <<>>, !.pages = @ + 1]

(* A command whose caller is gone still runs to its end in the backend.      *)
AckOrphan ==
    /\ orphan # Idle /\ orphan' = Idle
    /\ jobs' = IF Acceptable(orphan.job, orphan.receipts)
               THEN Acknowledged(orphan.job, orphan.receipts) ELSE jobs
    /\ UNCHANGED <<worldVars, policyVars, runVars, releases, tasks, host, late, moves>>

-----------------------------------------------------------------------------
(* Failures and retries. *)

Working == {"authorize", "page", "deliver", "ack"}
Abandon ==
    \/ orphan' = orphan
    \/ At("ack") /\ orphan = Idle /\ orphan' = [host EXCEPT !.pc = "orphan", !.page = {}, !.pages = 0]

(* A call fails, or its answer is lost after it was executed.                *)
HostFails ==
    /\ host.pc \in Working /\ Move /\ Abandon /\ Goto("failing")
    /\ UNCHANGED <<worldVars, policyVars, runVars, jobs, releases, tasks, late>>

(* The script is killed, with the receiver's process but not the backend's.  *)
Crash ==
    /\ ~At("off") /\ Move /\ Abandon /\ Stop
    /\ UNCHANGED <<worldVars, policyVars, runVars, jobs, releases, tasks, late>>

(* Mutant of Failed: attempts are not counted.                               *)
FailedUncounted(job) == IF job.status \in Terminal THEN job ELSE [job EXCEPT !.delayed = TRUE]

(* Mutant of Failed: a failure is recorded whatever the job has become.      *)
FailedBlindly(job) ==
    [job EXCEPT !.attempts = @ + 1, !.delayed = TRUE,
                !.status = IF job.attempts + 1 >= MaxAttempts THEN "FAILED" ELSE @]

(* The failure command. *)
Failed(job) ==
    IF job.status \in Terminal THEN job
    ELSE [job EXCEPT !.attempts = @ + 1, !.delayed = TRUE,
                     !.status = IF job.attempts + 1 >= MaxAttempts THEN "FAILED" ELSE @]

RecordFailure ==
    /\ At("failing") /\ Stop /\ HostOnly /\ UNCHANGED <<runVars, releases, tasks>>
    /\ jobs' = [jobs EXCEPT ![host.job] = Failed(@)]

DelayPasses ==
    /\ \E k \in DOMAIN jobs :
          /\ jobs[k] # NoJob /\ jobs[k].delayed
          /\ jobs' = [jobs EXCEPT ![k].delayed = FALSE]
    /\ UNCHANGED <<worldVars, policyVars, runVars, releases, tasks, host, orphan, late, moves>>

(* Mutant of Retry: what failed is always sent again.                        *)
RetryAsReleased ==
    /\ \E kind \in Kinds :
          /\ jobs[Key(kind)].status \in {"FAILED", "BLOCKED"} /\ Guarded(Key(kind))
          /\ jobs' = [jobs EXCEPT ![Key(kind)] = [@ EXCEPT !.attempts = 0, !.delayed = FALSE,
                                                          !.status = "RELEASED"]]
    /\ Move
    /\ UNCHANGED <<worldVars, policyVars, runVars, releases, tasks, host, orphan, late>>

(* The operator's retry of today's job. *)
Retry ==
    /\ \E kind \in Kinds :
          LET key == Key(kind)
          IN  /\ jobs[key].status \in {"FAILED", "BLOCKED"} /\ Guarded(key)
              /\ jobs' = [jobs EXCEPT ![key] = [@ EXCEPT !.attempts = 0, !.delayed = FALSE,
                            !.status = IF jobs[key].release = None THEN "QUEUED" ELSE "RELEASED"]]
    /\ Move
    /\ UNCHANGED <<worldVars, policyVars, runVars, releases, tasks, host, orphan, late>>

-----------------------------------------------------------------------------
World == PassDay \/ BecomeDue \/ StartImport \/ FinishImport \/ ReviewIdentity \/ Expire
Policies ==
    NativePolicy \/ DraftSchedule \/ ApproveSchedule \/ EnableSchedule \/ DisableSchedule
    \/ ReceiverPolicy \/ Diagnose \/ ReleaseByHand \/ Retry
Work ==
    Tick \/ RunBatch \/ RecordBatch \/ EndCalculation \/ Choose \/ Authorize \/ Page \/ DeliverEvent
    \/ Delivered \/ Ack \/ RecordFailure
Next == World \/ Policies \/ Wake \/ Work \/ HostFails \/ Crash \/ AckOrphan \/ DelayPasses

(* systemd starts the script again and again and lets it work; time passes.  *)
Fairness == WF_vars(Wake) /\ WF_vars(Work) /\ WF_vars(DelayPasses) /\ WF_vars(BecomeDue)

Spec == Init /\ [][Next]_vars /\ Fairness
-----------------------------------------------------------------------------
Decisions == Agreed \union {"BLOCKED"}
Receipts  == [decision : Decisions, task : BOOLEAN, created : BOOLEAN]
Statuses  == Calculable \union Releasable \union Sendable \union Terminal \union {"FAILED"}
Pcs == {"off", "tick", "calculate", "RUNNING", "SUCCEEDED", "BLOCKED", "choose", "authorize",
        "page", "deliver", "ack", "failing", "orphan"}
IsPartial(f, S, T) == DOMAIN f \subseteq S /\ \A x \in DOMAIN f : f[x] \in T

(* Values keep their types; a job names a release exactly while or after it  *)
(* delivers (churn_jobs.release_id), and its receipts are for that release.  *)
TypeOK ==
    /\ today \in Days /\ due \in BOOLEAN /\ moves \in 0..MaxMoves /\ late \in Nat
    /\ published \in 0..Len(runs)
    /\ \A r \in DOMAIN releases : releases[r].run \in DOMAIN runs
    /\ \A k \in Days \X Kinds : jobs[k] # NoJob =>
          /\ jobs[k].status \in Statuses /\ jobs[k].attempts \in Nat
          /\ jobs[k].run \in 0..Len(runs) /\ jobs[k].release \in 0..Len(releases)
          /\ jobs[k].status \in Sendable \union {"SUCCEEDED", "PARTIAL"} => jobs[k].release # None
          /\ jobs[k].release = None => jobs[k].receipts = <<>>
          /\ jobs[k].release # None =>
                IsPartial(jobs[k].receipts, DOMAIN releases[jobs[k].release].anchors, Receipts)
    /\ \A h \in {host, orphan} :
          h.pc \in Pcs /\ h.page \subseteq Clients /\ IsPartial(h.receipts, Clients, Receipts)
          /\ h.pages \in 0..PagesPerRun

(* What the ledger says is so at the receiver, whatever was lost or sent     *)
(* twice: an accepted event has its task, the task is counted as created by  *)
(* this release exactly when it was, and a job that SUCCEEDED has a task for *)
(* every event of its release (churn_schedule.acknowledge,                   *)
(* analytics_permanent_cli.php created_for_release).                         *)
LedgerIsTrue ==
    \A k \in DOMAIN jobs : jobs[k] # NoJob /\ jobs[k].release # None =>
        LET r == jobs[k].release
            Signal(c) == <<c, releases[r].anchors[c]>>
            receipts == jobs[k].receipts
        IN  /\ \A c \in DOMAIN receipts :
                  /\ receipts[c].decision \in Agreed => Signal(c) \in DOMAIN tasks
                  /\ receipts[c].task => /\ Signal(c) \in DOMAIN tasks
                                         /\ receipts[c].created <=> tasks[Signal(c)].release = r
            /\ jobs[k].status = "SUCCEEDED" =>
                  \A c \in DOMAIN releases[r].anchors : Signal(c) \in DOMAIN tasks

(* Disabling or changing a policy, an import, a new review of an identity,   *)
(* the end of the proof or of the day stop the next page: only the page then *)
(* in flight may still become tasks (churn_schedule.page: guard_job and      *)
(* current_release before every page).                                       *)
OnlyThePageInFlight == late <= PageSize

(* A job that has ended is never opened again, not by a late answer, a       *)
(* failure, a retry nor the next tick, and its ledger is closed.  One that    *)
(* has failed has not ended: a retry may reopen it, and so may a late answer. *)
TerminalStays ==
    [][\A k \in DOMAIN jobs : jobs[k].status \in Terminal =>
          jobs'[k].status = jobs[k].status
          /\ (jobs[k].status # "DIAGNOSED" => jobs'[k].receipts = jobs[k].receipts)]_vars

(* What is written down about a day's tasks is true and, once its job has    *)
(* ended, final (acknowledge).                                               *)
LedgerStaysTrue == []LedgerIsTrue /\ TerminalStays

(* While transmission stays on, the day gets its job, and a job of the       *)
(* policy in force ends: delivered, or failed for the operator to see, never *)
(* resumed, refused or waiting for ever.                                     *)
Served ==
    schedule.approved /\ schedule.enabled =>
        /\ jobs[Key("daily")] # NoJob
        /\ jobs[Key("daily")].policy = schedule.revision =>
              jobs[Key("daily")].status \in Terminal \union {"FAILED"}
JobComesToRest == <>[]Served
=============================================================================
