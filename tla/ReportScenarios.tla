---------------------------- MODULE ReportScenarios ----------------------------
(***************************************************************************)
(* services/scenarios.py: the hourly scheduler of every backend process    *)
(* mails the HoReCa report of each enabled scenario on its report days, one *)
(* transaction per scenario under an advisory lock.  Beside it people test, *)
(* change and remove scenarios (routers/settings.py).                      *)
(***************************************************************************)
EXTENDS Integers, FiniteSets

CONSTANTS
    Scenarios, Processes,
    DayLength,     \* hours of a day
    ReportDays,    \* the 14th and the 28th
    MaxHour, MaxFailures, MaxTests

ASSUME ScenarioAssumption ==
    DayLength \in Nat \ {0} /\ ReportDays \subseteq Nat
        /\ MaxHour \in Nat /\ MaxFailures \in Nat /\ MaxTests \in Nat /\ "nobody" \notin Processes

VARIABLES
    hour,
    scenario,      \* the committed row of each scenario, or Removed
    runs,          \* its committed ScenarioRun rows
    pass,          \* what the scheduler of each process does
    locked,        \* the process that has each scenario's advisory lock
    removal,       \* the DELETE under way on each scenario
    test,          \* the manual test under way of each scenario
    sent, lost,    \* mails of each scheduled date; those not recorded as sent
    failures, tests

scenarioVars == <<hour, scenario, runs, pass, locked, removal, test, sent, lost, failures, tests>>

Nobody  == "nobody"
Removed == [enabled |-> FALSE, recipients |-> FALSE, exists |-> FALSE]
Rows    == {r \in [enabled : BOOLEAN, recipients : BOOLEAN, exists : {TRUE}] :
              r.enabled => r.recipients}
Days    == 0..(MaxHour \div DayLength)
Day(h)  == h \div DayLength
NoTest  == [pc |-> "none"]
NoDelete == [by |-> Nobody, held |-> FALSE]

Asleep(h)  == [pc |-> "asleep", wake |-> h]
Run(type, date, status, at) == [type |-> type, date |-> date, status |-> status, at |-> at]

ScenarioInit ==
    /\ hour = 0 /\ failures = 0 /\ tests = 0
    /\ scenario = [s \in Scenarios |-> [enabled |-> TRUE, recipients |-> TRUE, exists |-> TRUE]]
    /\ runs = [s \in Scenarios |-> {}]
    /\ pass = [p \in Processes |-> Asleep(0)]
    /\ locked = [s \in Scenarios |-> Nobody]
    /\ removal = [s \in Scenarios |-> NoDelete]
    /\ test = [s \in Scenarios |-> NoTest]
    /\ sent = [s \in Scenarios |-> [d \in Days |-> 0]]
    /\ lost = [s \in Scenarios |-> [d \in Days |-> 0]]

At(p, l) == pass[p].pc = l
Go(p, l) == pass' = [pass EXCEPT ![p].pc = l]

(* Whether p has uncommitted rows of s, and the processes that have.        *)
Writes(p, s) == pass[p].pc \in {"report", "mail", "commit"} /\ pass[p].id = s
Writers(s)   == {p \in Processes : Writes(p, s)}

------------------------------------------------ (* The plan of a pass *)
(* report_period: each report day stands for the fortnight it closes.       *)
ReportPeriod(day) == {day} \cap ReportDays

(* The scheduled run with the greatest date: at most one row per date.      *)
Latest(s) ==
    {r \in runs[s] : r.type = "scheduled"
        /\ \A q \in runs[s] : q.type = "scheduled" => q.date <= r.date}

(* scheduled_run_plan: the latest one again while it has failed, an hour     *)
(* after its last attempt; otherwise today's, unless there is one.          *)
Retried(now, latest) ==
    {r.date : r \in {q \in latest : q.status # "completed" /\ now - q.at >= 1}}
ScheduledRunPlan(now, latest) ==
    IF \E r \in latest : r.status # "completed"
    THEN Retried(now, latest)
    ELSE ReportPeriod(Day(now)) \ {r.date : r \in latest}

------------------------------------------------------------ (* The pass *)
(* The enabled scenarios are read at once, before any lock is waited for.   *)
Wake(p) ==
    /\ At(p, "asleep") /\ pass[p].wake <= hour
    /\ pass' = [pass EXCEPT ![p] =
                  [pc |-> "next", now |-> hour, todo |-> {s \in Scenarios : scenario[s].enabled},
                   id |-> Nobody, date |-> 0, retry |-> FALSE, status |-> "running"]]
    /\ UNCHANGED <<hour, scenario, runs, locked, removal, test, sent, lost, failures, tests>>

Sleep(p) ==
    /\ At(p, "next") /\ pass[p].todo = {}
    /\ pass' = [pass EXCEPT ![p] = Asleep(hour + 1)]
    /\ UNCHANGED <<hour, scenario, runs, locked, removal, test, sent, lost, failures, tests>>

(* What the plan makes of scenario s: nothing, or a run, a new one or the    *)
(* latest again.                                                            *)
Planned(p, s) ==
    LET plan == ScheduledRunPlan(pass[p].now, Latest(s)) IN
    IF plan = {} THEN [pass[p] EXCEPT !.todo = @ \ {s}]
    ELSE [pass[p] EXCEPT !.pc = "flush", !.id = s, !.todo = @ \ {s},
                         !.date = CHOOSE d \in plan : TRUE,
                         !.retry = \E r \in Latest(s) : r.date \in plan]

(* Mutant of TakeUp: the schedulers of two processes are not serialized.     *)
TakeUpUnlocked(p) ==
    /\ At(p, "next")
    /\ \E s \in pass[p].todo : pass' = [pass EXCEPT ![p] = Planned(p, s)]
    /\ UNCHANGED <<hour, scenario, runs, locked, removal, test, sent, lost, failures, tests>>

(* pg_advisory_xact_lock, then the latest run and the plan; without one the  *)
(* commit releases the lock.                                                *)
TakeUp(p) ==
    /\ At(p, "next")
    /\ \E s \in pass[p].todo :
         /\ locked[s] = Nobody
         /\ pass' = [pass EXCEPT ![p] = Planned(p, s)]
         /\ locked' = [locked EXCEPT ![s] = IF Planned(p, s).pc = "flush" THEN p ELSE Nobody]
    /\ UNCHANGED <<hour, scenario, runs, removal, test, sent, lost, failures, tests>>

(* The end of a pass by an exception: the transaction is rolled back, and    *)
(* what is still to do waits for the next one.                              *)
Release(p)  == locked' = [s \in Scenarios |-> IF locked[s] = p THEN Nobody ELSE locked[s]]
Abort(p)    == pass' = [pass EXCEPT ![p] = Asleep(hour + 1)] /\ Release(p)

(* The row as running: refused when the scenario or the run has been         *)
(* removed since, or when the date has a run that was not the latest; a      *)
(* writer or a DELETE on the same rows is waited for.                       *)
Flush(p) ==
    LET s == pass[p].id
        row == {r \in runs[s] : r.type = "scheduled" /\ r.date = pass[p].date} IN
    /\ At(p, "flush") /\ Writers(s) = {} /\ removal[s] = NoDelete
    /\ IF scenario[s].exists /\ (row # {} <=> pass[p].retry)
       THEN Go(p, "report") /\ UNCHANGED locked
       ELSE Abort(p)
    /\ UNCHANGED <<hour, scenario, runs, removal, test, sent, lost, failures, tests>>

(* run_scenario: clients, SMTP row, sales and catalog, then the report with   *)
(* its link, committed in a session of its own.  Its foreign key waits for a *)
(* DELETE that has the scenario's row and waits for this very transaction.   *)
Report(p) ==
    /\ At(p, "report") /\ ~removal[pass[p].id].held
    /\ Go(p, "mail")
    /\ UNCHANGED <<hour, scenario, runs, locked, removal, test, sent, lost, failures, tests>>

(* Anything before the mail fails: the run will be recorded as failed.      *)
ReportFails(p) ==
    /\ At(p, "report")
    /\ pass' = [pass EXCEPT ![p].pc = "commit", ![p].status = "failed"]
    /\ UNCHANGED <<hour, scenario, runs, locked, removal, test, sent, lost, failures, tests>>

(* _send, whose quit() may fail when the mail has gone, or before.          *)
Mailed(p) == sent' = [sent EXCEPT ![pass[p].id][pass[p].date] = @ + 1]
Lose(p)   == lost' = [lost EXCEPT ![pass[p].id][pass[p].date] = @ + 1]
Mail(p) ==
    /\ At(p, "mail")
    /\ \/ /\ pass' = [pass EXCEPT ![p].pc = "commit", ![p].status = "completed"]
          /\ Mailed(p) /\ UNCHANGED <<lost, failures>>
       \/ /\ pass' = [pass EXCEPT ![p].pc = "commit", ![p].status = "failed"]
          /\ \/ UNCHANGED <<sent, lost, failures>>
             \/ failures < MaxFailures /\ failures' = failures + 1 /\ Mailed(p) /\ Lose(p)
    /\ UNCHANGED <<hour, scenario, runs, locked, removal, test, tests>>

(* The commit of the outcome, at the time the pass read when it woke.       *)
Commit(p) ==
    LET s == pass[p].id IN
    /\ At(p, "commit")
    /\ runs' = [runs EXCEPT ![s] =
                  {r \in @ : r.type # "scheduled" \/ r.date # pass[p].date}
                      \cup {Run("scheduled", pass[p].date, pass[p].status, pass[p].now)}]
    /\ pass' = [pass EXCEPT ![p].pc = "next", ![p].id = Nobody, ![p].date = 0,
                            ![p].retry = FALSE, ![p].status = "running"]
    /\ Release(p)
    /\ UNCHANGED <<hour, scenario, removal, test, sent, lost, failures, tests>>

(* The connection breaks at the commit: what was sent is not recorded.      *)
Unrecorded(p) == IF At(p, "commit") /\ pass[p].status = "completed" THEN Lose(p) ELSE UNCHANGED lost
CommitFails(p) ==
    /\ At(p, "commit") /\ failures < MaxFailures /\ failures' = failures + 1
    /\ Unrecorded(p) /\ Abort(p)
    /\ UNCHANGED <<hour, scenario, runs, removal, test, sent, tests>>

(* The process dies with its requests and starts again with a pass at once. *)
Restart(p) ==
    /\ failures < MaxFailures /\ failures' = failures + 1
    /\ pass' = [pass EXCEPT ![p] = Asleep(hour)] /\ Release(p) /\ Unrecorded(p)
    /\ removal' = [s \in Scenarios |-> IF removal[s].by = p THEN NoDelete ELSE removal[s]]
    /\ test' = [s \in Scenarios |-> IF test[s] # NoTest /\ test[s].by = p THEN NoTest ELSE test[s]]
    /\ UNCHANGED <<hour, scenario, runs, sent, tests>>

-------------------------------------------------------- (* The requests *)
(* update_scenario: an enabled one has recipients.                          *)
UpdateScenario(s) ==
    /\ scenario[s].exists /\ ~removal[s].held
    /\ \E r \in Rows : scenario' = [scenario EXCEPT ![s] = r]
    /\ UNCHANGED <<hour, runs, pass, locked, removal, test, sent, lost, failures, tests>>

Erase(s) ==
    scenario' = [scenario EXCEPT ![s] = Removed] /\ runs' = [runs EXCEPT ![s] = {}]

(* remove_scenario: a pass that has written a new run holds the scenario's    *)
(* row by its foreign key; one that retries holds the run, and the DELETE,   *)
(* which by then has the scenario's row, waits for it in the cascade.       *)
RemoveScenario(p, s) ==
    /\ scenario[s].exists /\ removal[s] = NoDelete
    /\ IF Writers(s) = {} THEN Erase(s) /\ UNCHANGED removal
       ELSE /\ removal' = [removal EXCEPT ![s] = [by |-> p, held |-> \E q \in Writers(s) : pass[q].retry]]
            /\ UNCHANGED <<scenario, runs>>
    /\ UNCHANGED <<hour, pass, locked, test, sent, lost, failures, tests>>

RemovalGoesOn(s) ==
    /\ removal[s] # NoDelete /\ Writers(s) = {}
    /\ Erase(s) /\ removal' = [removal EXCEPT ![s] = NoDelete]
    /\ UNCHANGED <<hour, pass, locked, test, sent, lost, failures, tests>>

(* test_scenario: a run of its own type, committed before the report ...     *)
TestScenario(p, s) ==
    /\ scenario[s].exists /\ scenario[s].recipients /\ removal[s] = NoDelete
    /\ test[s] = NoTest /\ tests < MaxTests /\ tests' = tests + 1
    /\ test' = [test EXCEPT ![s] = [pc |-> "report", by |-> p, date |-> Day(hour)]]
    /\ runs' = [runs EXCEPT ![s] = @ \cup {Run("manual_test", Day(hour), "running", hour)}]
    /\ UNCHANGED <<hour, scenario, pass, locked, removal, sent, lost, failures>>

(* ... and once more when it has been sent, or has failed; nothing is left   *)
(* to change when the scenario has been removed meanwhile.                  *)
TestEnds(s) ==
    /\ test[s] # NoTest /\ test' = [test EXCEPT ![s] = NoTest]
    /\ \E status \in {"completed", "failed"} :
         runs' = [runs EXCEPT ![s] =
                    {IF r.type = "manual_test" /\ r.date = test[s].date
                     THEN [r EXCEPT !.status = status] ELSE r : r \in @}]
    /\ UNCHANGED <<hour, scenario, pass, locked, removal, sent, lost, failures, tests>>

Hour ==
    /\ hour < MaxHour /\ hour' = hour + 1
    /\ UNCHANGED <<scenario, runs, pass, locked, removal, test, sent, lost, failures, tests>>

PassStep(p) ==
    \/ Wake(p) \/ Sleep(p) \/ TakeUp(p) \/ Flush(p) \/ Report(p) \/ ReportFails(p) \/ Mail(p)
    \/ Commit(p) \/ CommitFails(p) \/ Restart(p)
ScenarioRequest(s) ==
    \/ UpdateScenario(s) \/ RemovalGoesOn(s) \/ TestEnds(s)
    \/ \E p \in Processes : RemoveScenario(p, s) \/ TestScenario(p, s)
ScenarioNext ==
    \/ \E p \in Processes : PassStep(p)
    \/ \E s \in Scenarios : ScenarioRequest(s)
    \/ Hour
ScenarioSpec == ScenarioInit /\ [][ScenarioNext]_scenarioVars

---------------------------------------------------------- (* Properties *)
PassStates ==
    [pc : {"asleep"}, wake : Nat]
        \cup [pc : {"next", "flush", "report", "mail", "commit"}, now : Nat,
              todo : SUBSET Scenarios, id : Scenarios \cup {Nobody}, date : Nat,
              retry : BOOLEAN, status : {"running", "completed", "failed"}]

ScenarioTypeOK ==
    /\ hour \in Nat /\ failures \in Nat /\ tests \in Nat
    /\ scenario \in [Scenarios -> Rows \cup {Removed}]
    /\ pass \in [Processes -> PassStates]
    /\ locked \in [Scenarios -> Processes \cup {Nobody}]
    /\ removal \in [Scenarios -> [by : Processes \cup {Nobody}, held : BOOLEAN]]
    /\ runs \in [Scenarios -> SUBSET [type : {"scheduled", "manual_test"}, date : Nat,
                                      status : {"running", "completed", "failed"}, at : Nat]]
    /\ sent \in [Scenarios -> [Days -> Nat]] /\ lost \in [Scenarios -> [Days -> Nat]]

(* The report of a scenario and a date is mailed once, however many          *)
(* processes keep a schedule, whatever is retried and however late a pass is *)
(* with what it has read: a second mail needs an outcome that could not be   *)
(* recorded, no mail goes out when the table says it has, and none once the  *)
(* removal of the scenario has been answered.                               *)
SentOnce ==
    \A s \in Scenarios :
        /\ \A d \in Days : sent[s][d] <= lost[s][d] + 1
        /\ \A p \in Processes : Writes(p, s) =>
             /\ scenario[s].exists
             /\ \A r \in runs[s] : r.type = "scheduled" /\ r.date = pass[p].date => r.status = "failed"
=============================================================================
