----------------------------- MODULE MCOperations -----------------------------
EXTENDS BackendStart, ReportScenarios, AccessDevices, CatalogDirectory, CatalogInfo, SeasonAdvice
(* Components that share no state: each behaviour is one of one of them, the *)
(* others at rest, so that each is checked on all its own behaviours.       *)

CONSTANT Parts
VARIABLE part

Reachable == [r24 |-> {"r23", "r24"}, r25 |-> {"r24", "r25"}]
Models    == [old |-> {"sales"}, new |-> {"sales", "jobs"}]
Physical  == {"jobs", "receipts"}
Created   == [r23 |-> {"sales"}, r24 |-> {}, r25 |-> {"jobs", "receipts"}]
Cmd(image, expected, mode, rollback) ==
    [image |-> image, expected |-> expected, mode |-> mode, rollback |-> rollback, enabled |-> FALSE]
Operated == {Cmd("old", "r24", "start", FALSE), Cmd("new", "r25", "start", FALSE),
             Cmd("old", "r25", "start", TRUE), Cmd("new", "r25", "check", FALSE),
             Cmd("old", "r24", "migrate", FALSE), Cmd("new", "r25", "migrate", FALSE),
             [Cmd("old", "r25", "start", TRUE) EXCEPT !.enabled = TRUE]}
Found    == {[version |-> {"r23"}, tables |-> {"sales"}], [version |-> {"r24"}, tables |-> {"sales"}],
             [version |-> {"r25"}, tables |-> {"sales", "jobs"}],
             [version |-> {"r24", "r25"}, tables |-> {"sales", "jobs", "receipts"}]}

Arc(start, length) == {(start + o) % 12 : o \in 0..(length - 1)}
Seasonal == {Arc(s, l) : s \in {0, 5, 10, 11}, l \in {1, 2, 5, 8, 9}}
              \cup {{}, Months, Arc(10, 3) \cup Arc(4, 2), Arc(11, 3) \cup Arc(6, 3), {2, 3, 5, 6}}
Reported ==
    {[stock |-> s, stops |-> f, excess |-> c, candidate |-> c, low |-> TRUE] :
       s \in BOOLEAN, f \in {"none", "growing"}, c \in BOOLEAN}

others == <<startVars, scenarioVars, accessVars, directoryVars, infoVars, seasonVars>>
OperationsInit ==
    /\ part \in Parts
    /\ StartInit /\ ScenarioInit /\ AccessInit /\ DirectoryInit /\ InfoInit /\ SeasonInit
    /\ part # "season" => high = {} /\ offer = CHOOSE o \in Offers : TRUE
    /\ part # "start" => version = {Default}
(* One part's step; each disjunct leaves the others alone.                    *)
OperationsNext ==
    \/ /\ part = "start" /\ StartNext
       /\ UNCHANGED <<part, scenarioVars, accessVars, directoryVars, infoVars, seasonVars>>
    \/ /\ part = "scenarios" /\ ScenarioNext
       /\ UNCHANGED <<part, startVars, accessVars, directoryVars, infoVars, seasonVars>>
    \/ /\ part = "access" /\ AccessNext
       /\ UNCHANGED <<part, startVars, scenarioVars, directoryVars, infoVars, seasonVars>>
    \/ /\ part = "directory" /\ DirectoryNext
       /\ UNCHANGED <<part, startVars, scenarioVars, accessVars, infoVars, seasonVars>>
    \/ /\ part = "info" /\ InfoNext
       /\ UNCHANGED <<part, startVars, scenarioVars, accessVars, directoryVars, seasonVars>>
    \/ /\ part = "season" /\ NextDay
       /\ UNCHANGED <<part, startVars, scenarioVars, accessVars, directoryVars, infoVars>>
OperationsSpec == OperationsInit /\ [][OperationsNext]_<<part, others>>

(* The values each of the services keeps, with the limits of its caches: proved *)
(* in OperationsProofs for any sizes (StartTypes, OperationsTypes).            *)
OperationsTypeOK ==
    StartTypeOK /\ ScenarioTypeOK /\ AccessTypeOK /\ DirectoryTypeOK /\ InfoTypeOK
=============================================================================
