----------------------------- MODULE BackendStart -----------------------------
(***************************************************************************)
(* start_backend.py: containers of the backend start on a schema they have *)
(* checked, and a job started on purpose migrates it.  Both use one        *)
(* advisory lock: a check shares it for its transaction, a job keeps it in *)
(* its session while alembic works in another one.                         *)
(***************************************************************************)
EXTENDS Integers, FiniteSets

CONSTANTS
    Containers,
    Supported,     \* SUPPORTED_REVISIONS
    Default,       \* DEFAULT_REVISION, the one with a physical contract
    Sources,       \* MIGRATION_SOURCES: where a target may be reached from
    Orm,           \* the tables the models of each image describe
    Churn,         \* those of check_churn_schema
    Creates,       \* the tables each revision creates
    Commands,      \* [image, expected, mode, rollback, enabled]
    Schemas,       \* the schemas there may be at first: [version, tables]
    MaxLaunches, MaxLosses

Modes == {"start", "check", "migrate"}

ASSUME StartAssumption ==
    /\ Default \in Supported /\ DOMAIN Sources \subseteq Supported
    /\ \A r \in DOMAIN Sources : Sources[r] \subseteq Supported /\ r \in Sources[r]
    /\ Commands \subseteq [image : DOMAIN Orm, expected : Supported, mode : Modes,
                           rollback : BOOLEAN, enabled : BOOLEAN]
    /\ MaxLaunches \in Nat /\ MaxLosses \in Nat

VARIABLES
    version,       \* the rows of alembic_version
    tables,        \* the tables that are as their contract wants them
    job,           \* what each container does
    exclusive,     \* containers whose session has the lock (at most one)
    sharing,       \* containers whose transaction shares it
    launches, losses

startVars == <<version, tables, job, exclusive, sharing, launches, losses>>

Down == [pc |-> "down"]

StartInit ==
    /\ \E s \in Schemas : version = s.version /\ tables = s.tables
    /\ job = [c \in Containers |-> Down]
    /\ exclusive = {} /\ sharing = {} /\ launches = 0 /\ losses = 0

Doing(c, l)  == job[c].pc = l
Then(c, l)   == job' = [job EXCEPT ![c].pc = l]
Blocked(c)   == job' = [job EXCEPT ![c] = Down]

(* What a check asks of the tables: those of the models, where it is given   *)
(* models, and at the default revision the physical contract.               *)
Contract(c) ==
    LET cmd == job[c].cmd IN
    (IF cmd.mode # "migrate" \/ cmd.expected = Default THEN Orm[cmd.image] ELSE {})
        \cup (IF cmd.expected = Default THEN Churn ELSE {})

(* The arguments and flags of main; a refused container stays down.         *)
Accepted(cmd) ==
    /\ (cmd.rollback \/ cmd.mode = "migrate") => ~cmd.enabled
    /\ ~(cmd.rollback /\ cmd.mode = "migrate")
    /\ cmd.mode = "migrate" => cmd.expected \in DOMAIN Sources

Launch(c) ==
    /\ job[c].pc \in {"down", "migrated"} /\ launches < MaxLaunches
    /\ \E cmd \in Commands :
         /\ Accepted(cmd)
         /\ job' = [job EXCEPT ![c] =
                      [pc |-> IF cmd.mode = "migrate" THEN "lock" ELSE "check",
                       cmd |-> cmd, base |-> {}]]
    /\ launches' = launches + 1
    /\ UNCHANGED <<version, tables, exclusive, sharing, losses>>

-------------------------------------------------------- (* check_schema *)
(* The shared lock, which lock_timeout lets nobody wait for, and the rows    *)
(* of alembic_version.                                                      *)
Check(c) ==
    /\ Doing(c, "check")
    /\ IF exclusive = {} /\ version = {job[c].cmd.expected}
       THEN Then(c, "inspect") /\ sharing' = sharing \cup {c}
       ELSE Blocked(c) /\ UNCHANGED sharing
    /\ UNCHANGED <<version, tables, exclusive, launches, losses>>

(* Tables, columns, keys and constraints, statement by statement, then the   *)
(* end of the transaction, and of the lock with it.                         *)
Inspect(c) ==
    /\ Doing(c, "inspect") /\ sharing' = sharing \ {c}
    /\ IF Contract(c) \subseteq tables /\ job[c].cmd.mode = "start"
       THEN Then(c, "checked") ELSE Blocked(c)
    /\ UNCHANGED <<version, tables, exclusive, launches, losses>>

(* The process goes on as uvicorn, and nothing keeps a job from migrating    *)
(* between the check and this.                                              *)
Serve(c) ==
    /\ Doing(c, "checked") /\ Then(c, "serving")
    /\ UNCHANGED <<version, tables, exclusive, sharing, launches, losses>>

------------------------------------------------------------- (* migrate *)
(* Mutant of TryLock: the lock goes with the transaction that took it.       *)
TryLockShortly(c) ==
    /\ Doing(c, "lock")
    /\ IF exclusive \cup sharing = {} THEN Then(c, "revision") ELSE Blocked(c)
    /\ UNCHANGED <<version, tables, exclusive, sharing, launches, losses>>

(* pg_try_advisory_lock: a second job is blocked at once.                   *)
TryLock(c) ==
    /\ Doing(c, "lock")
    /\ IF exclusive \cup sharing = {}
       THEN Then(c, "revision") /\ exclusive' = {c}
       ELSE Blocked(c) /\ UNCHANGED exclusive
    /\ UNCHANGED <<version, tables, sharing, launches, losses>>

(* The end of a job, whether it has done its work or not.                   *)
Unlock(c) == Blocked(c) /\ exclusive' = exclusive \ {c}

(* revision and the transitions somebody has reviewed.                      *)
ReadRevision(c) ==
    LET target == job[c].cmd.expected IN
    /\ Doing(c, "revision")
    /\ IF version = {target} THEN Then(c, "verify") /\ UNCHANGED exclusive
       ELSE IF \E r \in Sources[target] : version = {r}
       THEN Then(c, "alembic") /\ UNCHANGED exclusive
       ELSE Unlock(c)
    /\ UNCHANGED <<version, tables, sharing, launches, losses>>

(* alembic reads the revision itself and changes the schema in transactions *)
(* of its own.                                                              *)
Alembic(c) ==
    /\ Doing(c, "alembic")
    /\ job' = [job EXCEPT ![c].pc = "applying", ![c].base = version]
    /\ UNCHANGED <<version, tables, exclusive, sharing, launches, losses>>

(* It succeeds, or it fails and rolls back, as it does when another one has *)
(* been faster.                                                             *)
Apply(c) ==
    /\ Doing(c, "applying")
    /\ \/ /\ version = job[c].base /\ version' = {job[c].cmd.expected}
          /\ tables' = tables \cup Creates[job[c].cmd.expected]
          /\ Then(c, "verify") /\ UNCHANGED exclusive
       \/ Unlock(c) /\ UNCHANGED <<version, tables>>
    /\ UNCHANGED <<sharing, launches, losses>>

(* The check again, in the session that has the lock; it fails when that    *)
(* session has gone.                                                        *)
VerifyMigration(c) ==
    /\ Doing(c, "verify") /\ exclusive' = exclusive \ {c}
    /\ IF c \in exclusive /\ version = {job[c].cmd.expected} /\ Contract(c) \subseteq tables
       THEN Then(c, "migrated") ELSE Blocked(c)
    /\ UNCHANGED <<version, tables, sharing, launches, losses>>

------------------------------------------------------------ (* Failures *)
(* A container stops, is stopped or dies: its sessions and what its alembic  *)
(* has not committed go with it.                                            *)
Stop(c) ==
    /\ ~Doing(c, "down") /\ Blocked(c)
    /\ exclusive' = exclusive \ {c} /\ sharing' = sharing \ {c}
    /\ UNCHANGED <<version, tables, launches, losses>>

(* The idle session that has the lock breaks while alembic works in another. *)
LoseSession(c) ==
    /\ c \in exclusive /\ losses < MaxLosses
    /\ exclusive' = exclusive \ {c} /\ losses' = losses + 1
    /\ UNCHANGED <<version, tables, job, sharing, launches>>

StartStep(c) ==
    \/ Launch(c) \/ Check(c) \/ Inspect(c) \/ Serve(c)
    \/ TryLock(c) \/ ReadRevision(c) \/ Alembic(c) \/ Apply(c) \/ VerifyMigration(c)
    \/ Stop(c) \/ LoseSession(c)
StartNext == \E c \in Containers : StartStep(c)
StartSpec == StartInit /\ [][StartNext]_startVars

---------------------------------------------------------- (* Properties *)
Versions == {s.version : s \in Schemas} \cup {{r} : r \in Supported}
Launched == [pc : {"check", "inspect", "checked", "serving", "lock", "revision", "alembic",
                   "applying", "verify", "migrated"}, cmd : Commands,
             base : Versions \cup {{}}]

StartTypeOK ==
    /\ version \in Versions
    /\ job \in [Containers -> {Down} \cup Launched]
    /\ exclusive \subseteq Containers /\ sharing \subseteq Containers
    /\ launches \in Nat /\ losses \in Nat

(* The revisions that the reviewed transitions lead to from one.             *)
Followed(S) == \A t \in DOMAIN Sources : Sources[t] \cap S # {} => t \in S
Leads(from, r) == \A S \in SUBSET Supported : from \in S /\ Followed(S) => r \in S

(* As long as no job loses the session it locks with: a check ends well only *)
(* if the schema has, at that moment and not just when it was read, the       *)
(* expected revision and every table of the contract, with no migration      *)
(* under way; a container that has been checked and then overtaken by         *)
(* migrations begins to serve on a schema that still has every table it was   *)
(* promised, and a revision that reviewed transitions lead to; and the        *)
(* revision moves only by one alembic at a time and along a transition that  *)
(* MIGRATION_SOURCES names, whoever starts, stops or migrates beside it.     *)
StartsChecked ==
    [][losses = 0 =>
        /\ \A c \in Containers : Doing(c, "inspect") /\ job'[c].pc = "checked" =>
             /\ version = {job[c].cmd.expected} /\ Contract(c) \subseteq tables
             /\ \A d \in Containers : ~Doing(d, "applying")
        /\ \A c \in Containers : ~Doing(c, "serving") /\ job'[c].pc = "serving" =>
             /\ Contract(c) \subseteq tables
             /\ \E r \in Supported : version = {r} /\ Leads(job[c].cmd.expected, r)
        /\ version' # version => \E c \in Containers :
             /\ Doing(c, "applying") /\ \A d \in Containers \ {c} : ~Doing(d, "applying")
             /\ \E r \in Sources[job[c].cmd.expected] : version = {r}]_startVars
=============================================================================
