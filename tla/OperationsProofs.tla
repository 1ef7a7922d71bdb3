---------------------------- MODULE OperationsProofs ----------------------------
(***************************************************************************)
(* What the operated components promise, for every value of the constants:   *)
(* the start of the backend, the access devices and their helper, the        *)
(* directories and the batch-info of CatalogVR, and the report scenarios.     *)
(* Each has its inductive invariant; OperationsInv is all of them.           *)
(***************************************************************************)
EXTENDS MCOperations, SqlProofs, SequenceTheorems

------------------------------------------------------------ (* BackendStart *)
Working == {"revision", "alembic", "applying", "verify"}

(* Who has the lock does a job's work, one at a time and with no check in     *)
(* progress; who shares it inspects.                                        *)
LockDiscipline ==
    /\ \A c, d \in exclusive : c = d
    /\ exclusive # {} => sharing = {}
    /\ \A c \in Containers : c \in sharing <=> Doing(c, "inspect")
    /\ \A c \in exclusive : job[c].pc \in Working

(* While no session is lost, a job works under the lock, and what it or a     *)
(* check has read of the revision is still so.                              *)
ReadingsHold ==
    losses = 0 => \A c \in Containers :
        /\ job[c].pc \in Working => c \in exclusive
        /\ Doing(c, "inspect") => version = {job[c].cmd.expected}
        /\ Doing(c, "alembic") => \E r \in Sources[job[c].cmd.expected] : version = {r}
        /\ Doing(c, "applying") =>
             version = job[c].base /\ \E r \in Sources[job[c].cmd.expected] : version = {r}

(* Whoever works under the lock was accepted as a job, and so has a target;   *)
(* what a container was checked for is there, whoever has migrated since.    *)
JobsAccepted == \A c \in Containers : job[c].pc \in Working \cup {"lock"} =>
                   job[c].cmd.expected \in DOMAIN Sources
Overtaken(c) ==
    /\ Contract(c) \subseteq tables
    /\ \E r \in Supported : version = {r} /\ Leads(job[c].cmd.expected, r)
CheckedHold == losses = 0 => \A c \in Containers : Doing(c, "checked") => Overtaken(c)

StartInv == StartTypeOK /\ LockDiscipline /\ ReadingsHold /\ JobsAccepted /\ CheckedHold

---------------------------------------------------------------------------
(* A container that is not down has the state of a launched one.            *)
LEMMA LaunchedState ==
    ASSUME StartTypeOK, NEW c \in Containers, job[c].pc # "down"
    PROVE  /\ job[c] \in Launched /\ job[c].cmd \in Commands
           /\ job[c].cmd.expected \in Supported
  BY StartAssumption DEF StartTypeOK, Down, Launched

(* What a step of a container does to the container.                        *)
LEMMA Steps ==
    ASSUME StartTypeOK, NEW c \in Containers, StartStep(c)
    PROVE  /\ job' \in [Containers -> {Down} \cup Launched]
           /\ \A d \in Containers \ {c} : job'[d] = job[d]
           /\ exclusive' \subseteq exclusive \cup {c} /\ sharing' \subseteq sharing \cup {c}
           /\ exclusive \subseteq exclusive' \cup {c} /\ sharing \subseteq sharing' \cup {c}
           /\ launches' \in Nat /\ losses' \in Nat
  <1>0. c \in Containers /\ job \in [Containers -> {Down} \cup Launched]
    BY DEF StartTypeOK
  <1>1. ASSUME NEW x \in {Down} \cup Launched, job' = [job EXCEPT ![c] = x]
        PROVE  job' \in [Containers -> {Down} \cup Launched]
               /\ \A d \in Containers \ {c} : job'[d] = job[d]
    BY <1>0, <1>1
  <1>2. ASSUME NEW l \in {"check", "inspect", "checked", "serving", "lock", "revision", "alembic",
                          "applying", "verify", "migrated"},
               job[c].pc # "down", Then(c, l)
        PROVE  job' \in [Containers -> {Down} \cup Launched]
               /\ \A d \in Containers \ {c} : job'[d] = job[d]
    <2>1. job[c] \in Launched
      BY <1>2, LaunchedState
    <2>2. [job[c] EXCEPT !.pc = l] \in Launched
      BY <2>1 DEF Launched
    <2>3. job' = [job EXCEPT ![c] = [job[c] EXCEPT !.pc = l]]
      BY <1>0, <1>2 DEF Then
    <2> QED BY <2>2, <2>3, <1>1
  <1>3. ASSUME Blocked(c)
        PROVE  job' \in [Containers -> {Down} \cup Launched]
               /\ \A d \in Containers \ {c} : job'[d] = job[d]
    BY <1>3, <1>1 DEF Blocked
  <1>4. CASE Launch(c)
    <2>1. PICK cmd \in Commands :
            job' = [job EXCEPT ![c] = [pc |-> IF cmd.mode = "migrate" THEN "lock" ELSE "check",
                                       cmd |-> cmd, base |-> {}]]
      BY <1>4 DEF Launch
    <2>2. [pc |-> IF cmd.mode = "migrate" THEN "lock" ELSE "check", cmd |-> cmd, base |-> {}]
             \in Launched
      BY DEF Launched
    <2> QED BY <1>4, <1>1, <2>1, <2>2 DEF Launch, StartTypeOK
  <1>5. CASE Check(c)
    BY <1>5, <1>2, <1>3 DEF Check, Doing, StartTypeOK
  <1>6. CASE Inspect(c)
    BY <1>6, <1>2, <1>3 DEF Inspect, Doing, StartTypeOK
  <1>7. CASE TryLock(c)
    BY <1>7, <1>2, <1>3 DEF TryLock, Doing, StartTypeOK
  <1>8. CASE ReadRevision(c)
    BY <1>8, <1>2, <1>3 DEF ReadRevision, Unlock, Doing, StartTypeOK
  <1>9. CASE Alembic(c)
    <2>1. job[c] \in Launched
      BY <1>9, LaunchedState DEF Alembic, Doing
    <2>2. [job[c] EXCEPT !.pc = "applying", !.base = version] \in Launched
      BY <2>1 DEF Launched, StartTypeOK
    <2>3. job' = [job EXCEPT ![c] = [job[c] EXCEPT !.pc = "applying", !.base = version]]
      BY <1>0, <1>9 DEF Alembic
    <2> QED BY <1>9, <1>1, <2>2, <2>3 DEF Alembic, StartTypeOK
  <1>10. CASE Apply(c)
    BY <1>10, <1>2, <1>3 DEF Apply, Unlock, Doing, StartTypeOK
  <1>11. CASE VerifyMigration(c)
    BY <1>11, <1>2, <1>3 DEF VerifyMigration, Doing, StartTypeOK
  <1>12. CASE Stop(c)
    BY <1>12, <1>3 DEF Stop, StartTypeOK
  <1>13. CASE LoseSession(c)
    BY <1>13, <1>0 DEF LoseSession, StartTypeOK
  <1>14. CASE Serve(c)
    BY <1>14, <1>2 DEF Serve, Doing, StartTypeOK
  <1> QED BY <1>4, <1>5, <1>6, <1>7, <1>8, <1>9, <1>10, <1>11, <1>12, <1>13, <1>14 DEF StartStep

LEMMA VersionStays ==
    ASSUME StartTypeOK, NEW c \in Containers, StartStep(c)
    PROVE  \/ version' = version
           \/ Doing(c, "applying") /\ version' = {job[c].cmd.expected}
  BY DEF StartStep, Launch, Check, Inspect, Serve, TryLock, ReadRevision, Alembic, Apply,
         VerifyMigration, Stop, LoseSession

LEMMA TypePreserved ==
    StartTypeOK /\ [StartNext]_startVars => StartTypeOK'
  <1> SUFFICES ASSUME StartTypeOK, [StartNext]_startVars PROVE StartTypeOK'
    OBVIOUS
  <1>1. ASSUME NEW c \in Containers, StartStep(c) PROVE StartTypeOK'
    <2>1. version' \in Versions
      <3>1. CASE version' = version
        BY <3>1 DEF StartTypeOK
      <3>2. CASE Doing(c, "applying") /\ version' = {job[c].cmd.expected}
        BY <3>2, LaunchedState DEF Doing, Versions
      <3> QED BY <1>1, <3>1, <3>2, VersionStays
    <2> QED BY <1>1, <2>1, Steps DEF StartTypeOK
  <1>2. CASE UNCHANGED startVars
    BY <1>2 DEF StartTypeOK, startVars
  <1> QED BY <1>1, <1>2 DEF StartNext

(* The states of the containers, the lock and the revision are what the model *)
(* says they can be.                                                        *)
THEOREM StartTypes == StartSpec => []StartTypeOK
  <1>1. StartInit => StartTypeOK
    BY DEF StartInit, StartTypeOK, Versions
  <1> QED BY <1>1, TypePreserved, PTL DEF StartSpec

---------------------------------------------------------------------------
(* The two ways in which a step moves a container.                          *)
LEMMA Moved ==
    ASSUME StartTypeOK, NEW c \in Containers, NEW l, Then(c, l), job[c].pc # "down"
    PROVE  job'[c].pc = l /\ job'[c].cmd = job[c].cmd /\ job'[c].base = job[c].base
  <1>1. job[c] \in Launched
    BY LaunchedState
  <1> QED BY <1>1 DEF Then, Launched, StartTypeOK

LEMMA Stopped ==
    ASSUME StartTypeOK, NEW c \in Containers, Blocked(c)
    PROVE  job'[c].pc = "down"
  BY DEF Blocked, Down, StartTypeOK

LEMMA DisciplinePreserved ==
    ASSUME StartTypeOK, LockDiscipline, NEW c \in Containers, StartStep(c)
    PROVE  LockDiscipline'
  <1>0. exclusive \subseteq Containers /\ sharing \subseteq Containers
    BY DEF StartTypeOK
  <1>1. \A d \in Containers \ {c} : job'[d] = job[d]
    BY Steps
  <1> USE DEF LockDiscipline, Doing, Working
  <1>2. CASE Launch(c)
    <2>1. job'[c].pc \in {"lock", "check"} /\ job[c].pc \in {"down", "migrated"}
      BY <1>2 DEF Launch, StartTypeOK
    <2> QED BY <2>1, <1>0, <1>1, <1>2 DEF Launch
  <1>3. CASE Check(c)
    <2>1. CASE Then(c, "inspect") /\ sharing' = sharing \cup {c} /\ exclusive = {}
      BY <2>1, <1>0, <1>1, <1>3, Moved DEF Check
    <2>2. CASE Blocked(c) /\ UNCHANGED sharing
      BY <2>2, <1>0, <1>1, <1>3, Stopped DEF Check
    <2> QED BY <1>3, <2>1, <2>2 DEF Check
  <1>4. CASE Inspect(c)
    <2>1. job'[c].pc \in {"checked", "down"}
      BY <1>4, Moved, Stopped DEF Inspect
    <2> QED BY <2>1, <1>0, <1>1, <1>4 DEF Inspect
  <1>13. CASE Serve(c)
    <2>1. job'[c].pc = "serving"
      BY <1>13, Moved DEF Serve
    <2> QED BY <2>1, <1>0, <1>1, <1>13 DEF Serve
  <1>5. CASE TryLock(c)
    <2>1. CASE Then(c, "revision") /\ exclusive' = {c} /\ exclusive \cup sharing = {}
      BY <2>1, <1>0, <1>1, <1>5, Moved DEF TryLock
    <2>2. CASE Blocked(c) /\ UNCHANGED exclusive
      BY <2>2, <1>0, <1>1, <1>5, Stopped DEF TryLock
    <2> QED BY <1>5, <2>1, <2>2 DEF TryLock
  <1>6. ASSUME job[c].pc \in Working, sharing' = sharing,
               \/ exclusive' = exclusive /\ job'[c].pc \in Working
               \/ exclusive' = exclusive \ {c} /\ job'[c].pc \notin Working \cup {"inspect"}
        PROVE  LockDiscipline'
    BY <1>0, <1>1, <1>6
  <1>7. CASE ReadRevision(c)
    BY <1>6, <1>7, Moved, Stopped DEF ReadRevision, Unlock
  <1>8. CASE Alembic(c)
    <2>1. job'[c].pc = "applying"
      BY <1>8 DEF Alembic, StartTypeOK
    <2> QED BY <2>1, <1>6, <1>8 DEF Alembic
  <1>9. CASE Apply(c)
    BY <1>6, <1>9, Moved, Stopped DEF Apply, Unlock
  <1>10. CASE VerifyMigration(c)
    BY <1>6, <1>10, Moved, Stopped DEF VerifyMigration
  <1>11. CASE Stop(c)
    <2>1. job'[c].pc = "down"
      BY <1>11, Stopped DEF Stop
    <2> QED BY <2>1, <1>0, <1>1, <1>11 DEF Stop
  <1>12. CASE LoseSession(c)
    BY <1>0, <1>12 DEF LoseSession
  <1> QED BY <1>2, <1>3, <1>4, <1>5, <1>7, <1>8, <1>9, <1>10, <1>11, <1>12, <1>13 DEF StartStep

(* Nobody else moves the revision while somebody works under the lock or       *)
(* inspects.                                                                *)
LEMMA ReadingsPreserved ==
    ASSUME StartInv, NEW c \in Containers, StartStep(c)
    PROVE  ReadingsHold'
  <1>0. /\ StartTypeOK /\ LockDiscipline /\ ReadingsHold
        /\ exclusive \subseteq Containers /\ losses \in Nat
    BY DEF StartInv, StartTypeOK
  <1>1. \A d \in Containers \ {c} : job'[d] = job[d] /\ (d \in exclusive <=> d \in exclusive')
    BY <1>0, Steps
  <1>2. losses' = 0 => losses = 0 /\ ~LoseSession(c)
    BY <1>0 DEF StartStep, Launch, Check, Inspect, Serve, TryLock, ReadRevision, Alembic, Apply,
                VerifyMigration, Stop, LoseSession
  <1>3. SUFFICES ASSUME losses = 0, ~LoseSession(c), NEW d \in Containers
                 PROVE  /\ job'[d].pc \in Working => d \in exclusive'
                        /\ job'[d].pc = "inspect" => version' = {job'[d].cmd.expected}
                        /\ job'[d].pc = "alembic" =>
                             \E r \in Sources[job'[d].cmd.expected] : version' = {r}
                        /\ job'[d].pc = "applying" =>
                             /\ version' = job'[d].base
                             /\ \E r \in Sources[job'[d].cmd.expected] : version' = {r}
    BY <1>2 DEF ReadingsHold, Doing
  <1>4. /\ job[d].pc \in Working => d \in exclusive
        /\ job[d].pc = "inspect" => version = {job[d].cmd.expected}
        /\ job[d].pc = "alembic" => \E r \in Sources[job[d].cmd.expected] : version = {r}
        /\ job[d].pc = "applying" =>
             version = job[d].base /\ \E r \in Sources[job[d].cmd.expected] : version = {r}
    BY <1>0, <1>3 DEF ReadingsHold, Doing
  <1>5. CASE d # c
    <2>1. job[d].pc \in Working \cup {"inspect"} => version' = version
      <3>1. CASE Doing(c, "applying")
        <4>1. c \in exclusive
          BY <1>0, <1>3, <3>1 DEF ReadingsHold, Doing, Working
        <4> QED BY <1>0, <1>4, <1>5, <4>1 DEF LockDiscipline, Doing
      <3>2. CASE ~Doing(c, "applying")
        BY <1>0, <3>2, VersionStays
      <3> QED BY <3>1, <3>2
    <2> QED BY <1>1, <1>4, <1>5, <2>1 DEF Working
  <1>6. CASE d = c
    <2> USE <1>6 DEF Doing, Working
    <2>1. CASE Launch(c)
      <3>1. job'[c].pc \in {"lock", "check"}
        BY <2>1, <1>0 DEF Launch, StartTypeOK
      <3> QED BY <3>1
    <2>2. CASE Check(c)
      <3>1. CASE Then(c, "inspect") /\ version = {job[c].cmd.expected}
        BY <2>2, <3>1, <1>0, Moved DEF Check
      <3>2. CASE Blocked(c)
        BY <3>2, <1>0, Stopped
      <3> QED BY <2>2, <3>1, <3>2 DEF Check
    <2>3. CASE Inspect(c)
      <3>1. job'[c].pc \in {"checked", "down"}
        BY <1>0, <2>3, Moved, Stopped DEF Inspect
      <3> QED BY <3>1
    <2>10. CASE Serve(c)
      <3>1. job'[c].pc = "serving"
        BY <1>0, <2>10, Moved DEF Serve
      <3> QED BY <3>1
    <2>4. CASE TryLock(c)
      <3>1. CASE Then(c, "revision") /\ exclusive' = {c}
        <4>1. job'[c].pc = "revision"
          BY <1>0, <2>4, <3>1, Moved DEF TryLock
        <4> QED BY <3>1, <4>1
      <3>2. CASE Blocked(c)
        <4>1. job'[c].pc = "down"
          BY <1>0, <3>2, Stopped
        <4> QED BY <4>1
      <3> QED BY <2>4, <3>1, <3>2 DEF TryLock
    <2>5. CASE ReadRevision(c)
      <3>1. CASE Then(c, "verify") /\ UNCHANGED exclusive
        <4>1. job'[c].pc = "verify"
          BY <1>0, <2>5, <3>1, Moved DEF ReadRevision
        <4> QED BY <4>1, <1>4, <2>5, <3>1 DEF ReadRevision
      <3>2. CASE Then(c, "alembic") /\ UNCHANGED exclusive
                 /\ \E r \in Sources[job[c].cmd.expected] : version = {r}
        <4>1. job'[c].pc = "alembic" /\ job'[c].cmd = job[c].cmd
          BY <1>0, <2>5, <3>2, Moved DEF ReadRevision
        <4> QED BY <4>1, <1>4, <2>5, <3>2 DEF ReadRevision
      <3>3. CASE Unlock(c)
        <4>1. job'[c].pc = "down"
          BY <1>0, <3>3, Stopped DEF Unlock
        <4> QED BY <4>1
      <3> QED BY <2>5, <3>1, <3>2, <3>3 DEF ReadRevision
    <2>6. CASE Alembic(c)
      <3>1. job[c] \in Launched
        BY <1>0, <2>6, LaunchedState DEF Alembic
      <3>2. job'[c] = [job[c] EXCEPT !.pc = "applying", !.base = version]
        BY <1>0, <2>6 DEF Alembic, StartTypeOK
      <3>3. job'[c].pc = "applying" /\ job'[c].base = version /\ job'[c].cmd = job[c].cmd
        BY <3>1, <3>2 DEF Launched
      <3> QED BY <1>4, <2>6, <3>3 DEF Alembic
    <2>7. CASE Apply(c)
      <3>1. CASE Then(c, "verify") /\ UNCHANGED exclusive
        <4>1. job'[c].pc = "verify"
          BY <1>0, <2>7, <3>1, Moved DEF Apply
        <4> QED BY <4>1, <1>4, <2>7, <3>1 DEF Apply
      <3>2. CASE Unlock(c)
        <4>1. job'[c].pc = "down"
          BY <1>0, <3>2, Stopped DEF Unlock
        <4> QED BY <4>1
      <3> QED BY <2>7, <3>1, <3>2 DEF Apply
    <2>8. CASE VerifyMigration(c)
      <3>1. job'[c].pc \in {"migrated", "down"}
        BY <1>0, <2>8, Moved, Stopped DEF VerifyMigration
      <3> QED BY <3>1
    <2>9. CASE Stop(c)
      <3>1. job'[c].pc = "down"
        BY <1>0, <2>9, Stopped DEF Stop
      <3> QED BY <3>1
    <2> QED BY <1>3, <2>1, <2>2, <2>3, <2>4, <2>5, <2>6, <2>7, <2>8, <2>9, <2>10 DEF StartStep
  <1> QED BY <1>5, <1>6

(* A target is accepted once and then kept.                                  *)
LEMMA AcceptedPreserved ==
    ASSUME StartTypeOK, JobsAccepted, NEW c \in Containers, StartStep(c)
    PROVE  JobsAccepted'
  <1>1. \A d \in Containers \ {c} : job'[d] = job[d]
    BY Steps
  <1>2. ASSUME job'[c].pc \in Working \cup {"lock"}
        PROVE  job'[c].cmd.expected \in DOMAIN Sources
    <2>1. CASE Launch(c)
      <3>1. PICK cmd \in Commands :
              /\ Accepted(cmd)
              /\ job' = [job EXCEPT ![c] = [pc |-> IF cmd.mode = "migrate" THEN "lock" ELSE "check",
                                            cmd |-> cmd, base |-> {}]]
        BY <2>1 DEF Launch
      <3>2. job'[c].cmd = cmd /\ job'[c].pc = IF cmd.mode = "migrate" THEN "lock" ELSE "check"
        BY <3>1 DEF StartTypeOK
      <3> QED BY <1>2, <3>1, <3>2 DEF Accepted, Working
    <2>2. CASE Alembic(c)
      <3>1. job[c] \in Launched
        BY <2>2, LaunchedState DEF Alembic, Doing
      <3>2. job'[c] = [job[c] EXCEPT !.pc = "applying", !.base = version]
        BY <2>2 DEF Alembic, StartTypeOK
      <3>3. job'[c].cmd = job[c].cmd
        BY <3>1, <3>2 DEF Launched
      <3> QED BY <2>2, <3>3 DEF JobsAccepted, Alembic, Doing, Working
    <2>3. CASE LoseSession(c)
      BY <1>2, <2>3 DEF LoseSession, JobsAccepted
    <2>4. ASSUME NEW l, Then(c, l), job[c].pc \in Working \cup {"lock"}
          PROVE  job'[c].cmd.expected \in DOMAIN Sources
      BY <2>4, Moved DEF JobsAccepted, Working
    <2>5. ~Blocked(c)
      BY <1>2, Stopped DEF Working
    <2>6. CASE TryLock(c) \/ ReadRevision(c) \/ Apply(c) \/ VerifyMigration(c)
      BY <2>4, <2>5, <2>6 DEF TryLock, ReadRevision, Apply, VerifyMigration, Unlock, Doing, Working
    <2>7. CASE Check(c) \/ Inspect(c) \/ Serve(c) \/ Stop(c)
      <3>1. ASSUME NEW l \in {"inspect", "checked", "serving"}, Then(c, l), job[c].pc # "down" PROVE FALSE
        BY <1>2, <3>1, Moved DEF Working
      <3> QED BY <2>5, <2>7, <3>1 DEF Check, Inspect, Serve, Stop, Doing
    <2> QED BY <2>1, <2>2, <2>3, <2>6, <2>7 DEF StartStep
  <1> QED BY <1>1, <1>2 DEF JobsAccepted

LEMMA TablesGrow ==
    ASSUME NEW c \in Containers, StartStep(c)
    PROVE  tables \subseteq tables'
  BY DEF StartStep, Launch, Check, Inspect, Serve, TryLock, ReadRevision, Alembic, Apply,
         VerifyMigration, Stop, LoseSession

(* Who comes to be checked has just inspected.                               *)
LEMMA BecomesChecked ==
    ASSUME StartTypeOK, NEW c \in Containers, StartStep(c), ~LoseSession(c), job'[c].pc = "checked"
    PROVE  Inspect(c) /\ Contract(c) \subseteq tables /\ job'[c].cmd = job[c].cmd
  <1>1. CASE Launch(c)
    <2>1. job'[c].pc \in {"lock", "check"}
      BY <1>1 DEF Launch, StartTypeOK
    <2> QED BY <2>1
  <1>2. CASE Alembic(c)
    <2>1. job'[c].pc = "applying"
      BY <1>2 DEF Alembic, StartTypeOK
    <2> QED BY <2>1
  <1>3. CASE Check(c) \/ Serve(c) \/ TryLock(c) \/ ReadRevision(c) \/ Apply(c) \/ VerifyMigration(c)
    BY <1>3, Moved, Stopped
       DEF Check, Serve, TryLock, ReadRevision, Apply, VerifyMigration, Unlock, Doing
  <1>4. CASE Stop(c)
    BY <1>4, Stopped DEF Stop
  <1>5. CASE Inspect(c)
    <2>1. Then(c, "checked") /\ Contract(c) \subseteq tables
      BY <1>5, Stopped DEF Inspect
    <2> QED BY <1>5, <2>1, Moved DEF Inspect, Doing
  <1> QED BY <1>1, <1>2, <1>3, <1>4, <1>5 DEF StartStep

(* Whoever migrates after a check takes a reviewed transition, and takes no   *)
(* table away.                                                              *)
LEMMA CheckedPreserved ==
    ASSUME StartInv, NEW c \in Containers, StartStep(c)
    PROVE  CheckedHold'
  <1>0. StartTypeOK /\ LockDiscipline /\ ReadingsHold /\ JobsAccepted /\ CheckedHold
    BY DEF StartInv
  <1>1. losses' = 0 => losses = 0 /\ ~LoseSession(c)
    <2>1. losses \in Nat
      BY <1>0 DEF StartTypeOK
    <2> QED BY <2>1 DEF StartStep, Launch, Check, Inspect, Serve, TryLock, ReadRevision, Alembic, Apply,
                       VerifyMigration, Stop, LoseSession
  <1>2. SUFFICES ASSUME losses = 0, ~LoseSession(c), NEW d \in Containers, job'[d].pc = "checked"
                 PROVE  Overtaken(d)'
    BY <1>1 DEF CheckedHold, Doing
  <1>3. CASE d = c
    <2>1. Inspect(c) /\ Contract(c) \subseteq tables /\ job'[c].cmd = job[c].cmd
      BY <1>0, <1>2, <1>3, BecomesChecked
    <2>2. version = {job[c].cmd.expected} /\ job[c].cmd.expected \in Supported
      BY <1>0, <1>2, <2>1, LaunchedState DEF ReadingsHold, Inspect, Doing
    <2>3. version' = version /\ tables' = tables
      BY <2>1 DEF Inspect
    <2>4. Contract(c)' = Contract(c)
      BY <2>1 DEF Contract
    <2>5. Leads(job[c].cmd.expected, job[c].cmd.expected)
      BY DEF Leads
    <2> QED BY <1>3, <2>1, <2>2, <2>3, <2>4, <2>5 DEF Overtaken
  <1>4. CASE d # c
    <2>1. job'[d] = job[d]
      BY <1>0, <1>4, Steps
    <2>2. Overtaken(d)
      BY <1>0, <1>2, <2>1 DEF CheckedHold, Doing
    <2>3. Contract(d)' = Contract(d) /\ tables \subseteq tables'
      BY <2>1, TablesGrow DEF Contract
    <2>4. CASE version' = version
      BY <2>1, <2>2, <2>3, <2>4 DEF Overtaken
    <2>5. CASE Doing(c, "applying") /\ version' = {job[c].cmd.expected}
      <3> DEFINE target == job[c].cmd.expected
                 from == job[d].cmd.expected
      <3>1. target \in DOMAIN Sources /\ target \in Supported
        BY <1>0, <2>5, StartAssumption DEF JobsAccepted, Doing, Working
      <3>2. PICK q \in Sources[target] : version = {q}
        BY <1>0, <1>2, <2>5 DEF ReadingsHold
      <3>3. Leads(from, q)
        BY <2>2, <3>2 DEF Overtaken
      <3>4. Leads(from, target)
        BY <3>1, <3>2, <3>3 DEF Leads, Followed
      <3> QED BY <2>1, <2>2, <2>3, <2>5, <3>1, <3>4 DEF Overtaken
    <2> QED BY <1>0, <2>4, <2>5, VersionStays
  <1> QED BY <1>3, <1>4

THEOREM StartInvariant == StartSpec => []StartInv
  <1>1. StartInit => StartInv
    BY DEF StartInit, StartInv, StartTypeOK, Versions, LockDiscipline, ReadingsHold,
           JobsAccepted, CheckedHold, Doing, Down, Working
  <1>2. StartInv /\ [StartNext]_startVars => StartInv'
    <2> SUFFICES ASSUME StartInv, [StartNext]_startVars PROVE StartInv'
      OBVIOUS
    <2>1. CASE StartNext
      <3>1. PICK c \in Containers : StartStep(c)
        BY <2>1 DEF StartNext
      <3>2. LockDiscipline'
        BY <3>1, DisciplinePreserved DEF StartInv
      <3>3. ReadingsHold'
        BY <3>1, ReadingsPreserved
      <3>4. JobsAccepted' /\ CheckedHold'
        BY <3>1, AcceptedPreserved, CheckedPreserved DEF StartInv
      <3> QED BY <2>1, <3>2, <3>3, <3>4, TypePreserved DEF StartInv
    <2>2. CASE UNCHANGED startVars
      BY <2>2 DEF StartInv, StartTypeOK, LockDiscipline, ReadingsHold, JobsAccepted, CheckedHold,
                  Overtaken, Contract, startVars, Doing
    <2> QED BY <2>1, <2>2
  <1> QED BY <1>1, <1>2, PTL DEF StartSpec

(* While no job loses its session, a check ends well only on a quiet schema   *)
(* of the expected revision with the whole contract; a container begins to    *)
(* serve with that contract still whole, on a revision that reviewed          *)
(* transitions lead to from the checked one; and the revision moves by one    *)
(* alembic at a time along a transition that was reviewed.                   *)
THEOREM StartsCheckedTheorem == StartSpec => StartsChecked
  <1> DEFINE Checked ==
        losses = 0 =>
        /\ \A c \in Containers : Doing(c, "inspect") /\ job'[c].pc = "checked" =>
             /\ version = {job[c].cmd.expected} /\ Contract(c) \subseteq tables
             /\ \A d \in Containers : ~Doing(d, "applying")
        /\ \A c \in Containers : ~Doing(c, "serving") /\ job'[c].pc = "serving" =>
             /\ Contract(c) \subseteq tables
             /\ \E r \in Supported : version = {r} /\ Leads(job[c].cmd.expected, r)
        /\ version' # version => \E c \in Containers :
             /\ Doing(c, "applying") /\ \A d \in Containers \ {c} : ~Doing(d, "applying")
             /\ \E r \in Sources[job[c].cmd.expected] : version = {r}
  <1>1. StartInv /\ [StartNext]_startVars => [Checked]_startVars
    <2> SUFFICES ASSUME StartInv, NEW c \in Containers, StartStep(c), losses = 0
                 PROVE  Checked
      BY DEF StartNext
    <2>0. StartTypeOK /\ LockDiscipline /\ ReadingsHold /\ CheckedHold
      BY DEF StartInv
    <2>1. ASSUME NEW d \in Containers, Doing(d, "inspect"), job'[d].pc = "checked"
          PROVE  /\ version = {job[d].cmd.expected} /\ Contract(d) \subseteq tables
                 /\ \A e \in Containers : ~Doing(e, "applying")
      <3>1. d = c
        BY <2>0, <2>1, Steps DEF Doing
      <3>2. ~LoseSession(c)
        BY <2>1, <3>1 DEF LoseSession, Doing
      <3>3. Contract(c) \subseteq tables
        BY <2>0, <2>1, <3>1, <3>2, BecomesChecked
      <3>4. c \in sharing /\ version = {job[c].cmd.expected}
        BY <2>0, <2>1, <3>1 DEF LockDiscipline, ReadingsHold
      <3>5. \A e \in Containers : ~Doing(e, "applying")
        BY <2>0, <3>4 DEF LockDiscipline, ReadingsHold, Doing, Working
      <3> QED BY <3>1, <3>3, <3>4, <3>5
    <2>3. ASSUME NEW d \in Containers, ~Doing(d, "serving"), job'[d].pc = "serving"
          PROVE  /\ Contract(d) \subseteq tables
                 /\ \E r \in Supported : version = {r} /\ Leads(job[d].cmd.expected, r)
      <3>1. d = c
        BY <2>0, <2>3, Steps DEF Doing
      <3>2. Doing(c, "checked")
        <4>1. CASE Launch(c)
          <5>1. job'[c].pc \in {"lock", "check"}
            BY <4>1, <2>0 DEF Launch, StartTypeOK
          <5> QED BY <5>1, <2>3, <3>1
        <4>2. CASE Alembic(c)
          <5>1. job'[c].pc = "applying"
            BY <4>2, <2>0 DEF Alembic, StartTypeOK
          <5> QED BY <5>1, <2>3, <3>1
        <4>3. CASE LoseSession(c)
          BY <4>3, <2>3, <3>1 DEF LoseSession, Doing
        <4>4. CASE Check(c) \/ Inspect(c) \/ TryLock(c) \/ ReadRevision(c) \/ Apply(c) \/ VerifyMigration(c)
          BY <4>4, <2>0, <2>3, <3>1, Moved, Stopped
             DEF Check, Inspect, TryLock, ReadRevision, Apply, VerifyMigration, Unlock, Doing
        <4>5. CASE Stop(c)
          BY <4>5, <2>0, <2>3, <3>1, Stopped DEF Stop
        <4>6. CASE Serve(c)
          BY <4>6 DEF Serve
        <4> QED BY <4>1, <4>2, <4>3, <4>4, <4>5, <4>6 DEF StartStep
      <3> QED BY <2>0, <3>1, <3>2 DEF CheckedHold, Overtaken
    <2>2. ASSUME version' # version
          PROVE  \E d \in Containers :
                   /\ Doing(d, "applying") /\ \A e \in Containers \ {d} : ~Doing(e, "applying")
                   /\ \E r \in Sources[job[d].cmd.expected] : version = {r}
      <3>1. Doing(c, "applying")
        BY <2>0, <2>2, VersionStays
      <3>2. \A e \in Containers \ {c} : ~Doing(e, "applying")
        BY <2>0, <3>1 DEF LockDiscipline, ReadingsHold, Doing, Working
      <3>3. \E r \in Sources[job[c].cmd.expected] : version = {r}
        BY <2>0, <3>1 DEF ReadingsHold, Doing
      <3> QED BY <3>1, <3>2, <3>3
    <2> QED BY <2>1, <2>2, <2>3
  <1>2. StartSpec => [][Checked]_startVars
    BY <1>1, StartInvariant, PTL DEF StartSpec
  <1> QED BY <1>2 DEF StartsChecked

------------------------------------------------------------ (* AccessDevices *)
RevokeCalls == {"revoke", "list", "reload", "unpack"}
IssueCalls  == {"issue", "package"}
Ends        == {"revoke", "delete", "replace"}
Begins      == {"create", "issued"}

(* Client c waits for the answer to a call of the helper about serial s.     *)
Waits(c, kind, s) ==
    /\ client[c].pc = "waiting"
    /\ \/ kind \in IssueCalls /\ client[c].operation \in Begins
       \/ kind = "register" /\ client[c].operation = "register" /\ client[c].serial = s
       \/ kind = "download" /\ client[c].operation = "download" /\ client[c].serial = s
       \/ kind \in RevokeCalls /\ client[c].operation \in Ends /\ client[c].serial = s

(* A request in the socket or in the helper is the one its client waits for, *)
(* or nobody's, which takes a fault.                                        *)
Answerable ==
    /\ \A i \in DOMAIN inbox :
         IF inbox[i].client = Gone THEN faults > 0
         ELSE /\ Waits(inbox[i].client, inbox[i].call, inbox[i].serial)
              /\ \A j \in DOMAIN inbox : inbox[j].client = inbox[i].client => j = i
    /\ helper.pc # "idle" =>
         IF helper.client = Gone THEN faults > 0
         ELSE /\ Waits(helper.client, helper.pc, helper.serial)
              /\ \A i \in DOMAIN inbox : inbox[i].client # helper.client

(* What is said of a certificate is said of one that has a row, or is        *)
(* registered by its serial.                                                *)
Rowed(s) == s \in Serials /\ row[s] # NoRow
TableInv ==
    \A s \in Serials : row[s] # NoRow => s \in signed \cup Existing /\ row[s].status # "none"
Listed ==
    /\ TableInv
    /\ \A i \in DOMAIN inbox :
         /\ inbox[i].call = "revoke" => Rowed(inbox[i].serial)
         /\ inbox[i].call = "register" => inbox[i].serial \in Existing
    /\ helper.pc \in RevokeCalls => Rowed(helper.serial)
    /\ helper.pc = "register" => helper.serial \in Existing
    /\ \A c \in Clients : client[c].pc # "idle" =>
         /\ client[c].operation \in Ends \cup {"download"} => Rowed(client[c].serial)
         /\ client[c].operation = "register" => client[c].serial \in Existing
         /\ client[c].pc = "deleting" => client[c].operation = "delete"

(* A new certificate is on its way to the table from one place only.         *)
Coming(c, s) ==
    client[c].pc = "answered" /\ client[c].serial = s /\ client[c].operation \in Begins
OnItsWay ==
    /\ helper.pc = "package" => helper.serial \in signed /\ row[helper.serial] = NoRow
    /\ \A c \in Clients, s \in Serials \cup {0} : Coming(c, s) =>
         /\ s \in signed /\ row[s] = NoRow
         /\ helper.pc = "package" => helper.serial # s
         /\ \A d \in Clients : Coming(d, s) => d = c

(* What the table says, or will say once an answer is saved; and what has to *)
(* be so before it does.                                                    *)
Doomed(s) ==
    \/ row[s].status = "revoked"
    \/ \E c \in Clients : client[c].pc = "answered" /\ client[c].operation \in Ends
                            /\ client[c].serial = s
Barred(s) ==
    /\ s \in loaded /\ s \in crl /\ s \in revoked /\ s \notin packages
    /\ helper.pc = "reload" => s \in helper.previous
Outside ==
    /\ \A s \in Serials :
         /\ Doomed(s) => Barred(s)
         /\ row[s].status = "revoked" => ~row[s].package
         /\ row[s].deleted => row[s].status = "revoked"
    /\ \A c \in Clients : client[c].pc = "deleting" => row[client[c].serial].status = "revoked"
    /\ helper.pc \in RevokeCalls \ {"revoke"} => helper.serial \in revoked
    /\ helper.pc \in {"reload", "unpack"} => helper.serial \in crl
    /\ helper.pc = "unpack" => helper.serial \in loaded

(* Without faults, a signed certificate is in the table or on its way.       *)
Accounted ==
    faults = 0 => \A s \in signed :
        \/ row[s] # NoRow
        \/ helper.pc = "package" /\ helper.serial = s
        \/ \E c \in Clients : Coming(c, s)

AccessInv == AccessTypeOK /\ Answerable /\ Listed /\ OnItsWay /\ Outside /\ Accounted

-----------------------------------------------------------------------------
(* What the two kinds of records say, and what a step does to them.          *)

LEMMA Constants ==
    /\ Gone \notin Clients /\ 0 \notin Serials /\ MaxSerial \in Nat
    /\ \A s \in Serials : s \in 1..MaxSerial \/ s \in Existing
    /\ \A s \in 1..MaxSerial : s \in Serials /\ s \notin Existing
    /\ Existing \subseteq Serials
BY AccessAssumption DEF Gone, Serials

LEMMA Records ==
    ASSUME AccessTypeOK
    PROVE  /\ \A c \in Clients : client[c].pc # "idle" => client[c] \in ServedRequest
           /\ \A c \in Clients : client[c].pc \in {"idle", "waiting", "answered", "deleting"}
           /\ helper.pc # "idle" => helper \in HelperWork
           /\ helper = Resting <=> helper.pc = "idle"
           /\ \A i \in DOMAIN inbox : inbox[i] \in SocketMessage
           /\ Resting.pc = "idle" /\ NoRequest.pc = "idle"
<1>1. \A c \in Clients : client[c] = NoRequest \/ client[c] \in ServedRequest
  BY DEF AccessTypeOK
<1>2. helper = Resting \/ helper \in HelperWork
  BY DEF AccessTypeOK
<1>3. \A i \in DOMAIN inbox : inbox[i] \in SocketMessage
  BY ElementOfSeq, LenProperties DEF AccessTypeOK
<1>4. /\ \A c \in Clients : client[c].pc # "idle" => client[c] \in ServedRequest
      /\ \A c \in Clients : client[c].pc \in {"idle", "waiting", "answered", "deleting"}
  BY <1>1 DEF NoRequest, ServedRequest
<1>5. (helper.pc # "idle" => helper \in HelperWork) /\ (helper = Resting <=> helper.pc = "idle")
  BY <1>2 DEF Resting, HelperWork
<1> QED BY <1>3, <1>4, <1>5 DEF Resting, NoRequest

(* A step that concerns at most client c.                                   *)
OthersStay(c) == \A d \in Clients : d # c => client'[d] = client[d]
ClientsTyped  == client' \in [Clients -> {NoRequest} \cup ServedRequest]

LEMMA CallEffect ==
    ASSUME AccessTypeOK, NEW c \in Clients, NEW s \in Serials \cup {0},
           NEW o \in Operations, NEW kind \in Calls, Call(c, o, kind, s)
    PROVE  /\ ClientsTyped /\ OthersStay(c) /\ inbox' \in Seq(SocketMessage)
           /\ client'[c].pc = "waiting" /\ client'[c].operation = o /\ client'[c].serial = s
           /\ DOMAIN inbox' = DOMAIN inbox \cup {Len(inbox) + 1}
           /\ Len(inbox) + 1 \notin DOMAIN inbox
           /\ inbox'[Len(inbox) + 1].call = kind /\ inbox'[Len(inbox) + 1].serial = s
           /\ inbox'[Len(inbox) + 1].client = c
           /\ \A i \in DOMAIN inbox : inbox'[i] = inbox[i]
<1> DEFINE request == [pc |-> "waiting", operation |-> o, serial |-> s]
           message == [call |-> kind, serial |-> s, client |-> c]
<1>1. client' = [client EXCEPT ![c] = request] /\ inbox' = Append(inbox, message)
  BY DEF Call
<1>2. request \in ServedRequest /\ message \in SocketMessage
  BY DEF ServedRequest, SocketMessage
<1>3. /\ request.pc = "waiting" /\ request.operation = o /\ request.serial = s
      /\ message.call = kind /\ message.serial = s /\ message.client = c
  OBVIOUS
<1> HIDE DEF request, message
<1>4. client \in [Clients -> {NoRequest} \cup ServedRequest] /\ inbox \in Seq(SocketMessage)
  BY DEF AccessTypeOK
<1>5. ClientsTyped /\ OthersStay(c) /\ client'[c] = request
  BY <1>1, <1>2, <1>4 DEF ClientsTyped, OthersStay
<1>6. /\ inbox' \in Seq(SocketMessage) /\ DOMAIN inbox' = DOMAIN inbox \cup {Len(inbox) + 1}
      /\ Len(inbox) + 1 \notin DOMAIN inbox /\ inbox'[Len(inbox) + 1] = message
      /\ \A i \in DOMAIN inbox : inbox'[i] = inbox[i]
  BY <1>1, <1>2, <1>4, AppendProperties, LenProperties
<1> QED BY <1>3, <1>5, <1>6

(* A client whose request is over, and one whose answer has come.            *)
LEMMA ForgetEffect ==
    ASSUME AccessTypeOK, NEW c \in Clients, client' = [client EXCEPT ![c] = NoRequest]
    PROVE  ClientsTyped /\ OthersStay(c) /\ client'[c].pc = "idle"
BY DEF AccessTypeOK, ClientsTyped, OthersStay, NoRequest

LEMMA ClientMoves ==
    ASSUME AccessTypeOK, NEW c \in Clients, client[c].pc # "idle",
           NEW pc \in {"waiting", "answered", "deleting"}, NEW s \in Serials \cup {0},
           client' = [client EXCEPT ![c] = [client[c] EXCEPT !.pc = pc, !.serial = s]]
    PROVE  /\ ClientsTyped /\ OthersStay(c) /\ client'[c].pc = pc /\ client'[c].serial = s
           /\ client'[c].operation = client[c].operation
<1>1. client[c] \in ServedRequest
  BY Records
<1> DEFINE moved == [client[c] EXCEPT !.pc = pc, !.serial = s]
<1>2. moved \in ServedRequest /\ moved.pc = pc /\ moved.serial = s
      /\ moved.operation = client[c].operation
  BY <1>1 DEF ServedRequest
<1> HIDE DEF moved
<1>3. client' = [client EXCEPT ![c] = moved]
  BY DEF moved
<1> QED BY <1>2, <1>3 DEF AccessTypeOK, ClientsTyped, OthersStay

LEMMA AnswerEffect ==
    ASSUME AccessInv, helper.pc # "idle", Answer(helper.serial)
    PROVE  /\ ClientsTyped /\ OthersStay(helper.client)
           /\ helper.client \in Clients =>
                /\ client'[helper.client].pc = "answered"
                /\ client'[helper.client].serial = helper.serial
                /\ client'[helper.client].operation = client[helper.client].operation
<1>1. AccessTypeOK /\ helper \in HelperWork
  BY Records DEF AccessInv
<1>2. helper.client \in Clients \cup {Gone} /\ helper.serial \in Serials \cup {0}
  BY <1>1 DEF HelperWork
<1>3. CASE helper.client = Gone
  BY <1>1, <1>3, Constants DEF Answer, ClientsTyped, OthersStay, AccessTypeOK
<1>4. CASE helper.client # Gone
  <2>1. PICK c \in Clients : c = helper.client
    BY <1>2, <1>4
  <2>2. client[c].pc # "idle"
    BY <1>4, <2>1 DEF AccessInv, Answerable, Waits
  <2>3. client' = [client EXCEPT ![c] = [client[c] EXCEPT !.pc = "answered", !.serial = helper.serial]]
    BY <1>1, <1>4, <2>1 DEF Answer, AccessTypeOK
  <2>4. /\ ClientsTyped /\ OthersStay(c) /\ client'[c].pc = "answered"
        /\ client'[c].serial = helper.serial /\ client'[c].operation = client[c].operation
    BY <1>1, <1>2, <2>2, <2>3, ClientMoves
  <2> QED BY <2>1, <2>4
<1> QED BY <1>3, <1>4

LEMMA RefuseEffect ==
    ASSUME AccessInv, helper.pc # "idle", Refuse
    PROVE  /\ ClientsTyped /\ OthersStay(helper.client) /\ helper' = Resting
           /\ helper.client \in Clients => client'[helper.client].pc = "idle"
<1>1. AccessTypeOK /\ helper \in HelperWork
  BY Records DEF AccessInv
<1>2. helper.client \in Clients \cup {Gone}
  BY <1>1 DEF HelperWork
<1>3. CASE helper.client = Gone
  BY <1>1, <1>3, Constants DEF Refuse, ClientsTyped, OthersStay, AccessTypeOK
<1>4. CASE helper.client # Gone
  BY <1>1, <1>2, <1>4, ForgetEffect DEF Refuse
<1> QED BY <1>3, <1>4

-----------------------------------------------------------------------------
(* Who waits for what, whichever step is taken.                              *)

(* The socket as it is: those who wait go on waiting, but for the one the    *)
(* helper is done with.                                                     *)
LEMMA AnswerableStays ==
    ASSUME AccessInv, UNCHANGED inbox, faults' \in {faults, faults + 1},
           \/ helper'.pc = "idle"
           \/ /\ helper.pc # "idle" /\ helper'.client = helper.client
              /\ \A c \in Clients : Waits(c, helper.pc, helper.serial)
                                       => Waits(c, helper.pc, helper.serial)',
           \A c \in Clients :
              /\ client[c].pc = "waiting"
              /\ helper.pc # "idle" /\ c = helper.client => helper'.pc # "idle"
              => client'[c] = client[c]
    PROVE  Answerable'
<1>1. /\ AccessTypeOK /\ Answerable /\ faults \in Nat
      /\ \A i \in DOMAIN inbox : inbox[i].client # Gone => inbox[i].client \in Clients
      /\ helper.pc # "idle" => helper.client \in Clients \cup {Gone}
  BY Records DEF AccessInv, AccessTypeOK, SocketMessage, HelperWork
<1>2. faults > 0 => faults' > 0
  BY <1>1
<1>3. ASSUME NEW i \in DOMAIN inbox
      PROVE  IF inbox[i].client = Gone THEN faults' > 0
             ELSE /\ Waits(inbox[i].client, inbox[i].call, inbox[i].serial)'
                  /\ \A j \in DOMAIN inbox : inbox[j].client = inbox[i].client => j = i
  <2>1. CASE inbox[i].client = Gone
    BY <1>1, <1>2, <2>1 DEF Answerable
  <2>2. CASE inbox[i].client # Gone
    <3>1. PICK c \in Clients : c = inbox[i].client
      BY <1>1, <2>2
    <3>2. Waits(c, inbox[i].call, inbox[i].serial)
      BY <1>1, <2>2, <3>1 DEF Answerable
    <3>3. c = helper.client => helper.pc = "idle"
      BY <1>1, <2>2, <3>1, Constants DEF Answerable
    <3>4. client'[c] = client[c]
      BY <3>2, <3>3 DEF Waits
    <3>5. Waits(c, inbox[i].call, inbox[i].serial)'
      BY <3>2, <3>4 DEF Waits
    <3> QED BY <1>1, <2>2, <3>1, <3>5 DEF Answerable
  <2> QED BY <2>1, <2>2
<1>4. ASSUME helper'.pc # "idle"
      PROVE  IF helper'.client = Gone THEN faults' > 0
             ELSE /\ Waits(helper.client, helper.pc, helper.serial)'
                  /\ \A i \in DOMAIN inbox : inbox[i].client # helper'.client
  BY <1>1, <1>2, <1>4 DEF Answerable
<1> QED BY <1>3, <1>4 DEF Answerable

(* The helper goes on with the request it has.                              *)
LEMMA WorkGoesOn ==
    ASSUME AccessInv, UNCHANGED <<row, client, inbox, faults>>, signed \subseteq signed',
           helper.pc # "idle", helper'.client = helper.client,
           \/ helper.pc \in IssueCalls /\ helper'.pc \in IssueCalls
           \/ helper.pc \in RevokeCalls /\ helper'.pc \in RevokeCalls /\ helper'.serial = helper.serial
    PROVE  Answerable' /\ Listed'
<1>1. \A c \in Clients : Waits(c, helper.pc, helper.serial) => Waits(c, helper.pc, helper.serial)'
  BY DEF Waits, IssueCalls, RevokeCalls
<1>2. Answerable'
  <2>1. UNCHANGED <<inbox, client>> /\ faults' \in {faults, faults + 1}
    OBVIOUS
  <2>2. \A c \in Clients :
           /\ client[c].pc = "waiting"
           /\ helper.pc # "idle" /\ c = helper.client => helper'.pc # "idle"
           => client'[c] = client[c]
    BY <2>1
  <2> QED BY <1>1, <2>1, <2>2, AnswerableStays
<1>3. Listed'
  BY DEF AccessInv, Listed, TableInv, Rowed, IssueCalls, RevokeCalls
<1> QED BY <1>2, <1>3

(* The helper has done with a request, whose client is answered or refused.  *)
LEMMA WorkEnds ==
    ASSUME AccessInv, UNCHANGED <<row, inbox, signed>>, faults' \in {faults, faults + 1},
           helper.pc # "idle", helper' = Resting, OthersStay(helper.client),
           helper.client \in Clients =>
               \/ client'[helper.client].pc = "idle"
               \/ /\ client'[helper.client].pc = "answered"
                  /\ client'[helper.client].operation = client[helper.client].operation
                  /\ client'[helper.client].serial = helper.serial
    PROVE  Answerable' /\ Listed'
<1>1. AccessTypeOK /\ helper'.pc = "idle" /\ Answerable /\ Listed
  BY DEF AccessInv, Resting
<1>2. Answerable'
  <2>1. \A c \in Clients :
           /\ client[c].pc = "waiting"
           /\ helper.pc # "idle" /\ c = helper.client => helper'.pc # "idle"
           => client'[c] = client[c]
    BY <1>1 DEF OthersStay
  <2> QED BY <1>1, <2>1, AnswerableStays
<1>3. ASSUME NEW c \in Clients, client'[c].pc # "idle"
      PROVE  /\ client'[c].operation \in Ends \cup {"download"} => Rowed(client'[c].serial)
             /\ client'[c].operation = "register" => client'[c].serial \in Existing
             /\ client'[c].pc = "deleting" => client'[c].operation = "delete"
  <2>1. CASE c # helper.client
    BY <1>1, <1>3, <2>1 DEF OthersStay, Listed, TableInv
  <2>2. CASE c = helper.client
    <3>1. Waits(c, helper.pc, helper.serial)
      BY <1>1, <2>2, Constants DEF Answerable
    <3>2. /\ client'[c].pc = "answered" /\ client'[c].operation = client[c].operation
          /\ client'[c].serial = helper.serial
      BY <1>3, <2>2
    <3>3. client[c].pc = "waiting"
          /\ (client[c].operation \in Begins \/ client[c].serial = helper.serial)
      BY <3>1 DEF Waits
    <3> QED BY <1>1, <3>2, <3>3 DEF Listed, TableInv, Begins, Ends
  <2> QED BY <2>1, <2>2
<1>4. Listed'
  BY <1>1, <1>3 DEF Listed, TableInv, Rowed, RevokeCalls
<1> QED BY <1>2, <1>4

-----------------------------------------------------------------------------
(* The steps of the helper.                                                  *)

LEMMA SignInv == ASSUME AccessInv, Sign PROVE AccessInv'
<1>1. PICK s \in 1..MaxSerial :
         /\ s \notin signed /\ signed' = signed \cup {s}
         /\ helper' = [helper EXCEPT !.pc = "package", !.serial = s]
  BY DEF Sign
<1>2. AccessTypeOK /\ helper \in HelperWork /\ helper.pc = "issue"
  BY Records DEF Sign, HelperAt, AccessInv
<1>3. /\ helper' \in HelperWork /\ helper'.pc = "package" /\ helper'.serial = s
      /\ helper'.client = helper.client
  BY <1>1, <1>2, Constants DEF HelperWork
<1>4. UNCHANGED <<row, client, inbox, revoked, packages, crl, loaded, faults>>
  BY DEF Sign
<1>5. AccessTypeOK'
  BY <1>1, <1>2, <1>3, <1>4 DEF AccessTypeOK
<1>6. Answerable' /\ Listed'
  BY <1>1, <1>2, <1>3, <1>4, WorkGoesOn DEF IssueCalls
<1>7. s \in Serials /\ row[s] = NoRow
  BY <1>1, Constants DEF AccessInv, Listed, TableInv
<1>8. OnItsWay'
  BY <1>1, <1>2, <1>3, <1>4, <1>7 DEF AccessInv, OnItsWay, Coming
<1>9. Outside'
  BY <1>2, <1>3, <1>4 DEF AccessInv, Outside, Doomed, Barred, RevokeCalls
<1>10. Accounted'
  BY <1>1, <1>2, <1>3, <1>4 DEF AccessInv, Accounted, Coming
<1> QED BY <1>5, <1>6, <1>8, <1>9, <1>10 DEF AccessInv

LEMMA RevokeInv == ASSUME AccessInv, Revoke PROVE AccessInv'
<1>1. AccessTypeOK /\ helper \in HelperWork /\ helper.pc = "revoke"
  BY Records DEF Revoke, HelperAt, AccessInv
<1>2. /\ helper' \in HelperWork /\ helper'.pc = "list" /\ helper'.serial = helper.serial
      /\ helper'.client = helper.client
  BY <1>1 DEF Revoke, HelperGo, HelperWork
<1>3. /\ UNCHANGED <<row, client, inbox, signed, packages, crl, loaded, faults>>
      /\ revoked' = revoked \cup {helper.serial}
  BY DEF Revoke
<1>4. helper.serial \in Serials
  BY <1>1 DEF AccessInv, Listed, TableInv, Rowed, RevokeCalls
<1>5. AccessTypeOK'
  BY <1>1, <1>2, <1>3, <1>4 DEF AccessTypeOK
<1>6. Answerable' /\ Listed'
  BY <1>1, <1>2, <1>3, WorkGoesOn DEF RevokeCalls
<1>7. OnItsWay' /\ Accounted'
  BY <1>1, <1>2, <1>3 DEF AccessInv, OnItsWay, Accounted, Coming
<1>8. Outside'
  BY <1>1, <1>2, <1>3 DEF AccessInv, Outside, Doomed, Barred, RevokeCalls
<1> QED BY <1>5, <1>6, <1>7, <1>8 DEF AccessInv

LEMMA WriteCrlInv == ASSUME AccessInv, WriteCrl PROVE AccessInv'
<1>1. AccessTypeOK /\ helper \in HelperWork /\ helper.pc = "list"
  BY Records DEF WriteCrl, HelperAt, AccessInv
<1>2. /\ helper' \in HelperWork /\ helper'.pc = "reload" /\ helper'.serial = helper.serial
      /\ helper'.client = helper.client /\ helper'.previous = crl
  BY <1>1 DEF WriteCrl, HelperWork, AccessTypeOK
<1>3. UNCHANGED <<row, client, inbox, signed, revoked, packages, loaded, faults>> /\ crl' = revoked
  BY DEF WriteCrl
<1>4. AccessTypeOK'
  BY <1>1, <1>2, <1>3 DEF AccessTypeOK
<1>5. Answerable' /\ Listed'
  BY <1>1, <1>2, <1>3, WorkGoesOn DEF RevokeCalls
<1>6. OnItsWay' /\ Accounted'
  BY <1>1, <1>2, <1>3 DEF AccessInv, OnItsWay, Accounted, Coming
<1>7. Outside'
  BY <1>1, <1>2, <1>3 DEF AccessInv, Outside, Doomed, Barred, RevokeCalls
<1> QED BY <1>4, <1>5, <1>6, <1>7 DEF AccessInv

LEMMA ReloadInv == ASSUME AccessInv, Reload PROVE AccessInv'
<1>1. AccessTypeOK /\ helper \in HelperWork /\ helper.pc = "reload"
  BY Records DEF Reload, HelperAt, AccessInv
<1>2. /\ helper' \in HelperWork /\ helper'.pc = "unpack" /\ helper'.serial = helper.serial
      /\ helper'.client = helper.client
  BY <1>1 DEF Reload, HelperGo, HelperWork
<1>3. UNCHANGED <<row, client, inbox, signed, revoked, packages, crl, faults>> /\ loaded' = crl
  BY DEF Reload
<1>4. AccessTypeOK'
  BY <1>1, <1>2, <1>3 DEF AccessTypeOK
<1>5. Answerable' /\ Listed'
  BY <1>1, <1>2, <1>3, WorkGoesOn DEF RevokeCalls
<1>6. OnItsWay' /\ Accounted'
  BY <1>1, <1>2, <1>3 DEF AccessInv, OnItsWay, Accounted, Coming
<1>7. Outside'
  BY <1>1, <1>2, <1>3 DEF AccessInv, Outside, Doomed, Barred, RevokeCalls
<1> QED BY <1>4, <1>5, <1>6, <1>7 DEF AccessInv

(* A refusal leaves the table and the packages alone; which lists it may     *)
(* leave behind, the three that refuse show.                                *)
LEMMA Refused ==
    ASSUME AccessInv, helper.pc # "idle", Refuse, faults' \in {faults, faults + 1},
           helper.pc # "package", UNCHANGED <<row, inbox, signed, revoked>>,
           packages' \subseteq packages, crl' \subseteq Serials, loaded' \subseteq Serials,
           \A s \in Serials : Barred(s) => s \in loaded' /\ s \in crl'
    PROVE  AccessInv'
<1>1. /\ AccessTypeOK /\ helper \in HelperWork /\ helper.client \in Clients \cup {Gone}
      /\ helper' = Resting /\ helper'.pc = "idle" /\ faults \in Nat
  BY Records DEF AccessInv, HelperWork, AccessTypeOK, Refuse, Resting
<1>2. /\ ClientsTyped /\ OthersStay(helper.client)
      /\ helper.client \in Clients => client'[helper.client].pc = "idle"
  BY RefuseEffect
<1>3. AccessTypeOK'
  BY <1>1, <1>2 DEF AccessTypeOK, ClientsTyped, ServedRequest, SocketMessage, HelperWork
<1>4. Answerable' /\ Listed'
  BY <1>1, <1>2, WorkEnds
<1>5. \A c \in Clients : client'[c] = client[c] \/ client'[c].pc = "idle"
  BY <1>2 DEF OthersStay
<1>6. OnItsWay'
  BY <1>1, <1>5 DEF AccessInv, OnItsWay, Coming
<1>7. Outside'
  BY <1>1, <1>5 DEF AccessInv, Outside, Doomed, Barred, RevokeCalls
<1>8. Accounted'
  <2>1. ASSUME NEW c \in Clients, NEW s, Coming(c, s) PROVE Coming(c, s)'
    <3>1. c # helper.client
      BY <2>1, Constants DEF AccessInv, Answerable, Waits, Coming
    <3> QED BY <1>2, <2>1, <3>1 DEF OthersStay, Coming
  <2>2. faults' = 0 => faults = 0
    BY <1>1
  <2> QED BY <1>1, <2>1, <2>2 DEF AccessInv, Accounted
<1> QED BY <1>3, <1>4, <1>6, <1>7, <1>8 DEF AccessInv

LEMMA RefusalsInv == ASSUME AccessInv, SignFails \/ RevokeFails \/ ReloadFails PROVE AccessInv'
<1>1. CASE SignFails \/ RevokeFails
  BY <1>1, Refused DEF SignFails, RevokeFails, HelperAt, Fault, Barred, AccessInv, AccessTypeOK
<1>2. CASE ReloadFails
  <2>1. AccessTypeOK /\ helper \in HelperWork /\ helper.pc = "reload"
    BY <1>2, Records DEF ReloadFails, HelperAt, AccessInv
  <2>2. /\ crl' = helper.previous /\ loaded' \in {loaded, crl} /\ faults' = faults + 1
        /\ UNCHANGED <<row, inbox, signed, revoked, packages>> /\ Refuse
    BY <1>2 DEF ReloadFails, Fault
  <2>3. crl' \subseteq Serials /\ loaded' \subseteq Serials
    BY <2>1, <2>2 DEF AccessTypeOK, HelperWork
  <2>4. \A s \in Serials : Barred(s) => s \in loaded' /\ s \in crl'
    BY <2>1, <2>2 DEF Barred
  <2> QED BY <2>1, <2>2, <2>3, <2>4, Refused
<1> QED BY <1>1, <1>2

(* An answer about a serial that is in the table.                            *)
LEMMA Answered ==
    ASSUME AccessInv, helper.pc # "idle", Answer(helper.serial), helper' = Resting,
           helper.pc \in {"download", "register", "unpack"},
           UNCHANGED <<row, inbox, signed, revoked, crl, loaded, faults>>, packages' \subseteq packages,
           helper.pc = "unpack" => helper.serial \notin packages'
    PROVE  AccessInv'
<1>1. /\ AccessTypeOK /\ helper \in HelperWork /\ helper.client \in Clients \cup {Gone}
      /\ helper'.pc = "idle"
  BY Records DEF AccessInv, HelperWork, AccessTypeOK, Resting
<1>2. /\ ClientsTyped /\ OthersStay(helper.client)
      /\ helper.client \in Clients =>
           /\ client'[helper.client].pc = "answered" /\ client'[helper.client].serial = helper.serial
           /\ client'[helper.client].operation = client[helper.client].operation
  BY AnswerEffect
<1>3. AccessTypeOK'
  BY <1>1, <1>2 DEF AccessTypeOK, ClientsTyped
<1>4. Answerable' /\ Listed'
  BY <1>1, <1>2, WorkEnds
<1>5. helper.client \in Clients =>
        /\ client[helper.client].pc = "waiting" /\ client[helper.client].operation \notin Begins
        /\ client[helper.client].operation \in Ends => helper.pc = "unpack"
  BY Constants DEF AccessInv, Answerable, Waits, IssueCalls, RevokeCalls, Begins, Ends
<1>6. \A c \in Clients, s \in Serials \cup {0} : Coming(c, s)' <=> Coming(c, s)
  BY <1>2, <1>5 DEF OthersStay, Coming
<1>7. OnItsWay'
  BY <1>1, <1>6 DEF AccessInv, OnItsWay
<1>8. Accounted'
  <2>1. signed \subseteq Serials
    BY <1>1, Constants DEF AccessTypeOK
  <2> QED BY <1>1, <1>6, <2>1 DEF AccessInv, Accounted
<1>9. \A s \in Serials : Doomed(s)' => Doomed(s) \/ (helper.pc = "unpack" /\ s = helper.serial)
  <2>1. ASSUME NEW s \in Serials, NEW c \in Clients, client'[c].pc = "answered",
               client'[c].operation \in Ends, client'[c].serial = s
        PROVE  Doomed(s) \/ (helper.pc = "unpack" /\ s = helper.serial)
    <3>1. CASE c # helper.client
      BY <1>2, <2>1, <3>1 DEF OthersStay, Doomed
    <3>2. CASE c = helper.client
      BY <1>2, <1>5, <2>1, <3>2
    <3> QED BY <3>1, <3>2
  <2> QED BY <2>1 DEF Doomed
<1>10. Outside'
  <2>1. \A s \in Serials : Doomed(s)' => Barred(s)'
    BY <1>1, <1>9 DEF AccessInv, Outside, Barred, RevokeCalls
  <2>2. \A c \in Clients : client'[c].pc = "deleting" => client'[c] = client[c]
    BY <1>2 DEF OthersStay
  <2> QED BY <1>1, <2>1, <2>2 DEF AccessInv, Outside, RevokeCalls
<1> QED BY <1>3, <1>4, <1>7, <1>8, <1>10 DEF AccessInv

LEMMA AnswersInv == ASSUME AccessInv, Download \/ Register \/ Unpack PROVE AccessInv'
<1>1. CASE Register \/ Unpack
  BY <1>1, Answered DEF Register, Unpack, HelperAt
<1>2. CASE Download /\ helper.serial \in packages
  BY <1>2, Answered DEF Download, HelperAt
<1>3. CASE Download /\ helper.serial \notin packages
  BY <1>3, Refused DEF Download, HelperAt, AccessInv, AccessTypeOK, Barred
<1> QED BY <1>1, <1>2, <1>3

LEMMA PackInv == ASSUME AccessInv, Pack PROVE AccessInv'
<1>1. /\ AccessTypeOK /\ helper \in HelperWork /\ helper.client \in Clients \cup {Gone}
      /\ helper.pc = "package" /\ helper' = Resting /\ helper'.pc = "idle"
  BY Records DEF AccessInv, HelperWork, AccessTypeOK, Pack, HelperAt, Resting
<1>2. /\ UNCHANGED <<row, inbox, signed, revoked, crl, loaded, faults>>
      /\ packages' = packages \cup {helper.serial}
  BY DEF Pack
<1>3. /\ ClientsTyped /\ OthersStay(helper.client)
      /\ helper.client \in Clients =>
           /\ client'[helper.client].pc = "answered" /\ client'[helper.client].serial = helper.serial
           /\ client'[helper.client].operation = client[helper.client].operation
  BY <1>1, AnswerEffect DEF Pack
<1>4. helper.serial \in signed /\ row[helper.serial] = NoRow /\ helper.serial \in Serials
  BY <1>1, Constants DEF AccessInv, OnItsWay, AccessTypeOK
<1>5. AccessTypeOK'
  BY <1>1, <1>2, <1>3, <1>4 DEF AccessTypeOK, ClientsTyped
<1>6. Answerable' /\ Listed'
  BY <1>1, <1>2, <1>3, WorkEnds
<1>7. helper.client \in Clients =>
        client[helper.client].pc = "waiting" /\ client[helper.client].operation \in Begins
  BY <1>1, Constants DEF AccessInv, Answerable, Waits, IssueCalls, RevokeCalls
<1>8. \A c \in Clients, s \in Serials \cup {0} :
        Coming(c, s)' <=> Coming(c, s) \/ (c = helper.client /\ s = helper.serial)
  <2>1. ASSUME NEW c \in Clients, NEW s, c # helper.client PROVE Coming(c, s)' <=> Coming(c, s)
    BY <1>3, <2>1 DEF OthersStay, Coming
  <2>2. ASSUME NEW c \in Clients, NEW s, c = helper.client
        PROVE  ~Coming(c, s) /\ (Coming(c, s)' <=> s = helper.serial)
    BY <1>3, <1>7, <2>2 DEF Coming
  <2> QED BY <2>1, <2>2
<1>9. OnItsWay'
  BY <1>1, <1>2, <1>4, <1>8 DEF AccessInv, OnItsWay
<1>10. \A s \in Serials : Doomed(s)' => Doomed(s)
  BY <1>2, <1>3, <1>7 DEF OthersStay, Doomed, Begins, Ends
<1>11. ~Doomed(helper.serial)
  <2>1. NoRow.status # "revoked"
    BY DEF NoRow
  <2>2. ASSUME NEW c \in Clients, client[c].pc = "answered", client[c].operation \in Ends
        PROVE  client[c].serial # helper.serial
    BY <1>4, <2>2 DEF AccessInv, Listed, TableInv, Rowed
  <2> QED BY <1>4, <2>1, <2>2 DEF Doomed
<1>12. Outside'
  <2>1. \A s \in Serials : Doomed(s)' => Barred(s)'
    BY <1>1, <1>2, <1>10, <1>11 DEF AccessInv, Outside, Barred, RevokeCalls
  <2>2. \A c \in Clients : client'[c].pc = "deleting" => client'[c] = client[c]
    BY <1>3 DEF OthersStay
  <2> QED BY <1>1, <1>2, <2>1, <2>2 DEF AccessInv, Outside, RevokeCalls
<1>13. Accounted'
  <2>1. faults = 0 => helper.client \in Clients
    BY <1>1 DEF AccessInv, Answerable
  <2>2. signed \subseteq Serials
    BY <1>1, Constants DEF AccessTypeOK
  <2>3. \A c \in Clients, s \in signed : c = helper.client /\ s = helper.serial => Coming(c, s)'
    BY <1>8, <2>2
  <2>4. \A c \in Clients, s \in signed : Coming(c, s) => Coming(c, s)'
    BY <1>8, <2>2
  <2> QED BY <1>1, <1>2, <2>1, <2>3, <2>4 DEF AccessInv, Accounted
<1> QED BY <1>5, <1>6, <1>9, <1>12, <1>13 DEF AccessInv

LEMMA TakeInv == ASSUME AccessInv, Take PROVE AccessInv'
<1> DEFINE head == Head(inbox)
<1>1. /\ AccessTypeOK /\ helper.pc = "idle" /\ inbox # <<>> /\ inbox \in Seq(SocketMessage)
      /\ \A i \in DOMAIN inbox : inbox[i] \in SocketMessage
  BY Records DEF AccessInv, AccessTypeOK, Take, HelperAt
<1>2. /\ head = inbox[1] /\ 1 \in DOMAIN inbox
      /\ Tail(inbox) \in Seq(SocketMessage) /\ Len(Tail(inbox)) = Len(inbox) - 1
      /\ \A i \in 1..Len(Tail(inbox)) : i + 1 \in DOMAIN inbox /\ Tail(inbox)[i] = inbox[i + 1]
  <2>1. Len(inbox) \in Nat /\ Len(inbox) # 0 /\ DOMAIN inbox = 1..Len(inbox)
    BY <1>1, LenProperties, EmptySeq
  <2> QED BY <1>1, <2>1, HeadTailProperties
<1>3. DOMAIN inbox' = 1..Len(Tail(inbox)) /\ inbox' = Tail(inbox)
  BY <1>2, LenProperties DEF Take
<1>4. \A i \in DOMAIN inbox' : i + 1 \in DOMAIN inbox /\ i + 1 # 1 /\ inbox'[i] = inbox[i + 1]
  <2>1. \A i \in 1..Len(Tail(inbox)) : i \in Nat /\ i >= 1
    BY <1>2, LenProperties
  <2> QED BY <1>2, <1>3, <2>1
<1>5. helper' = [pc |-> head.call, serial |-> head.serial, client |-> head.client, previous |-> {}]
  BY DEF Take
<1>6. /\ helper'.pc = inbox[1].call /\ helper'.serial = inbox[1].serial
      /\ helper'.client = inbox[1].client /\ helper' \in HelperWork
  <2>1. inbox[1] \in SocketMessage
    BY <1>1, <1>2
  <2> QED BY <1>2, <1>5, <2>1 DEF SocketMessage, HelperWork, Calls
<1>7. UNCHANGED <<row, client, signed, revoked, packages, crl, loaded, faults>>
  BY DEF Take
<1>8. /\ helper'.pc \in {"issue", "register", "revoke", "download"}
      /\ \A i \in DOMAIN inbox : inbox[i].client \in Clients \cup {Gone}
  BY <1>1, <1>2, <1>6 DEF SocketMessage, Calls
<1> HIDE DEF head
<1>9. AccessTypeOK'
  BY <1>1, <1>2, <1>3, <1>6, <1>7 DEF AccessTypeOK
<1>10. Answerable'
  <2>1. \A c \in Clients : \A kind, s : Waits(c, kind, s)' <=> Waits(c, kind, s)
    BY <1>7 DEF Waits
  <2>2. ASSUME NEW i \in DOMAIN inbox'
        PROVE  IF inbox'[i].client = Gone THEN faults' > 0
               ELSE /\ Waits(inbox[i + 1].client, inbox[i + 1].call, inbox[i + 1].serial)
                    /\ inbox'[i].client # inbox[1].client
                    /\ \A j \in DOMAIN inbox' : inbox'[j].client = inbox'[i].client => j = i
    <3>1. i \in Nat /\ i + 1 \in DOMAIN inbox /\ i + 1 # 1 /\ inbox'[i] = inbox[i + 1]
      BY <1>2, <1>3, <1>4, LenProperties
    <3>2. \A j \in DOMAIN inbox' : j \in Nat /\ (j + 1 = i + 1 => j = i)
      BY <1>2, <1>3, <3>1, LenProperties
    <3> QED BY <1>2, <1>4, <1>7, <3>1, <3>2 DEF AccessInv, Answerable
  <2>3. IF inbox[1].client = Gone THEN faults > 0
        ELSE Waits(inbox[1].client, inbox[1].call, inbox[1].serial)
    BY <1>2 DEF AccessInv, Answerable
  <2>4. ASSUME NEW i \in DOMAIN inbox', inbox'[i].client # Gone
        PROVE  Waits(inbox[i].client, inbox[i].call, inbox[i].serial)'
    <3>1. PICK c, kind, s :
             c \in Clients /\ c = inbox[i + 1].client /\ kind = inbox[i + 1].call /\ s = inbox[i + 1].serial
      BY <1>4, <1>8, <2>4
    <3>2. Waits(c, kind, s)'
      BY <2>1, <2>2, <2>4, <3>1
    <3> QED BY <1>4, <3>1, <3>2
  <2>5. ASSUME helper'.client # Gone PROVE Waits(helper.client, helper.pc, helper.serial)'
    <3>1. PICK c, kind, s :
             c \in Clients /\ c = inbox[1].client /\ kind = inbox[1].call /\ s = inbox[1].serial
      BY <1>2, <1>6, <1>8, <2>5
    <3>2. Waits(c, kind, s)'
      BY <1>6, <2>1, <2>3, <2>5, <3>1
    <3> QED BY <1>6, <3>1, <3>2
  <2> QED BY <1>6, <1>7, <2>2, <2>3, <2>4, <2>5 DEF Answerable
<1>11. Listed'
  BY <1>2, <1>4, <1>6, <1>7, <1>8 DEF AccessInv, Listed, TableInv, Rowed, RevokeCalls
<1>12. OnItsWay' /\ Accounted'
  BY <1>1, <1>7, <1>8 DEF AccessInv, OnItsWay, Accounted, Coming
<1>13. Outside'
  BY <1>1, <1>7, <1>8 DEF AccessInv, Outside, Doomed, Barred, RevokeCalls
<1> QED BY <1>9, <1>10, <1>11, <1>12, <1>13 DEF AccessInv

(* The helper dies and starts again, nginx does, a package is cleaned up.    *)
LEMMA HelperRestartsInv == ASSUME AccessInv, HelperRestarts PROVE AccessInv'
<1>1. /\ AccessTypeOK /\ helper' = Resting /\ helper'.pc = "idle" /\ inbox' = <<>>
      /\ faults' = faults + 1 /\ faults \in Nat
      /\ UNCHANGED <<row, signed, revoked, packages, crl, loaded>>
  BY DEF AccessInv, AccessTypeOK, HelperRestarts, Fault, Resting
<1>2. /\ ClientsTyped
      /\ \A c \in Clients : client'[c] = client[c] \/ client'[c].pc = "idle"
  BY <1>1 DEF HelperRestarts, ClientsTyped, NoRequest, AccessTypeOK
<1>3. AccessTypeOK'
  BY <1>1, <1>2, EmptySeq DEF AccessTypeOK, ClientsTyped
<1>4. DOMAIN inbox' = {}
  BY <1>1
<1>5. Answerable' /\ Listed'
  BY <1>1, <1>2, <1>4 DEF AccessInv, Answerable, Listed, TableInv, Rowed, RevokeCalls
<1>6. OnItsWay' /\ Accounted'
  BY <1>1, <1>2 DEF AccessInv, OnItsWay, Accounted, Coming
<1>7. Outside'
  BY <1>1, <1>2 DEF AccessInv, Outside, Doomed, Barred, RevokeCalls
<1> QED BY <1>3, <1>5, <1>6, <1>7 DEF AccessInv

LEMMA ListsInv == ASSUME AccessInv, CleanUpPackage \/ NginxRestarts PROVE AccessInv'
<1>1. /\ AccessTypeOK /\ packages' \subseteq packages /\ loaded' \in {loaded, crl}
      /\ UNCHANGED <<row, client, inbox, helper, signed, revoked, crl, faults>>
  BY DEF AccessInv, CleanUpPackage, NginxRestarts
<1>2. AccessTypeOK'
  BY <1>1 DEF AccessTypeOK
<1>3. Answerable' /\ Listed'
  BY <1>1 DEF AccessInv, Answerable, Waits, Listed, TableInv, Rowed
<1>4. OnItsWay' /\ Accounted'
  BY <1>1 DEF AccessInv, OnItsWay, Accounted, Coming
<1>5. Outside'
  BY <1>1 DEF AccessInv, Outside, Doomed, Barred, RevokeCalls
<1> QED BY <1>2, <1>3, <1>4, <1>5 DEF AccessInv

-----------------------------------------------------------------------------
(* The steps of the backend.                                                 *)

(* A request ends unanswered, and with a fault.                             *)
LEMMA DropsClient ==
    ASSUME AccessInv, NEW c \in Clients, client' = [client EXCEPT ![c] = NoRequest],
           faults' = faults + 1, UNCHANGED <<row, signed, revoked, packages, crl, loaded>>,
           helper'.pc = helper.pc,
           helper.pc # "idle" => helper'.serial = helper.serial /\ helper'.previous = helper.previous,
           DOMAIN inbox' = DOMAIN inbox,
           \A i \in DOMAIN inbox : inbox'[i].call = inbox[i].call /\ inbox'[i].serial = inbox[i].serial
    PROVE  Listed' /\ OnItsWay' /\ Outside' /\ Accounted'
<1>1. AccessTypeOK /\ faults \in Nat /\ \A d \in Clients : client'[d] = client[d] \/ client'[d].pc = "idle"
  BY ForgetEffect DEF AccessInv, AccessTypeOK, OthersStay
<1>2. Listed'
  BY <1>1 DEF AccessInv, Listed, TableInv, Rowed, RevokeCalls
<1>3. OnItsWay' /\ Accounted'
  BY <1>1 DEF AccessInv, OnItsWay, Accounted, Coming
<1>4. Outside'
  BY <1>1 DEF AccessInv, Outside, Doomed, Barred, RevokeCalls
<1> QED BY <1>2, <1>3, <1>4

LEMMA TimeOutInv == ASSUME AccessInv, NEW c \in Clients, TimeOut(c) PROVE AccessInv'
<1>1. /\ AccessTypeOK /\ client[c].pc = "waiting" /\ client' = [client EXCEPT ![c] = NoRequest]
      /\ faults' = faults + 1 /\ faults \in Nat
      /\ UNCHANGED <<row, signed, revoked, packages, crl, loaded>>
      /\ inbox' = [i \in DOMAIN inbox |-> Abandon(c, inbox[i])]
      /\ helper' = IF helper = Resting THEN Resting ELSE Abandon(c, helper)
  BY DEF AccessInv, AccessTypeOK, TimeOut, Fault
<1>2. ClientsTyped /\ OthersStay(c) /\ client'[c].pc = "idle"
  BY <1>1, ForgetEffect
<1>3. ASSUME NEW i \in DOMAIN inbox
      PROVE  /\ inbox'[i] \in SocketMessage /\ inbox'[i].call = inbox[i].call
             /\ inbox'[i].serial = inbox[i].serial
             /\ inbox'[i].client = IF inbox[i].client = c THEN Gone ELSE inbox[i].client
  <2>1. inbox[i] \in SocketMessage /\ inbox'[i] = Abandon(c, inbox[i])
    BY <1>1, Records
  <2> QED BY <2>1 DEF Abandon, SocketMessage
<1>4. /\ helper' \in {Resting} \cup HelperWork /\ helper'.pc = helper.pc
      /\ helper.pc # "idle" =>
           /\ helper'.serial = helper.serial /\ helper'.previous = helper.previous
           /\ helper'.client = IF helper.client = c THEN Gone ELSE helper.client
  <2>1. CASE helper = Resting
    BY <1>1, <2>1 DEF Resting
  <2>2. CASE helper # Resting
    <3>1. helper \in HelperWork /\ helper' = Abandon(c, helper)
      BY <1>1, <2>2 DEF AccessTypeOK
    <3> QED BY <3>1 DEF Abandon, HelperWork
  <2> QED BY <2>1, <2>2
<1>5. inbox' \in Seq(SocketMessage) /\ DOMAIN inbox' = DOMAIN inbox
  <2>1. DOMAIN inbox = 1..Len(inbox) /\ Len(inbox) \in Nat
    BY <1>1, LenProperties DEF AccessTypeOK
  <2>2. inbox' = [i \in 1..Len(inbox) |-> inbox'[i]]
    BY <1>1, <2>1
  <2>3. \A i \in 1..Len(inbox) : inbox'[i] \in SocketMessage
    BY <1>3, <2>1
  <2> QED BY <2>1, <2>2, <2>3, IsASeq
<1>6. AccessTypeOK'
  BY <1>1, <1>2, <1>4, <1>5 DEF AccessTypeOK, ClientsTyped
<1>7. Answerable'
  <2>0. Gone \notin Clients /\ \A i \in DOMAIN inbox : inbox[i].client \in Clients \cup {Gone}
    BY <1>1, Records, Constants DEF SocketMessage
  <2>1. \A d \in Clients : \A kind, s : d # c /\ Waits(d, kind, s) => Waits(d, kind, s)'
    BY <1>2 DEF OthersStay, Waits
  <2>2. ASSUME NEW i \in DOMAIN inbox, inbox'[i].client # Gone
        PROVE  /\ Waits(inbox[i].client, inbox[i].call, inbox[i].serial)'
               /\ \A j \in DOMAIN inbox : inbox'[j].client = inbox'[i].client => j = i
    <3>1. inbox[i].client # c /\ inbox[i].client # Gone /\ inbox'[i].client = inbox[i].client
      BY <1>3, <2>2
    <3>2. PICK d, kind, s :
             d \in Clients /\ d = inbox[i].client /\ kind = inbox[i].call /\ s = inbox[i].serial
      BY <2>0, <3>1
    <3>3. Waits(d, kind, s)'
      BY <2>1, <3>1, <3>2 DEF AccessInv, Answerable
    <3>4. \A j \in DOMAIN inbox : inbox'[j].client = inbox'[i].client => j = i
      BY <1>3, <2>2, <3>1 DEF AccessInv, Answerable
    <3> QED BY <1>3, <3>1, <3>2, <3>3, <3>4
  <2>3. ASSUME helper'.pc # "idle", helper'.client # Gone
        PROVE  /\ Waits(helper.client, helper.pc, helper.serial)'
               /\ \A i \in DOMAIN inbox : inbox'[i].client # helper'.client
    <3>1. helper.client # c /\ helper.client # Gone /\ helper'.client = helper.client
          /\ helper.client \in Clients
      BY <1>1, <1>4, <2>3, Records DEF HelperWork
    <3>2. PICK d, kind, s :
             d \in Clients /\ d = helper.client /\ kind = helper.pc /\ s = helper.serial
      BY <3>1
    <3>3. Waits(d, kind, s)'
      BY <1>4, <2>1, <2>3, <3>1, <3>2 DEF AccessInv, Answerable
    <3>4. \A i \in DOMAIN inbox : inbox'[i].client # helper'.client
      BY <1>3, <1>4, <2>0, <2>3, <3>1 DEF AccessInv, Answerable
    <3> QED BY <1>4, <2>3, <3>1, <3>2, <3>3, <3>4
  <2>4. faults' > 0
    BY <1>1
  <2> QED BY <1>5, <2>2, <2>3, <2>4 DEF Answerable
<1>8. Listed' /\ OnItsWay' /\ Outside' /\ Accounted'
  BY <1>1, <1>3, <1>4, <1>5, DropsClient
<1> QED BY <1>6, <1>7, <1>8 DEF AccessInv

LEMMA SaveFailsInv == ASSUME AccessInv, NEW c \in Clients, SaveFails(c) PROVE AccessInv'
<1>1. /\ AccessTypeOK /\ client[c].pc # "waiting" /\ client' = [client EXCEPT ![c] = NoRequest]
      /\ faults' = faults + 1 /\ faults \in Nat
      /\ UNCHANGED <<row, inbox, helper, signed, revoked, packages, crl, loaded>>
  BY DEF AccessInv, AccessTypeOK, SaveFails, Fault
<1>2. ClientsTyped /\ OthersStay(c) /\ client'[c].pc = "idle"
  BY <1>1, ForgetEffect
<1>3. AccessTypeOK'
  BY <1>1, <1>2 DEF AccessTypeOK, ClientsTyped
<1>4. Answerable'
  <2>1. \A d \in Clients : client[d].pc = "waiting" => client'[d] = client[d]
    BY <1>1, <1>2 DEF OthersStay
  <2>2. \A d \in Clients : Waits(d, helper.pc, helper.serial) => Waits(d, helper.pc, helper.serial)'
    BY <1>1, <2>1 DEF Waits
  <2> QED BY <1>1, <2>1, <2>2, AnswerableStays
<1>5. Listed' /\ OnItsWay' /\ Outside' /\ Accounted'
  BY <1>1, DropsClient
<1> QED BY <1>3, <1>4, <1>5 DEF AccessInv

(* A request that may be called: create_device issues, the others are about  *)
(* a certificate that has a row or is registered.                           *)
Callable(o, kind, s) ==
    \/ kind = "issue" /\ o \in Begins
    \/ kind = "register" /\ o = "register" /\ s \in Existing
    \/ kind = "download" /\ o = "download" /\ Rowed(s)
    \/ kind = "revoke" /\ o \in Ends /\ Rowed(s)

LEMMA CallInv ==
    ASSUME AccessInv, NEW c \in Clients, client[c].pc # "waiting", NEW s \in Serials \cup {0},
           NEW o \in Operations, NEW kind \in Calls, Call(c, o, kind, s),
           Callable(o, kind, s)', UNCHANGED <<helper, signed, faults>>,
           \A t \in Serials : row[t] # NoRow => row'[t] # NoRow
    PROVE  ClientsTyped /\ OthersStay(c) /\ inbox' \in Seq(SocketMessage) /\ Answerable'
           /\ client'[c].pc = "waiting"
           /\ (TableInv' => Listed')
<1>1. /\ ClientsTyped /\ OthersStay(c) /\ inbox' \in Seq(SocketMessage)
      /\ client'[c].pc = "waiting" /\ client'[c].operation = o /\ client'[c].serial = s
      /\ DOMAIN inbox' = DOMAIN inbox \cup {Len(inbox) + 1}
      /\ Len(inbox) + 1 \notin DOMAIN inbox
      /\ inbox'[Len(inbox) + 1].call = kind /\ inbox'[Len(inbox) + 1].serial = s
      /\ inbox'[Len(inbox) + 1].client = c
      /\ \A i \in DOMAIN inbox : inbox'[i] = inbox[i]
  <2>1. AccessTypeOK
    BY DEF AccessInv
  <2> QED BY <2>1, CallEffect
<1> DEFINE n == Len(inbox) + 1
<1> HIDE DEF n
<1>2. /\ DOMAIN inbox' = DOMAIN inbox \cup {n} /\ n \notin DOMAIN inbox
      /\ inbox'[n].call = kind /\ inbox'[n].serial = s /\ inbox'[n].client = c
  BY <1>1 DEF n
<1>3. Waits(c, kind, s)' /\ c # Gone
  BY <1>1, Constants DEF Callable, Waits, IssueCalls, RevokeCalls
<1>4. /\ AccessTypeOK
      /\ \A i \in DOMAIN inbox : inbox[i].client \in Clients \cup {Gone}
      /\ helper.pc # "idle" => helper.client \in Clients \cup {Gone}
  BY Records DEF AccessInv, SocketMessage, HelperWork
<1>5. \A d \in Clients : \A k, t : Waits(d, k, t) => d # c /\ Waits(d, k, t)'
  BY <1>1 DEF Waits, OthersStay
<1>6. ASSUME NEW i \in DOMAIN inbox, inbox[i].client # Gone
      PROVE  /\ inbox[i].client # c /\ Waits(inbox[i].client, inbox[i].call, inbox[i].serial)'
             /\ \A j \in DOMAIN inbox : inbox[j].client = inbox[i].client => j = i
  <2>1. PICK d, k, t : d \in Clients /\ d = inbox[i].client /\ k = inbox[i].call /\ t = inbox[i].serial
    BY <1>4, <1>6
  <2>2. Waits(d, k, t)
    BY <1>6, <2>1 DEF AccessInv, Answerable
  <2>3. Waits(d, k, t)' /\ d # c
    BY <1>5, <2>1, <2>2
  <2> QED BY <1>1, <1>6, <2>1, <2>3 DEF AccessInv, Answerable
<1>7. ASSUME helper.pc # "idle", helper.client # Gone
      PROVE  /\ helper.client # c /\ Waits(helper.client, helper.pc, helper.serial)'
             /\ \A i \in DOMAIN inbox : inbox[i].client # helper.client
  <2>1. PICK d, k, t : d \in Clients /\ d = helper.client /\ k = helper.pc /\ t = helper.serial
    BY <1>4, <1>7
  <2>2. Waits(d, k, t)
    BY <1>7, <2>1 DEF AccessInv, Answerable
  <2>3. Waits(d, k, t)' /\ d # c
    BY <1>5, <2>1, <2>2
  <2> QED BY <1>7, <2>1, <2>3 DEF AccessInv, Answerable
<1>8. Answerable'
  <2>1. ASSUME NEW i \in DOMAIN inbox', inbox'[i].client # Gone
        PROVE  /\ Waits(inbox[i].client, inbox[i].call, inbox[i].serial)'
               /\ \A j \in DOMAIN inbox' : inbox'[j].client = inbox'[i].client => j = i
    <3>1. CASE i = n
      <4>1. \A j \in DOMAIN inbox : inbox'[j].client # c
        BY <1>1, <1>3, <1>6
      <4>2. PICK d, k, t : d = inbox'[i].client /\ k = inbox'[i].call /\ t = inbox'[i].serial
        OBVIOUS
      <4>3. Waits(d, k, t)'
        BY <1>2, <1>3, <3>1, <4>2
      <4> QED BY <1>2, <3>1, <4>1, <4>2, <4>3
    <3>2. CASE i \in DOMAIN inbox
      BY <1>1, <1>2, <1>6, <2>1, <3>2
    <3> QED BY <1>2, <3>1, <3>2
  <2>2. ASSUME NEW i \in DOMAIN inbox', inbox'[i].client = Gone PROVE faults' > 0
    BY <1>1, <1>2, <1>3, <2>2 DEF AccessInv, Answerable
  <2>3. ASSUME helper'.pc # "idle"
        PROVE  IF helper'.client = Gone THEN faults' > 0
               ELSE \A i \in DOMAIN inbox' : inbox'[i].client # helper'.client
    BY <1>1, <1>2, <1>7, <2>3 DEF AccessInv, Answerable
  <2> QED BY <1>7, <2>1, <2>2, <2>3 DEF Answerable
<1>9. ASSUME TableInv' PROVE Listed'
  <2>1. \A t : Rowed(t) => Rowed(t)'
    BY DEF Rowed
  <2>2. /\ o \in Ends \cup {"download"} => Rowed(s)'
        /\ kind = "revoke" => Rowed(s)'
        /\ o = "register" => s \in Existing
        /\ kind = "register" => s \in Existing
    BY DEF Callable, Ends, Begins
  <2>3. \A i \in DOMAIN inbox' :
          /\ inbox'[i].call = "revoke" => Rowed(inbox[i].serial)'
          /\ inbox'[i].call = "register" => inbox'[i].serial \in Existing
    <3>1. ASSUME NEW i \in DOMAIN inbox
          PROVE  /\ inbox'[i].call = "revoke" => Rowed(inbox[i].serial)'
                 /\ inbox'[i].call = "register" => inbox'[i].serial \in Existing
      BY <1>1, <3>1 DEF AccessInv, Listed, TableInv, Rowed
    <3>2. /\ inbox'[n].call = "revoke" => inbox'[n].serial \in Serials /\ row'[inbox'[n].serial] # NoRow
          /\ inbox'[n].call = "register" => inbox'[n].serial \in Existing
      BY <1>2, <2>2 DEF Rowed
    <3> QED BY <1>2, <3>1, <3>2 DEF Rowed
  <2>4. \A d \in Clients : client'[d].pc # "idle" =>
          /\ client'[d].operation \in Ends \cup {"download"} => Rowed(client[d].serial)'
          /\ client'[d].operation = "register" => client'[d].serial \in Existing
          /\ client'[d].pc = "deleting" => client'[d].operation = "delete"
    <3>1. ASSUME NEW d \in Clients, d # c, client'[d].pc # "idle"
          PROVE  /\ client'[d].operation \in Ends \cup {"download"} => Rowed(client[d].serial)'
                 /\ client'[d].operation = "register" => client'[d].serial \in Existing
                 /\ client'[d].pc = "deleting" => client'[d].operation = "delete"
      BY <1>1, <3>1 DEF AccessInv, Listed, TableInv, Rowed, OthersStay
    <3>2. /\ client'[c].operation \in Ends \cup {"download"} => Rowed(client[c].serial)'
          /\ client'[c].operation = "register" => client'[c].serial \in Existing
          /\ client'[c].pc # "deleting"
      BY <1>1, <2>2 DEF Rowed
    <3> QED BY <3>1, <3>2
  <2> QED BY <1>9, <2>1, <2>3, <2>4 DEF AccessInv, Listed, TableInv, Rowed
<1> QED BY <1>1, <1>8, <1>9

LEMMA RequestInv == ASSUME AccessInv, NEW c \in Clients, Request(c) PROVE AccessInv'
<1>1. /\ AccessTypeOK /\ client[c].pc = "idle"
      /\ UNCHANGED <<row, helper, signed, revoked, packages, crl, loaded, faults>>
  BY DEF AccessInv, Request
<1>2. PICK o \in Operations, kind \in Calls, s \in Serials \cup {0} :
        Call(c, o, kind, s) /\ Callable(o, kind, s)
  <2>1. CASE Call(c, "create", "issue", 0)
    BY <2>1 DEF Callable, Begins, Operations, Calls
  <2>2. CASE \E s \in Existing : Call(c, "register", "register", s)
    BY <2>2, Constants DEF Callable, Operations, Calls
  <2>3. CASE \E s \in Serials : /\ row[s].status # "none"
                                /\ \/ \E o \in Ends : Call(c, o, "revoke", s)
                                   \/ Call(c, "download", "download", s)
    <3>1. NoRow.status = "none"
      BY DEF NoRow
    <3> QED BY <2>3, <3>1 DEF Callable, Rowed, Ends, Operations, Calls
  <2> QED BY <2>1, <2>2, <2>3 DEF Request, Ends
<1>3. /\ client[c].pc # "waiting" /\ UNCHANGED <<helper, signed, faults>>
      /\ \A t \in Serials : row[t] # NoRow => row'[t] # NoRow
      /\ Callable(o, kind, s)'
  BY <1>1, <1>2 DEF Callable, Rowed
<1>4. TableInv'
  BY <1>1 DEF AccessInv, Listed, TableInv
<1>5. ClientsTyped /\ OthersStay(c) /\ inbox' \in Seq(SocketMessage) /\ Answerable' /\ Listed'
      /\ client'[c].pc = "waiting"
  BY <1>2, <1>3, <1>4, CallInv
<1>6. AccessTypeOK'
  BY <1>1, <1>5 DEF AccessTypeOK, ClientsTyped
<1>7. OnItsWay' /\ Accounted'
  BY <1>1, <1>5 DEF AccessInv, OnItsWay, Accounted, Coming, OthersStay
<1>8. Outside'
  BY <1>1, <1>5 DEF AccessInv, Outside, Doomed, Barred, OthersStay
<1> QED BY <1>5, <1>6, <1>7, <1>8 DEF AccessInv

LEMMA DeleteRowInv == ASSUME AccessInv, NEW c \in Clients, DeleteRow(c) PROVE AccessInv'
<1> DEFINE s == client[c].serial
<1>1. /\ AccessTypeOK /\ client[c].pc = "deleting" /\ client' = [client EXCEPT ![c] = NoRequest]
      /\ UNCHANGED <<inbox, helper, signed, revoked, packages, crl, loaded, faults>>
  BY DEF AccessInv, DeleteRow
<1>2. /\ s \in Serials /\ row[s] # NoRow /\ row[s].status = "revoked"
  BY <1>1 DEF AccessInv, Listed, TableInv, Rowed, Ends, Outside
<1>3. row' = [row EXCEPT ![s] = [row[s] EXCEPT !.deleted = TRUE]]
  BY <1>1 DEF DeleteRow, AccessTypeOK
<1>4. /\ row'[s].status = row[s].status /\ row'[s].package = row[s].package
      /\ \A t \in Serials : t # s => row'[t] = row[t]
      /\ row' \in [Serials -> [status : {"none", "active", "revoked"}, package : BOOLEAN,
                               deleted : BOOLEAN]]
  BY <1>1, <1>2, <1>3 DEF AccessTypeOK
<1> HIDE DEF s
<1>5. ClientsTyped /\ OthersStay(c) /\ client'[c].pc = "idle"
  BY <1>1, ForgetEffect
<1>6. AccessTypeOK'
  BY <1>1, <1>4, <1>5 DEF AccessTypeOK, ClientsTyped
<1>7. \A d \in Clients : client[d].pc = "waiting" => client'[d] = client[d]
  BY <1>1, <1>5 DEF OthersStay
<1>8. Answerable'
  <2>1. \A d \in Clients : Waits(d, helper.pc, helper.serial) => Waits(d, helper.pc, helper.serial)'
    BY <1>1, <1>7 DEF Waits
  <2>2. faults' \in {faults, faults + 1}
    BY <1>1
  <2> QED BY <1>1, <1>7, <2>1, <2>2, AnswerableStays
<1>9. row'[s] # NoRow
  BY <1>2, <1>4 DEF NoRow
<1>10. \A d \in Clients : client'[d] = client[d] \/ client'[d].pc = "idle"
  BY <1>5 DEF OthersStay
<1>11. Listed'
  BY <1>1, <1>2, <1>4, <1>9, <1>10 DEF AccessInv, Listed, TableInv, Rowed
<1>12. \A d \in Clients : \A t : Coming(d, t)' <=> Coming(d, t)
  BY <1>1, <1>5 DEF OthersStay, Coming
<1>13. OnItsWay' /\ Accounted'
  <2>1. signed \subseteq Serials
    BY <1>1, Constants DEF AccessTypeOK
  <2> QED BY <1>1, <1>2, <1>4, <1>9, <1>12, <2>1 DEF AccessInv, OnItsWay, Accounted
<1>14. Outside'
  <2>1. \A t \in Serials : row'[t].status = row[t].status /\ row'[t].package = row[t].package
                            /\ (row'[t].deleted => row[t].deleted \/ t = s)
    BY <1>4
  <2>2. \A d \in Clients : client'[d].pc = "deleting" =>
           client'[d] = client[d] /\ client[d].serial \in Serials
    BY <1>10 DEF AccessInv, Listed, TableInv, Rowed, Ends
  <2>3. \A t \in Serials : (Doomed(t)' => Doomed(t)) /\ (Barred(t) => Barred(t)')
    BY <1>1, <1>10, <2>1 DEF Doomed, Barred
  <2> QED BY <1>1, <1>2, <2>1, <2>2, <2>3 DEF AccessInv, Outside
<1> QED BY <1>6, <1>8, <1>11, <1>13, <1>14 DEF AccessInv

(* What an answered request leaves in the table.                             *)
LEMMA WrittenRow ==
    ASSUME AccessInv, NEW c \in Clients, client[c].pc = "answered"
    PROVE  /\ client[c].serial \in Serials /\ AnsweredRow(c).status # "none"
           /\ AnsweredRow(c) \in [status : {"none", "active", "revoked"}, package : BOOLEAN, deleted : BOOLEAN]
           /\ row[client[c].serial].status = "revoked" => AnsweredRow(c).status = "revoked"
           /\ AnsweredRow(c).status = "revoked" => ~AnsweredRow(c).package /\ Doomed(client[c].serial)
           /\ AnsweredRow(c).deleted => AnsweredRow(c).status = "revoked"
           /\ client[c].operation \in Ends => AnsweredRow(c).status = "revoked"
           /\ client[c].serial \in signed \cup Existing
<1> DEFINE s == client[c].serial
           o == client[c].operation
<1>1. /\ AccessTypeOK /\ client[c] \in ServedRequest
  BY Records DEF AccessInv
<1>2. o \in Begins \/ o = "register" \/ o = "download" \/ o \in Ends
  BY <1>1 DEF ServedRequest, Operations, Begins, Ends
<1>3. CASE o \in Begins
  <2>1. Coming(c, s) /\ s \in Serials \cup {0}
    BY <1>1, <1>3 DEF Coming, ServedRequest
  <2>2. s \in signed /\ row[s] = NoRow
    BY <2>1 DEF AccessInv, OnItsWay
  <2>3. s \in Serials
    BY <1>1, <2>2, Constants DEF AccessTypeOK
  <2> QED BY <1>3, <2>2, <2>3 DEF AnsweredRow, Active, Begins, Ends, NoRow
<1>4. CASE o \in Ends \cup {"register", "download"}
  <2>1. s \in Serials /\ s \in signed \cup Existing /\ (row[s] = NoRow => o = "register")
        /\ (row[s] # NoRow => row[s].status # "none")
    BY <1>4, Constants DEF AccessInv, Listed, TableInv, Rowed
  <2>2. row[s] \in [status : {"none", "active", "revoked"}, package : BOOLEAN, deleted : BOOLEAN]
    BY <1>1, <2>1 DEF AccessTypeOK
  <2>3. /\ row[s].status = "revoked" => ~row[s].package /\ Doomed(s)
        /\ row[s].deleted => row[s].status = "revoked"
    BY <2>1 DEF AccessInv, Outside, Doomed
  <2>4. CASE o = "register"
    BY <2>1, <2>2, <2>3, <2>4 DEF AnsweredRow, Active, Ends, NoRow
  <2>5. CASE o = "download"
    <3>1. AnsweredRow(c) = [row[s] EXCEPT !.package = FALSE]
      BY <2>5 DEF AnsweredRow
    <3> QED BY <2>1, <2>2, <2>3, <2>5, <3>1 DEF Ends
  <2>6. CASE o \in Ends
    <3>1. AnsweredRow(c) = [row[s] EXCEPT !.status = "revoked", !.package = FALSE]
      BY <2>6 DEF AnsweredRow, Ends
    <3>2. Doomed(s)
      BY <2>6 DEF Doomed
    <3> QED BY <2>1, <2>2, <3>1, <3>2
  <2> QED BY <1>4, <2>4, <2>5, <2>6
<1> QED BY <1>2, <1>3, <1>4

LEMMA SaveInv == ASSUME AccessInv, NEW c \in Clients, Save(c) PROVE AccessInv'
<1> DEFINE s == client[c].serial
           o == client[c].operation
           w == AnsweredRow(c)
<1>1. /\ AccessTypeOK /\ client[c].pc = "answered" /\ row' = [row EXCEPT ![s] = w]
      /\ UNCHANGED <<helper, signed, revoked, packages, crl, loaded, faults>>
  BY DEF AccessInv, Save
<1>2. /\ s \in Serials /\ w.status # "none" /\ s \in signed \cup Existing
      /\ w \in [status : {"none", "active", "revoked"}, package : BOOLEAN, deleted : BOOLEAN]
      /\ row[s].status = "revoked" => w.status = "revoked"
      /\ w.status = "revoked" => ~w.package /\ Doomed(s)
      /\ w.deleted => w.status = "revoked"
      /\ o \in Ends => w.status = "revoked"
  BY <1>1, WrittenRow
<1>3. \/ o = "replace" /\ Call(c, "issued", "issue", 0)
      \/ /\ o = "delete" /\ UNCHANGED inbox
         /\ client' = [client EXCEPT ![c] = [client[c] EXCEPT !.pc = "deleting", !.serial = s]]
      \/ /\ o \notin {"replace", "delete"} /\ UNCHANGED inbox
         /\ client' = [client EXCEPT ![c] = NoRequest]
  <2>1. client[c] \in ServedRequest /\ client \in [Clients -> {NoRequest} \cup ServedRequest]
    BY <1>1, Records DEF AccessTypeOK
  <2>2. [client[c] EXCEPT !.pc = "deleting"] = [client[c] EXCEPT !.pc = "deleting", !.serial = s]
    BY <2>1 DEF ServedRequest
  <2>3. [client EXCEPT ![c].pc = "deleting"] = [client EXCEPT ![c] = [client[c] EXCEPT !.pc = "deleting"]]
    BY <2>1
  <2> QED BY <2>2, <2>3 DEF Save
<1> HIDE DEF w
<1>4. /\ row' \in [Serials -> [status : {"none", "active", "revoked"}, package : BOOLEAN,
                               deleted : BOOLEAN]]
      /\ row'[s] = w /\ w # NoRow
      /\ \A t \in Serials : t # s => row'[t] = row[t]
  BY <1>1, <1>2 DEF AccessTypeOK, NoRow
<1>5. TableInv' /\ \A t \in Serials : row[t] # NoRow => row'[t] # NoRow
  BY <1>1, <1>2, <1>4 DEF AccessInv, Listed, TableInv
<1>6. /\ ClientsTyped /\ OthersStay(c) /\ inbox' \in Seq(SocketMessage)
      /\ Answerable' /\ Listed'
      /\ \/ client'[c].pc \in {"waiting", "idle"}
         \/ client'[c].pc = "deleting" /\ client'[c].serial = s /\ o = "delete"
  <2>1. CASE o = "replace" /\ Call(c, "issued", "issue", 0)
    <3>1. "issued" \in Operations /\ "issue" \in Calls /\ Callable("issued", "issue", 0)'
      BY DEF Operations, Calls, Callable, Begins
    <3>2. client[c].pc # "waiting" /\ UNCHANGED <<helper, signed, faults>> /\ 0 \in Serials \cup {0}
      BY <1>1
    <3> QED BY <1>5, <2>1, <3>1, <3>2, CallInv
  <2>2. ASSUME UNCHANGED inbox, ClientsTyped, OthersStay(c),
               \/ client'[c].pc = "idle"
               \/ /\ client'[c].pc = "deleting" /\ client'[c].operation = o /\ o = "delete"
                  /\ client'[c].serial = s
        PROVE  Answerable' /\ Listed' /\ inbox' \in Seq(SocketMessage)
    <3>1. \A d \in Clients : client[d].pc = "waiting" => client'[d] = client[d]
      BY <1>1, <2>2 DEF OthersStay
    <3>2. \A d \in Clients : Waits(d, helper.pc, helper.serial) => Waits(d, helper.pc, helper.serial)'
      BY <1>1, <3>1 DEF Waits
    <3>3. Answerable'
      BY <1>1, <2>2, <3>1, <3>2, AnswerableStays
    <3>4. \A t : Rowed(t) => Rowed(t)'
      BY <1>5 DEF Rowed
    <3>5. \A d \in Clients : client'[d].pc # "idle" =>
            /\ client'[d].operation \in Ends \cup {"download"} => Rowed(client[d].serial)'
            /\ client'[d].operation = "register" => client'[d].serial \in Existing
            /\ client'[d].pc = "deleting" => client'[d].operation = "delete"
      BY <1>1, <1>5, <2>2 DEF AccessInv, Listed, Rowed, OthersStay
    <3>6. Listed'
      BY <1>1, <1>5, <2>2, <3>4, <3>5 DEF AccessInv, Listed, Rowed
    <3> QED BY <1>1, <2>2, <3>3, <3>6 DEF AccessTypeOK
  <2>3. CASE /\ o = "delete" /\ UNCHANGED inbox
             /\ client' = [client EXCEPT ![c] = [client[c] EXCEPT !.pc = "deleting", !.serial = s]]
    <3>1. /\ ClientsTyped /\ OthersStay(c) /\ client'[c].pc = "deleting" /\ client'[c].serial = s
          /\ client'[c].operation = o
      BY <1>1, <1>2, <2>3, ClientMoves
    <3> QED BY <2>2, <2>3, <3>1
  <2>4. CASE UNCHANGED inbox /\ client' = [client EXCEPT ![c] = NoRequest]
    <3>1. ClientsTyped /\ OthersStay(c) /\ client'[c].pc = "idle"
      BY <1>1, <2>4, ForgetEffect
    <3> QED BY <2>2, <2>4, <3>1
  <2> QED BY <1>3, <2>1, <2>3, <2>4
<1> HIDE DEF s, o
<1>7. AccessTypeOK'
  BY <1>1, <1>4, <1>6 DEF AccessTypeOK, ClientsTyped
<1>8. ~Coming(c, s)' /\ \A d \in Clients : \A t : Coming(d, t)' <=> Coming(d, t) /\ d # c
  BY <1>6 DEF OthersStay, Coming
<1>9. /\ signed \subseteq Serials /\ \A t \in signed : t \notin Existing
      /\ \A d \in Clients : client'[d] = client[d] \/ d = c
      /\ row[s] = NoRow /\ s \notin Existing => Coming(c, s)
  <2>1. client[c] \in ServedRequest
    BY <1>1, Records
  <2>2. row[s] = NoRow /\ s \notin Existing => o \in Begins
    BY <1>1, <2>1 DEF AccessInv, Listed, Rowed, ServedRequest, Operations, Begins, Ends, s, o
  <2> QED BY <1>1, <1>6, <2>2, Constants DEF AccessTypeOK, OthersStay, Coming, s, o
<1>10. ASSUME NEW d \in Clients, NEW t \in Serials \cup {0}, Coming(d, t), d # c
       PROVE  t \in Serials /\ t # s
  <2>1. t \in signed /\ row[t] = NoRow /\ ~Coming(c, t)
    BY <1>10 DEF AccessInv, OnItsWay
  <2> QED BY <1>9, <2>1
<1>11. helper.pc = "package" => helper.serial \in Serials /\ helper.serial # s
  <2>1. ASSUME helper.pc = "package", helper.serial = s PROVE FALSE
    <3>1. s \in signed /\ row[s] = NoRow
      BY <2>1 DEF AccessInv, OnItsWay
    <3>2. Coming(c, s)
      BY <1>9, <3>1
    <3> QED BY <1>2, <2>1, <3>2 DEF AccessInv, OnItsWay
  <2> QED BY <1>9, <2>1 DEF AccessInv, OnItsWay
<1>12. OnItsWay'
  BY <1>1, <1>4, <1>8, <1>10, <1>11 DEF AccessInv, OnItsWay
<1>13. Outside'
  <2>1. \A t \in Serials : Doomed(t)' => Doomed(t)
    <3>1. ASSUME NEW t \in Serials, row'[t].status = "revoked" PROVE Doomed(t)
      BY <1>2, <1>4, <3>1 DEF Doomed
    <3>2. ASSUME NEW t \in Serials, NEW d \in Clients, client'[d].pc = "answered",
                 client'[d].operation \in Ends, client'[d].serial = t
          PROVE  Doomed(t)
      BY <1>6, <1>9, <3>2 DEF Doomed
    <3> QED BY <3>1, <3>2 DEF Doomed
  <2>2. \A t \in Serials : Barred(t)' <=> Barred(t)
    BY <1>1 DEF Barred
  <2>3. \A t \in Serials :
          /\ row'[t].status = "revoked" => ~row'[t].package
          /\ row'[t].deleted => row'[t].status = "revoked"
          /\ row[t].status = "revoked" => row'[t].status = "revoked"
    BY <1>2, <1>4 DEF AccessInv, Outside
  <2>4. ASSUME NEW d \in Clients, client'[d].pc = "deleting"
        PROVE  row'[client'[d].serial].status = "revoked"
    <3>1. CASE d = c
      BY <1>2, <1>4, <1>6, <2>4, <3>1 DEF Ends
    <3>2. CASE d # c
      BY <1>9, <2>3, <2>4, <3>2 DEF AccessInv, Outside, Listed, Rowed, Ends
    <3> QED BY <3>1, <3>2
  <2> QED BY <1>1, <2>1, <2>2, <2>3, <2>4 DEF AccessInv, Outside
<1>14. Accounted'
  <2>1. \A t : Coming(c, t) => t = s
    BY DEF Coming, s
  <2>2. \A d \in Clients : \A t \in signed : Coming(d, t) => Coming(d, t)' \/ row'[t] # NoRow
    BY <1>4, <1>8, <2>1
  <2> QED BY <1>1, <1>5, <1>9, <2>2 DEF AccessInv, Accounted
<1> QED BY <1>6, <1>7, <1>12, <1>13, <1>14 DEF AccessInv

LEMMA AccessInitInv == AccessInit => AccessInv
<1> SUFFICES ASSUME AccessInit PROVE AccessInv
  OBVIOUS
<1>1. AccessTypeOK
  BY EmptySeq DEF AccessInit, AccessTypeOK, NoRow
<1>2. helper.pc = "idle" /\ DOMAIN inbox = {} /\ \A c \in Clients : client[c].pc = "idle"
  BY DEF AccessInit, Resting, NoRequest
<1>3. \A s \in Serials : row[s] = NoRow
  BY DEF AccessInit
<1>4. Answerable /\ Listed /\ OnItsWay
  BY <1>2, <1>3 DEF Answerable, Listed, TableInv, OnItsWay, Coming, RevokeCalls
<1>5. Outside /\ Accounted
  BY <1>2, <1>3 DEF Outside, Doomed, Accounted, AccessInit, NoRow, RevokeCalls
<1> QED BY <1>1, <1>4, <1>5 DEF AccessInv

LEMMA AccessStepInv == AccessInv /\ [AccessNext]_accessVars => AccessInv'
<1>1. ASSUME AccessInv, NEW c \in Clients, ClientStep(c) PROVE AccessInv'
  BY <1>1, RequestInv, TimeOutInv, SaveInv, DeleteRowInv, SaveFailsInv DEF ClientStep
<1>2. ASSUME AccessInv, HelperStep PROVE AccessInv'
  BY <1>2, TakeInv, SignInv, RefusalsInv, PackInv, AnswersInv, RevokeInv, WriteCrlInv, ReloadInv
     DEF HelperStep
<1>3. ASSUME AccessInv, UNCHANGED accessVars PROVE AccessInv'
  BY <1>3 DEF accessVars, AccessInv, AccessTypeOK, Answerable, Waits, Listed, TableInv, Rowed,
              OnItsWay, Coming, Outside, Doomed, Barred, Accounted
<1> QED BY <1>1, <1>2, <1>3, ListsInv, HelperRestartsInv DEF AccessNext

(* A device that the table shows as revoked or deleted stays outside, and no *)
(* certificate is lost unless something fails (routers/access.py and the     *)
(* certificate helper).                                                     *)
THEOREM RevocationTheorem == AccessSpec => []RevocationTakesHold
<1>1. AccessInv => RevocationTakesHold
  <2>1. ASSUME AccessInv, NEW s \in Serials, row[s].status = "revoked" \/ row[s].deleted
        PROVE  /\ row[s].status = "revoked" /\ s \in loaded \cap crl
               /\ s \notin packages /\ ~row[s].package
    BY <2>1 DEF AccessInv, Outside, Doomed, Barred
  <2>2. ASSUME AccessInv, faults = 0, NEW s \in signed
        PROVE  \/ row[s] # NoRow
               \/ helper.pc = "package" /\ helper.serial = s
               \/ \E c \in Clients : Coming(c, s)
    BY <2>2 DEF AccessInv, Accounted
  <2> QED BY <2>1, <2>2 DEF RevocationTakesHold, Coming, Begins
<1> QED BY <1>1, AccessInitInv, AccessStepInv, PTL DEF AccessSpec

------------------------------------------------------------ (* CatalogDirectory *)
(* Two keys never share a lock in use: a new one is one nobody has.          *)
LocksApart ==
    \A k, d \in Directories : mutex[k] # NoLock /\ mutex[k] = mutex[d] => k = d
(* The order of use holds each key once, and every key with an entry.        *)
InOrder ==
    /\ \A i, j \in DOMAIN recent : recent[i] = recent[j] => i = j
    /\ \A k \in Directories : age[k] # "none" => \E i \in DOMAIN recent : recent[i] = k
DirectoryInv == DirectoryTypeOK /\ SingleFlight /\ LocksApart /\ InOrder

---------------------------------------------------------------------------
Present == [pc : {"waiting", "asking", "cancelled"}, key : Directories, lock : LockIds]

LEMMA PresentReader ==
    ASSUME DirectoryTypeOK, NEW r \in Readers, reader[r].pc # "away"
    PROVE  /\ reader[r] \in Present /\ reader[r].key \in Directories /\ reader[r].lock \in LockIds
           /\ r \in Inside(reader[r].key)
  BY DEF DirectoryTypeOK, Away, Present, Inside

LEMMA LocksAreNumbers == LockIds \subseteq Nat \ {0} /\ Cardinality(Readers) \in Nat
                         /\ IsFiniteSet(LockIds) /\ Cardinality(LockIds) = Cardinality(Readers) + 1
  <1>1. Cardinality(Readers) \in Nat
    BY DirectoryAssumption, FS_CardinalityType
  <1>2. /\ IsFiniteSet(1..(Cardinality(Readers) + 1))
        /\ Cardinality(1..(Cardinality(Readers) + 1)) =
             IF 1 > Cardinality(Readers) + 1 THEN 0 ELSE (Cardinality(Readers) + 1) - 1 + 1
    BY <1>1, FS_Interval
  <1> QED
    BY <1>1, <1>2 DEF LockIds

(* There are more locks than readers.                                        *)
LEMMA FreeLock ==
    ASSUME DirectoryTypeOK
    PROVE  \E i \in LockIds : \A q \in Readers : reader[q] # Away => reader[q].lock # i
  <1> SUFFICES ASSUME \A i \in LockIds : \E q \in Readers : reader[q] # Away /\ reader[q].lock = i
               PROVE  FALSE
    OBVIOUS
  <1> DEFINE f == [i \in LockIds |-> CHOOSE q \in Readers : reader[q] # Away /\ reader[q].lock = i]
  <1>1. f \in [LockIds -> Readers] /\ \A i \in LockIds : reader[f[i]].lock = i
    OBVIOUS
  <1> HIDE DEF f
  <1>2. /\ Cardinality(Readers) < Cardinality(LockIds)
        /\ IsFiniteSet(LockIds) /\ IsFiniteSet(Readers)
    BY LocksAreNumbers, DirectoryAssumption
  <1>3. f \in [LockIds -> Readers]
    BY <1>1
  <1>4. \E x, y \in LockIds : x # y /\ f[x] = f[y]
    BY ONLY <1>2, <1>3, FS_PigeonHole
  <1> QED
    BY <1>1, <1>4

(* Whoever leaves takes lock and error away with him if he is the last one.  *)
LEMMA LeaveEffect ==
    ASSUME DirectoryInv, NEW r \in Readers, reader[r].pc # "away", Leave(r),
           NEW k \in Directories, k = reader[r].key,
           failed' \subseteq (failed \cup {k}) \ Forgotten(r)
    PROVE  /\ reader' \in [Readers -> {Away} \cup Present]
           /\ mutex' \in [Directories -> LockIds \cup {NoLock}]
           /\ users' \in [Directories -> Nat] /\ failed' \subseteq Directories
           /\ SingleFlight' /\ LocksApart'
  <1>1. /\ reader \in [Readers -> {Away} \cup Present] /\ users \in [Directories -> Nat]
        /\ mutex \in [Directories -> LockIds \cup {NoLock}] /\ failed \subseteq Directories
    BY DEF DirectoryInv, DirectoryTypeOK, Present
  <1>2. /\ reader' = [reader EXCEPT ![r] = Away] /\ users' = [users EXCEPT ![k] = @ - 1]
        /\ mutex' = [mutex EXCEPT ![k] = IF users[k] = 1 /\ @ = reader[r].lock THEN NoLock ELSE @]
    BY DEF Leave
  <1>3. \A q \in Readers : reader'[q] = IF q = r THEN Away ELSE reader[q]
    BY <1>1, <1>2
  <1>4. /\ Inside(k)' = Inside(k) \ {r} /\ r \in Inside(k)
        /\ \A d \in Directories \ {k} : Inside(d)' = Inside(d)
    BY <1>3 DEF Inside, Away
  <1>5. /\ \A d \in Directories : IsFiniteSet(Inside(d)) /\ Cardinality(Inside(d)) \in Nat
        /\ Cardinality(Inside(k) \ {r}) = Cardinality(Inside(k)) - 1
    <2>1. ASSUME NEW d \in Directories
          PROVE  IsFiniteSet(Inside(d)) /\ Cardinality(Inside(d)) \in Nat
      <3>1. Inside(d) \in SUBSET Readers
        BY DEF Inside
      <3>2. IsFiniteSet(Inside(d))
        BY <3>1, DirectoryAssumption, FS_Subset
      <3> QED
        BY <3>2, FS_CardinalityType
    <2> QED
      BY <2>1, <1>4, FS_RemoveElement
  <1>6. users[k] = Cardinality(Inside(k)) /\ reader[r].lock = mutex[k]
    BY <1>4 DEF DirectoryInv, SingleFlight
  <1>7. users[k] - 1 \in Nat /\ (users[k] = 1 <=> Inside(k)' = {})
    <2>1. IsFiniteSet(Inside(k) \ {r}) /\ Cardinality(Inside(k) \ {r}) \in Nat
      BY <1>5, FS_RemoveElement, FS_CardinalityType
    <2>2. Cardinality(Inside(k) \ {r}) = 0 <=> Inside(k) \ {r} = {}
      BY <2>1, FS_EmptySet
    <2> QED
      BY <1>1, <1>4, <1>5, <1>6, <2>1, <2>2
  <1>8. /\ reader' \in [Readers -> {Away} \cup Present] /\ failed' \subseteq Directories
        /\ mutex' \in [Directories -> LockIds \cup {NoLock}]
    BY <1>1, <1>2
  <1>9. users' \in [Directories -> Nat]
    BY <1>1, <1>2, <1>7
  <1>10. /\ \A d \in Directories \ {k} : mutex'[d] = mutex[d] /\ users'[d] = users[d]
         /\ users'[k] = users[k] - 1
         /\ mutex'[k] = IF users[k] = 1 THEN NoLock ELSE mutex[k]
    BY <1>1, <1>2, <1>6
  <1>11. LocksApart'
    BY <1>10 DEF DirectoryInv, LocksApart
  <1>12. SingleFlight'
    <2>1. ASSUME NEW d \in Directories
          PROVE  /\ Cardinality({q \in Inside(d)' : reader'[q].pc # "waiting"}) <= 1
                 /\ users'[d] = Cardinality(Inside(d)')
                 /\ \A q \in Inside(d)' : reader'[q].lock = mutex'[d]
                 /\ Inside(d)' = {} => mutex'[d] = NoLock /\ d \notin failed'
      <3>1. Cardinality({q \in Inside(d)' : reader'[q].pc # "waiting"}) <= 1
        <4>1. {q \in Inside(d) : reader[q].pc # "waiting"} \in SUBSET Readers
          BY DEF Inside
        <4>2. IsFiniteSet({q \in Inside(d) : reader[q].pc # "waiting"})
          BY <4>1, DirectoryAssumption, FS_Subset
        <4>3. {q \in Inside(d)' : reader'[q].pc # "waiting"}
                \in SUBSET {q \in Inside(d) : reader[q].pc # "waiting"}
          BY <1>3, <1>4 DEF Inside
        <4>4. Cardinality({q \in Inside(d) : reader[q].pc # "waiting"}) <= 1
          BY DEF DirectoryInv, SingleFlight
        <4>5. Cardinality({q \in Inside(d) : reader[q].pc # "waiting"}) \in Nat
          BY <4>2, FS_CardinalityType
        <4>6. IsFiniteSet({q \in Inside(d)' : reader'[q].pc # "waiting"})
              /\ Cardinality({q \in Inside(d)' : reader'[q].pc # "waiting"})
                   <= Cardinality({q \in Inside(d) : reader[q].pc # "waiting"})
          BY <4>2, <4>3, FS_Subset
        <4>7. Cardinality({q \in Inside(d)' : reader'[q].pc # "waiting"}) \in Nat
          BY <4>6, FS_CardinalityType
        <4> QED
          BY <4>4, <4>5, <4>6, <4>7
      <3>2. users'[d] = Cardinality(Inside(d)')
        <4>1. users[d] = Cardinality(Inside(d))
          BY DEF DirectoryInv, SingleFlight
        <4>2. CASE d = k
          BY <1>4, <1>5, <1>6, <1>10, <4>2
        <4>3. CASE d # k
          BY <1>4, <1>10, <4>1, <4>3
        <4> QED
          BY <4>2, <4>3
      <3>3. \A q \in Inside(d)' : reader'[q].lock = mutex'[d]
        <4>1. \A q \in Inside(d)' : q # r /\ q \in Inside(d) /\ q \in Readers
          BY <1>3, <1>4 DEF Inside, Away
        <4>2. \A q \in Inside(d) : reader[q].lock = mutex[d]
          BY DEF DirectoryInv, SingleFlight
        <4>3. CASE d = k
          BY <1>3, <1>7, <1>10, <4>1, <4>2, <4>3
        <4>4. CASE d # k
          BY <1>3, <1>10, <4>1, <4>2, <4>4
        <4> QED
          BY <4>3, <4>4
      <3>4. Inside(d)' = {} => mutex'[d] = NoLock /\ d \notin failed'
        <4>1. CASE d = k
          BY <1>7, <1>10, <4>1 DEF Forgotten
        <4>2. CASE d # k
          BY <1>4, <1>10, <4>2 DEF DirectoryInv, SingleFlight
        <4> QED
          BY <4>1, <4>2
      <3> QED
        BY <3>1, <3>2, <3>3, <3>4
    <2> QED
      BY <2>1 DEF SingleFlight
  <1> QED
    BY <1>8, <1>9, <1>11, <1>12

---------------------------------------------------------------------------
LEMMA RemoveAtFacts ==
    ASSUME NEW S, NEW s \in Seq(S), NEW k \in 1..Len(s)
    PROVE  /\ RemoveAt(s, k) \in Seq(S) /\ Len(RemoveAt(s, k)) = Len(s) - 1
           /\ \A i \in 1..(Len(s) - 1) : RemoveAt(s, k)[i] = IF i < k THEN s[i] ELSE s[i + 1]
<1> DEFINE front == SubSeq(s, 1, k - 1)
           back == SubSeq(s, k + 1, Len(s))
<1>1. Len(s) \in Nat /\ \A i \in 1..Len(s) : s[i] \in S
  BY ElementOfSeq, LenProperties
<1>2. front \in Seq(S) /\ Len(front) = k - 1 /\ \A i \in 1..(k - 1) : front[i] = s[i]
  <2>1. /\ front \in Seq(S) /\ Len(front) = (IF 1 <= k - 1 THEN (k - 1) - 1 + 1 ELSE 0)
        /\ \A i \in 1..((k - 1) - 1 + 1) : front[i] = s[1 + i - 1]
    BY <1>1, SubSeqProperties
  <2> HIDE DEF front
  <2> QED BY <1>1, <2>1
<1>3. back \in Seq(S) /\ Len(back) = Len(s) - k /\ \A i \in 1..(Len(s) - k) : back[i] = s[k + i]
  <2>1. /\ back \in Seq(S)
        /\ Len(back) = (IF k + 1 <= Len(s) THEN Len(s) - (k + 1) + 1 ELSE 0)
        /\ \A i \in 1..(Len(s) - (k + 1) + 1) : back[i] = s[(k + 1) + i - 1]
    BY <1>1, SubSeqProperties
  <2> HIDE DEF back
  <2> QED BY <1>1, <2>1
<1>4. RemoveAt(s, k) = front \o back
  BY DEF RemoveAt
<1> HIDE DEF front, back
<1>5. /\ front \o back \in Seq(S) /\ Len(front \o back) = Len(front) + Len(back)
      /\ \A i \in 1..(Len(front) + Len(back)) :
            (front \o back)[i] = IF i <= Len(front) THEN front[i] ELSE back[i - Len(front)]
  BY <1>2, <1>3, ConcatProperties
<1>6. ASSUME NEW l \in Nat, NEW x \in Int, NEW y \in Int, x = k - 1, y = l - k, k \in 1..l,
             NEW i \in 1..(l - 1)
      PROVE  /\ x + y = l - 1 /\ i \in 1..(x + y) /\ (i <= x <=> i < k)
             /\ i < k => i \in 1..(k - 1)
             /\ ~(i < k) => i - x \in 1..(l - k) /\ k + (i - x) = i + 1
  BY <1>6
<1>7. /\ Len(front) + Len(back) = Len(s) - 1
      /\ \A i \in 1..(Len(s) - 1) :
           /\ i \in 1..(Len(front) + Len(back)) /\ (i <= Len(front) <=> i < k)
           /\ i < k => i \in 1..(k - 1)
           /\ ~(i < k) => i - Len(front) \in 1..(Len(s) - k) /\ k + (i - Len(front)) = i + 1
  <2>1. Len(front) \in Int /\ Len(back) \in Int /\ Len(front) = k - 1 /\ Len(back) = Len(s) - k
    BY <1>2, <1>3
  <2>2. ASSUME NEW l, l = Len(s), NEW x, x = Len(front), NEW y, y = Len(back)
        PROVE  x + y = l - 1
    BY <1>1, <2>1, <2>2
  <2> QED BY <1>1, <1>6, <2>1, <2>2
<1>8. ASSUME NEW i \in 1..(Len(s) - 1)
      PROVE  (front \o back)[i] = IF i < k THEN s[i] ELSE s[i + 1]
  <2>1. (front \o back)[i] = IF i <= Len(front) THEN front[i] ELSE back[i - Len(front)]
    BY <1>5, <1>7
  <2>2. CASE i < k
    BY <1>2, <1>7, <2>1, <2>2
  <2>3. CASE ~(i < k)
    BY <1>3, <1>7, <2>1, <2>3
  <2> QED BY <2>2, <2>3
<1>9. /\ front \o back \in Seq(S) /\ Len(front \o back) = Len(s) - 1
      /\ \A i \in 1..(Len(s) - 1) : (front \o back)[i] = IF i < k THEN s[i] ELSE s[i + 1]
  BY <1>5, <1>7, <1>8
<1> QED BY <1>4, <1>9

(* What is left when the first ones go.                                      *)
LEMMA BackFacts ==
    ASSUME NEW S, NEW line \in Seq(S), NEW n \in 0..Len(line), NEW back, back = SubSeq(line, n + 1, Len(line))
    PROVE  /\ back \in Seq(S) /\ Len(back) = Len(line) - n /\ DOMAIN back = 1..(Len(line) - n)
           /\ \A i \in 1..(Len(line) - n) : back[i] = line[i + n]
  <1>1. Len(line) \in Nat
    BY LenProperties
  <1>2. n + 1 \in 1..(Len(line) + 1) /\ Len(line) \in ((n + 1) - 1)..Len(line)
    BY <1>1
  <1>3. /\ SubSeq(line, n + 1, Len(line)) \in Seq(S)
        /\ Len(SubSeq(line, n + 1, Len(line)))
             = (IF n + 1 <= Len(line) THEN Len(line) - (n + 1) + 1 ELSE 0)
        /\ \A i \in 1..(Len(line) - (n + 1) + 1) :
              SubSeq(line, n + 1, Len(line))[i] = line[(n + 1) + i - 1]
    BY <1>2, SubSeqProperties
  <1>4. /\ back \in Seq(S) /\ Len(back) = (IF n + 1 <= Len(line) THEN Len(line) - (n + 1) + 1 ELSE 0)
        /\ \A i \in 1..(Len(line) - (n + 1) + 1) : back[i] = line[(n + 1) + i - 1]
    BY <1>3
  <1>5. Len(back) = Len(line) - n /\ Len(line) - (n + 1) + 1 = Len(line) - n
    BY <1>1, <1>4
  <1>6. \A i \in 1..(Len(line) - n) : (n + 1) + i - 1 = i + n
    BY <1>1
  <1>7. \A i \in 1..(Len(line) - n) : back[i] = line[i + n]
    BY <1>4, <1>5, <1>6
  <1> QED BY <1>4, <1>5, <1>7, LenProperties

(* The order of use without a key.                                           *)
LEMMA WithoutFacts ==
    ASSUME DirectoryTypeOK, InOrder, NEW k \in Directories
    PROVE  \/ /\ \A i \in DOMAIN recent : recent[i] # k
              /\ Without(k) = recent
           \/ \E n \in 1..Len(recent) : recent[n] = k /\ Without(k) = RemoveAt(recent, n)
  <1>1. DOMAIN recent = 1..Len(recent) /\ Len(recent) \in Nat
    BY LenProperties DEF DirectoryTypeOK
  <1>2. CASE \A i \in 1..Len(recent) : recent[i] # k
    BY <1>1, <1>2 DEF Without, RemoveFirst
  <1>3. CASE \E i \in 1..Len(recent) : recent[i] = k
    <2>1. PICK n \in 1..Len(recent) : recent[n] = k
      BY <1>3
    <2>2. {i \in 1..Len(recent) : recent[i] = k} = {n}
      BY <1>1, <2>1 DEF InOrder
    <2>3. Min({n}) = n
      BY <1>1 DEF Min
    <2>4. Without(k) = RemoveAt(recent, n)
      BY <1>3, <2>2, <2>3 DEF Without, RemoveFirst, SelectInSeq
    <2> QED BY <1>1, <2>1, <2>4
  <1> QED BY <1>2, <1>3

Used(k) == Append(Without(k), k)
IsUsed(k, line) ==
    /\ line \in Seq(Directories) /\ Len(line) \in Nat \ {0} /\ DOMAIN line = 1..Len(line)
    /\ (\E i \in DOMAIN recent : recent[i] = k) => Len(line) = Len(recent)
    /\ line[Len(line)] = k
    /\ \A i, j \in 1..Len(line) : line[i] = line[j] => i = j
    /\ \A i \in 1..Len(recent) : \E j \in 1..Len(line) : line[j] = recent[i]

(* A key that is used becomes the last one; no other one is lost.            *)
LEMMA UsedLast ==
    ASSUME DirectoryTypeOK, InOrder, NEW k \in Directories
    PROVE  IsUsed(k, Used(k))
  <1>1. /\ recent \in Seq(Directories) /\ DOMAIN recent = 1..Len(recent) /\ Len(recent) \in Nat
        /\ \A i, j \in 1..Len(recent) : recent[i] = recent[j] => i = j
    BY LenProperties DEF DirectoryTypeOK, InOrder
  <1> DEFINE rest == Without(k)
  <1>2. /\ rest \in Seq(Directories) /\ Len(rest) \in Nat /\ Len(rest) <= Len(recent)
        /\ (\E i \in DOMAIN recent : recent[i] = k) => Len(rest) = Len(recent) - 1
        /\ \A i \in 1..Len(rest) : rest[i] # k
        /\ \A i, j \in 1..Len(rest) : rest[i] = rest[j] => i = j
        /\ \A i \in 1..Len(recent) : recent[i] # k => \E j \in 1..Len(rest) : rest[j] = recent[i]
    <2>1. CASE Without(k) = recent /\ \A i \in DOMAIN recent : recent[i] # k
      <3>1. rest = recent
        BY <2>1
      <3> HIDE DEF rest
      <3>2. \A i \in 1..Len(recent) : recent[i] # k
        BY <1>1, <2>1
      <3>3. ~\E i \in DOMAIN recent : recent[i] = k
        BY <2>1
      <3>4. Len(rest) \in Nat /\ Len(rest) <= Len(recent)
        BY <1>1, <3>1
      <3>5. \A i \in 1..Len(rest) : rest[i] # k
        BY <3>1, <3>2
      <3>6. \A i \in 1..Len(recent) : \E j \in 1..Len(rest) : rest[j] = recent[i]
        BY <3>1
      <3>7. \A i, j \in 1..Len(rest) : rest[i] = rest[j] => i = j
        BY <1>1, <3>1
      <3> QED BY <1>1, <3>1, <3>3, <3>4, <3>5, <3>6, <3>7
    <2>2. CASE \E n \in 1..Len(recent) : recent[n] = k /\ Without(k) = RemoveAt(recent, n)
      <3>1. PICK n \in 1..Len(recent) : recent[n] = k /\ Without(k) = RemoveAt(recent, n)
        BY <2>2
      <3>2. /\ rest \in Seq(Directories) /\ Len(rest) = Len(recent) - 1
            /\ \A i \in 1..(Len(recent) - 1) : rest[i] = IF i < n THEN recent[i] ELSE recent[i + 1]
        <4>1. /\ RemoveAt(recent, n) \in Seq(Directories) /\ Len(RemoveAt(recent, n)) = Len(recent) - 1
              /\ \A i \in 1..(Len(recent) - 1) :
                    RemoveAt(recent, n)[i] = IF i < n THEN recent[i] ELSE recent[i + 1]
          BY <1>1, RemoveAtFacts
        <4> QED BY <3>1, <4>1
      <3> HIDE DEF rest
      <3>3. Len(rest) \in Nat /\ Len(rest) <= Len(recent)
        BY <1>1, <3>1, <3>2
      <3>4. \A i \in 1..Len(rest) : \E j \in 1..Len(recent) :
               rest[i] = recent[j] /\ j # n /\ j = (IF i < n THEN i ELSE i + 1)
        <4> TAKE i \in 1..Len(rest)
        <4>1. CASE i < n
          BY <1>1, <3>1, <3>2, <4>1
        <4>2. CASE i >= n
          BY <1>1, <3>1, <3>2, <4>2
        <4> QED BY <1>1, <3>1, <3>2, <4>1, <4>2
      <3>5. \A i \in 1..Len(rest) : rest[i] # k
        BY <1>1, <3>1, <3>4
      <3>6. \A i, j \in 1..Len(rest) : rest[i] = rest[j] => i = j
        <4> TAKE i \in 1..Len(rest), j \in 1..Len(rest)
        <4> HAVE rest[i] = rest[j]
        <4>1. PICK a \in 1..Len(recent) : rest[i] = recent[a] /\ a = (IF i < n THEN i ELSE i + 1)
          BY <3>4
        <4>2. PICK b \in 1..Len(recent) : rest[j] = recent[b] /\ b = (IF j < n THEN j ELSE j + 1)
          BY <3>4
        <4>3. a = b
          BY <1>1, <4>1, <4>2
        <4> QED BY <3>1, <3>3, <4>1, <4>2, <4>3
      <3>7. \A i \in 1..Len(recent) : recent[i] # k => \E j \in 1..Len(rest) : rest[j] = recent[i]
        <4> TAKE i \in 1..Len(recent)
        <4> HAVE recent[i] # k
        <4>1. CASE i < n
          <5>1. i \in 1..Len(rest) /\ rest[i] = recent[i]
            BY <1>1, <3>1, <3>2, <4>1
          <5> QED BY <5>1
        <4>2. CASE i >= n
          <5>1. i # n
            BY <3>1
          <5>2. i - 1 \in 1..Len(rest) /\ rest[i - 1] = recent[(i - 1) + 1]
            BY <1>1, <3>1, <3>2, <4>2, <5>1
          <5> QED BY <5>2
        <4> QED BY <3>1, <4>1, <4>2
      <3> QED BY <3>2, <3>3, <3>5, <3>6, <3>7
    <2> QED BY <2>1, <2>2, WithoutFacts
  <1> DEFINE line == Append(rest, k)
  <1> HIDE DEF rest
  <1>4. /\ line \in Seq(Directories) /\ Len(line) = Len(rest) + 1
        /\ \A i \in 1..Len(rest) : line[i] = rest[i]
        /\ line[Len(rest) + 1] = k
    BY <1>2, AppendProperties
  <1>9. line = Used(k)
    BY DEF Used, rest
  <1> HIDE DEF line
  <1>5. DOMAIN line = 1..Len(line)
    BY <1>4, LenProperties
  <1>6. \A i, j \in 1..Len(line) : line[i] = line[j] => i = j
    BY <1>2, <1>4
  <1>7. \A i \in 1..Len(recent) : \E j \in 1..Len(line) : line[j] = recent[i]
    <2> TAKE i \in 1..Len(recent)
    <2>1. CASE recent[i] = k
      <3>1. Len(rest) + 1 \in 1..Len(line)
        BY <1>2, <1>4
      <3> QED BY <1>4, <2>1, <3>1
    <2>2. CASE recent[i] # k
      <3>1. PICK j \in 1..Len(rest) : rest[j] = recent[i]
        BY <1>2, <2>2
      <3>2. j \in 1..Len(line)
        BY <1>2, <1>4
      <3> QED BY <1>4, <3>1, <3>2
    <2> QED BY <2>1, <2>2
  <1>8. Len(line) \in Nat \ {0} /\ line[Len(line)] = k
    BY <1>2, <1>4
  <1>10. ASSUME \E i \in DOMAIN recent : recent[i] = k
         PROVE  Len(line) = Len(recent)
    <2>1. Len(rest) = Len(recent) - 1
      BY <1>2, <1>10
    <2> QED BY <1>1, <1>4, <2>1
  <1> QED BY <1>4, <1>5, <1>6, <1>7, <1>8, <1>9, <1>10 DEF IsUsed

(* A hit makes the key the last one.                                         *)
LEMMA MoveEffect ==
    ASSUME DirectoryTypeOK, InOrder, NEW k \in Directories, age[k] # "none", MoveToEnd(k), age' = age
    PROVE  /\ recent' \in Seq(Directories) /\ Len(recent') <= MaxDirectories /\ InOrder'
  <1>1. DOMAIN recent = 1..Len(recent) /\ Len(recent) \in Nat /\ Len(recent) <= MaxDirectories
    BY LenProperties DEF DirectoryTypeOK
  <1>2. recent' = Append(Without(k), k)
    BY DEF MoveToEnd
  <1>3. /\ recent' \in Seq(Directories) /\ Len(recent') \in Nat /\ DOMAIN recent' = 1..Len(recent')
        /\ (\E i \in DOMAIN recent : recent[i] = k) => Len(recent') = Len(recent)
        /\ \A i, j \in 1..Len(recent') : recent'[i] = recent'[j] => i = j
        /\ \A i \in 1..Len(recent) : \E j \in 1..Len(recent') : recent'[j] = recent[i]
    <2> DEFINE line == Used(k)
    <2>1. IsUsed(k, line)
      BY UsedLast
    <2>2. recent' = line
      BY <1>2 DEF Used
    <2> HIDE DEF line
    <2> QED BY <2>1, <2>2 DEF IsUsed
  <1>4. \A d \in Directories : age[d] # "none" => \E i \in 1..Len(recent) : recent[i] = d
    BY <1>1 DEF InOrder
  <1>5. \A d \in Directories : age'[d] # "none" => \E i \in DOMAIN recent' : recent'[i] = d
    <2> TAKE d \in Directories
    <2> HAVE age'[d] # "none"
    <2>1. PICK i \in 1..Len(recent) : recent[i] = d
      BY <1>4
    <2>2. PICK j \in 1..Len(recent') : recent'[j] = recent[i]
      BY <1>3
    <2> QED BY <1>3, <2>1, <2>2
  <1>6. \E i \in DOMAIN recent : recent[i] = k
    BY <1>1, <1>4
  <1>7. Len(recent') <= MaxDirectories
    BY <1>1, <1>3, <1>6
  <1>8. \A i, j \in DOMAIN recent' : recent'[i] = recent'[j] => i = j
    BY <1>3
  <1> QED BY <1>3, <1>5, <1>7, <1>8 DEF InOrder

(* An answer makes its key the last one and the first ones go.               *)
Aged(line, over, k) ==
    [d \in Directories |->
       IF \E i \in 1..over : line[i] = d THEN "none" ELSE IF d = k THEN "fresh" ELSE age[d]]
LEMMA ArriveEffect ==
    ASSUME DirectoryTypeOK, InOrder, NEW k \in Directories,
           NEW line, line = Used(k),
           NEW over, over = (IF Len(line) > MaxDirectories THEN Len(line) - MaxDirectories ELSE 0),
           recent' = SubSeq(line, over + 1, Len(line)),
           age' = Aged(line, over, k)
    PROVE  /\ recent' \in Seq(Directories) /\ Len(recent') <= MaxDirectories /\ InOrder'
           /\ age' \in [Directories -> {"none", "fresh", "stale", "dead"}]
  <1>0. age' = [d \in Directories |->
                     IF \E i \in 1..over : line[i] = d THEN "none" ELSE IF d = k THEN "fresh" ELSE age[d]]
    BY DEF Aged
  <1>1. /\ line \in Seq(Directories) /\ Len(line) \in Nat \ {0} /\ DOMAIN line = 1..Len(line)
        /\ line[Len(line)] = k
        /\ \A i, j \in 1..Len(line) : line[i] = line[j] => i = j
        /\ \A i \in 1..Len(recent) : \E j \in 1..Len(line) : line[j] = recent[i]
    <2>1. IsUsed(k, line)
      BY UsedLast
    <2> QED BY <2>1 DEF IsUsed
  <1>2. MaxDirectories \in Nat \ {0}
    BY DirectoryAssumption
  <1>3. over \in Nat /\ over < Len(line) /\ Len(line) - over <= MaxDirectories
    <2>1. Len(line) \in Nat \ {0}
      BY <1>1
    <2> DEFINE n == Len(line)
               m == MaxDirectories
    <2>2. over = (IF n > m THEN n - m ELSE 0)
      OBVIOUS
    <2>3. n \in Nat \ {0} /\ m \in Nat \ {0}
      BY <1>2, <2>1
    <2> HIDE DEF n, m
    <2>4. over \in Nat /\ over < n /\ n - over <= m
      BY ONLY <2>2, <2>3
    <2> QED BY <2>4 DEF n, m
  <1>4. /\ recent' \in Seq(Directories) /\ Len(recent') = Len(line) - over
        /\ DOMAIN recent' = 1..(Len(line) - over)
        /\ \A i \in 1..(Len(line) - over) : recent'[i] = line[i + over]
    <2>1. over \in 0..Len(line)
      BY <1>1, <1>3
    <2>2. line \in Seq(Directories)
      BY <1>1
    <2> QED BY <2>1, <2>2, BackFacts
  <1>6. \A i, j \in 1..(Len(line) - over) : recent'[i] = recent'[j] => i = j
    <2> TAKE i, j \in 1..(Len(line) - over)
    <2> HAVE recent'[i] = recent'[j]
    <2>0. Len(line) \in Nat
      BY <1>1
    <2>1. i + over \in 1..Len(line) /\ j + over \in 1..Len(line)
      <3>0. over \in Nat
        BY <1>3
      <3>1. ASSUME NEW m \in Nat, NEW o \in Nat, NEW x \in 1..(m - o) PROVE x + o \in 1..m
        OBVIOUS
      <3> QED BY <2>0, <3>0, <3>1
    <2>2. line[i + over] = line[j + over]
      BY <1>4
    <2>3. i + over = j + over
      BY <1>1, <2>1, <2>2
    <2> QED BY <1>1, <1>3, <2>3
  <1>7. \A n \in 1..Len(line) : n > over => \E i \in 1..(Len(line) - over) : recent'[i] = line[n]
    <2> TAKE n \in 1..Len(line)
    <2> HAVE n > over
    <2>0. Len(line) \in Nat
      BY <1>1
    <2>1. n - over \in 1..(Len(line) - over) /\ (n - over) + over = n
      BY <1>3, <2>0
    <2>2. recent'[n - over] = line[(n - over) + over]
      BY <1>4, <2>1
    <2> QED BY <2>1, <2>2
  <1>8. ASSUME NEW d \in Directories, age'[d] # "none"
        PROVE  \E i \in 1..(Len(line) - over) : recent'[i] = d
    <2>1. ~\E i \in 1..over : line[i] = d
      BY <1>0, <1>8
    <2>2. \E n \in 1..Len(line) : line[n] = d
      <3>1. CASE d = k
        BY <1>1, <3>1
      <3>2. CASE d # k
        <4>1. age[d] # "none"
          BY <1>0, <1>8, <2>1, <3>2
        <4>2. DOMAIN recent = 1..Len(recent)
          BY LenProperties DEF DirectoryTypeOK
        <4>3. PICK i \in 1..Len(recent) : recent[i] = d
          BY <4>1, <4>2 DEF InOrder
        <4> QED BY <1>1, <4>3
      <3> QED BY <3>1, <3>2
    <2>3. PICK n \in 1..Len(line) : line[n] = d
      BY <2>2
    <2>4. n > over
      BY <1>1, <1>3, <2>1, <2>3
    <2> QED BY <1>7, <2>3, <2>4
  <1>9. InOrder'
    <2>1. \A i, j \in DOMAIN recent' : recent'[i] = recent'[j] => i = j
      <3> DEFINE l == Len(line) - over
      <3>1. DOMAIN recent' = 1..l /\ \A i, j \in 1..l : recent'[i] = recent'[j] => i = j
        BY <1>4, <1>6
      <3> HIDE DEF l
      <3>2. ASSUME NEW v, NEW D, DOMAIN v = D, \A i, j \in D : v[i] = v[j] => i = j
            PROVE  \A i, j \in DOMAIN v : v[i] = v[j] => i = j
        BY <3>2
      <3>3. PICK v : v = recent'
        OBVIOUS
      <3>4. DOMAIN v = 1..l /\ \A i, j \in 1..l : v[i] = v[j] => i = j
        BY <3>1, <3>3
      <3>5. \A i, j \in DOMAIN v : v[i] = v[j] => i = j
        BY <3>2, <3>4
      <3> QED BY <3>3, <3>5
    <2>2. \A d \in Directories : age'[d] # "none" => \E i \in DOMAIN recent' : recent'[i] = d
      BY <1>4, <1>8
    <2> QED BY <2>1, <2>2 DEF InOrder
  <1>10. age' \in [Directories -> {"none", "fresh", "stale", "dead"}]
    BY <1>0 DEF DirectoryTypeOK
  <1> QED BY <1>3, <1>4, <1>9, <1>10


---------------------------------------------------------------------------
(* A reader goes on under the lock he waits for or has: he is where he was,  *)
(* and he has the lock if nobody else has it.                                *)
LEMMA GoesOn ==
    ASSUME DirectoryInv, NEW r \in Readers, reader[r].pc # "away",
           NEW l \in {"asking", "cancelled"}, reader' = [reader EXCEPT ![r].pc = l],
           reader[r].pc = "asking" \/ ~Held(reader[r].lock),
           UNCHANGED <<mutex, users, failed>>
    PROVE  /\ reader' \in [Readers -> {Away} \cup Present] /\ SingleFlight' /\ LocksApart'
  <1>1. /\ reader \in [Readers -> {Away} \cup Present]
        /\ reader[r] \in Present /\ reader[r].key \in Directories /\ r \in Inside(reader[r].key)
    BY PresentReader DEF DirectoryInv, DirectoryTypeOK, Present
  <1>2. [reader[r] EXCEPT !.pc = l] \in Present
        /\ [reader[r] EXCEPT !.pc = l].key = reader[r].key
        /\ [reader[r] EXCEPT !.pc = l].lock = reader[r].lock
        /\ [reader[r] EXCEPT !.pc = l].pc = l
    BY <1>1 DEF Present
  <1>3. /\ reader' \in [Readers -> {Away} \cup Present]
        /\ \A q \in Readers \ {r} : reader'[q] = reader[q]
        /\ reader'[r].key = reader[r].key /\ reader'[r].lock = reader[r].lock /\ reader'[r].pc = l
    BY <1>1, <1>2
  <1>4. \A d \in Directories : Inside(d)' = Inside(d)
    BY <1>3 DEF Inside
  <1>5. ASSUME NEW d \in Directories
        PROVE  Cardinality({q \in Inside(d)' : reader'[q].pc # "waiting"}) <= 1
    <2>1. CASE d = reader[r].key
      <3>1. IsFiniteSet(Inside(d)) /\ IsFiniteSet({q \in Inside(d) : reader[q].pc # "waiting"})
        BY DirectoryAssumption, FS_Subset DEF Inside
      <3>2. \A q \in Inside(d) : reader[q].lock = mutex[d]
        BY DEF DirectoryInv, SingleFlight
      <3>3. \A q \in Inside(d) : reader[q].pc \in {"waiting", "asking", "cancelled"} /\ q \in Readers
        BY <1>1 DEF Inside, Away, Present
      <3>4. CASE reader[r].pc = "asking"
        <4>1. {q \in Inside(d)' : reader'[q].pc # "waiting"} = {q \in Inside(d) : reader[q].pc # "waiting"}
          BY <1>3, <1>4, <3>3, <3>4
        <4> QED BY <4>1 DEF DirectoryInv, SingleFlight
      <3>5. CASE ~Held(reader[r].lock)
        <4>1. \A q \in Inside(d) : reader[q].pc = "waiting"
          BY <1>1, <2>1, <3>2, <3>3, <3>5 DEF Held
        <4>2. {q \in Inside(d)' : reader'[q].pc # "waiting"} = {r}
          BY <1>1, <1>3, <1>4, <2>1, <3>3, <4>1
        <4>3. Cardinality({r}) = 1
          BY FS_Singleton
        <4>4. Cardinality({q \in Inside(d)' : reader'[q].pc # "waiting"}) = 1
          BY ONLY <4>2, <4>3
        <4> QED BY <4>4
      <3> QED BY <3>4, <3>5
    <2>2. CASE d # reader[r].key
      <3>1. {q \in Inside(d)' : reader'[q].pc # "waiting"} = {q \in Inside(d) : reader[q].pc # "waiting"}
        BY <1>3, <1>4, <2>2 DEF Inside
      <3> QED BY <3>1 DEF DirectoryInv, SingleFlight
    <2> QED BY <2>1, <2>2
  <1>6. SingleFlight'
    <2>0. \A d \in Directories : \A q \in Inside(d) : q \in Readers /\ reader[q].lock = mutex[d]
      BY DEF DirectoryInv, SingleFlight, Inside
    <2>1. \A d \in Directories : \A q \in Inside(d)' : reader'[q].lock = mutex[d]
      BY <1>3, <1>4, <2>0
    <2> QED BY <1>4, <1>5, <2>1 DEF DirectoryInv, SingleFlight
  <1> QED BY <1>3, <1>6 DEF DirectoryInv, LocksApart

(* One more reader, under the lock of those who are there or a new one.      *)
LEMMA Joins ==
    ASSUME DirectoryInv, NEW r \in Readers, reader[r].pc = "away", NEW k \in Directories,
           NEW l \in LockIds,
           IF mutex[k] # NoLock THEN l = mutex[k]
           ELSE l = CHOOSE i \in LockIds : \A q \in Readers : reader[q] # Away => reader[q].lock # i,
           mutex' = [mutex EXCEPT ![k] = l], users' = [users EXCEPT ![k] = @ + 1],
           reader' = [reader EXCEPT ![r] = [pc |-> "waiting", key |-> k, lock |-> l]],
           UNCHANGED failed
    PROVE  /\ reader' \in [Readers -> {Away} \cup Present]
           /\ mutex' \in [Directories -> LockIds \cup {NoLock}] /\ users' \in [Directories -> Nat]
           /\ SingleFlight' /\ LocksApart'
  <1>1. /\ reader \in [Readers -> {Away} \cup Present] /\ users \in [Directories -> Nat]
        /\ mutex \in [Directories -> LockIds \cup {NoLock}]
    BY DEF DirectoryInv, DirectoryTypeOK, Present
  <1> DEFINE new == [pc |-> "waiting", key |-> k, lock |-> l]
  <1>2. new \in Present /\ new.pc = "waiting" /\ new.key = k /\ new.lock = l
    BY DEF Present
  <1>3. /\ reader' \in [Readers -> {Away} \cup Present] /\ reader'[r] = new
        /\ \A q \in Readers \ {r} : reader'[q] = reader[q]
        /\ mutex' \in [Directories -> LockIds \cup {NoLock}] /\ mutex'[k] = l
        /\ \A d \in Directories \ {k} : mutex'[d] = mutex[d] /\ users'[d] = users[d]
        /\ users' \in [Directories -> Nat] /\ users'[k] = users[k] + 1
    BY <1>1, <1>2
  <1> HIDE DEF new
  <1>4. /\ Inside(k)' = Inside(k) \cup {r} /\ r \notin Inside(k)
        /\ \A d \in Directories \ {k} : Inside(d)' = Inside(d) /\ r \notin Inside(d)
    BY <1>2, <1>3 DEF Inside
  <1>5. \A q \in Inside(k) : reader[q].lock = l
    <2>1. \A q \in Inside(k) : reader[q].lock = mutex[k] /\ reader[q].lock \in LockIds
      BY <1>1, PresentReader DEF DirectoryInv, SingleFlight, Inside
    <2> QED BY <2>1, LocksAreNumbers DEF NoLock
  <1>6. LocksApart'
    <2>1. CASE mutex[k] # NoLock
      <3>1. \A d \in Directories : mutex'[d] = mutex[d]
        BY <1>3, <2>1
      <3> QED BY <3>1 DEF DirectoryInv, LocksApart
    <2>2. CASE mutex[k] = NoLock
      <3>1. \A q \in Readers : reader[q] # Away => reader[q].lock # l
        BY <2>2, FreeLock DEF DirectoryInv
      <3>2. ASSUME NEW d \in Directories, mutex[d] = l
            PROVE  FALSE
        <4>1. mutex[d] # NoLock
          BY <3>2, LocksAreNumbers DEF NoLock
        <4>2. PICK q \in Inside(d) : TRUE
          BY <4>1 DEF DirectoryInv, SingleFlight
        <4>3. q \in Readers /\ reader[q] # Away /\ reader[q].lock = mutex[d]
          <5>1. reader[q].lock = mutex[d]
            BY <4>2 DEF DirectoryInv, SingleFlight
          <5>2. q \in Readers /\ reader[q].pc # "away"
            BY <4>2 DEF Inside
          <5> QED BY <5>1, <5>2 DEF Away
        <4> QED BY <3>1, <3>2, <4>3
      <3> QED BY <1>3, <3>2 DEF DirectoryInv, LocksApart
    <2> QED BY <2>1, <2>2
  <1>7. SingleFlight'
    <2>1. ASSUME NEW d \in Directories
          PROVE  /\ Cardinality({q \in Inside(d)' : reader'[q].pc # "waiting"}) <= 1
                 /\ users'[d] = Cardinality(Inside(d)')
                 /\ \A q \in Inside(d)' : reader'[q].lock = mutex'[d]
                 /\ Inside(d)' = {} => mutex'[d] = NoLock /\ d \notin failed'
      <3>0. /\ Cardinality({q \in Inside(d) : reader[q].pc # "waiting"}) <= 1
            /\ users[d] = Cardinality(Inside(d))
            /\ \A q \in Inside(d) : reader[q].lock = mutex[d]
            /\ Inside(d) = {} => mutex[d] = NoLock /\ d \notin failed
        BY DEF DirectoryInv, SingleFlight
      <3>1. {q \in Inside(d)' : reader'[q].pc # "waiting"} = {q \in Inside(d) : reader[q].pc # "waiting"}
        BY <1>2, <1>3, <1>4 DEF Inside
      <3>2. CASE d = k
        <4>1. IsFiniteSet(Inside(k))
          BY DirectoryAssumption, FS_Subset DEF Inside
        <4>2. Cardinality(Inside(k) \cup {r}) = Cardinality(Inside(k)) + 1
          BY <1>4, <4>1, FS_AddElement
        <4>3. \A q \in Inside(k)' : reader'[q].lock = mutex'[k]
          BY <1>2, <1>3, <1>4, <1>5 DEF Inside
        <4> QED BY <1>3, <1>4, <3>0, <3>1, <3>2, <4>2, <4>3
      <3>3. CASE d # k
        <4>1. \A q \in Inside(d)' : reader'[q].lock = mutex'[d]
          BY <1>3, <1>4, <3>0, <3>3 DEF Inside
        <4> QED BY <1>3, <1>4, <3>0, <3>1, <3>3, <4>1
      <3> QED BY <3>2, <3>3
    <2> QED BY <2>1 DEF SingleFlight
  <1> QED BY <1>3, <1>6, <1>7

LEMMA FlightStays ==
    ASSUME SingleFlight, LocksApart, UNCHANGED <<reader, mutex, users, failed>>
    PROVE  SingleFlight' /\ LocksApart'
  <1>1. \A k \in Directories : Inside(k)' = Inside(k)
    BY DEF Inside
  <1>2. \A k \in Directories :
           {q \in Inside(k)' : reader'[q].pc # "waiting"} = {q \in Inside(k) : reader[q].pc # "waiting"}
    BY <1>1
  <1> QED BY <1>1, <1>2 DEF SingleFlight, LocksApart

LEMMA AskDirectoryInv ==
    ASSUME DirectoryInv, NEW r \in Readers, NEW k \in Directories, AskDirectory(r, k)
    PROVE  DirectoryInv'
  <1>1. CASE age[k] = "fresh"
    <2>1. MoveToEnd(k) /\ UNCHANGED <<age, mutex, users, reader, failed>>
      BY <1>1 DEF AskDirectory
    <2>2. recent' \in Seq(Directories) /\ Len(recent') <= MaxDirectories /\ InOrder'
      BY <1>1, <2>1, MoveEffect DEF DirectoryInv
    <2>3. SingleFlight' /\ LocksApart'
      BY <2>1, FlightStays DEF DirectoryInv
    <2> QED BY <2>1, <2>2, <2>3 DEF DirectoryInv, DirectoryTypeOK
  <1>2. CASE age[k] # "fresh"
    <2>1. /\ Reading(r, "away") /\ UNCHANGED <<age, recent, failed>>
          /\ \E l \in LockIds :
              /\ IF mutex[k] # NoLock THEN l = mutex[k]
                 ELSE l = CHOOSE i \in LockIds : \A q \in Readers : reader[q] # Away => reader[q].lock # i
              /\ mutex' = [mutex EXCEPT ![k] = l] /\ users' = [users EXCEPT ![k] = @ + 1]
              /\ reader' = [reader EXCEPT ![r] = [pc |-> "waiting", key |-> k, lock |-> l]]
      BY <1>2 DEF AskDirectory
    <2>2. /\ reader' \in [Readers -> {Away} \cup Present]
          /\ mutex' \in [Directories -> LockIds \cup {NoLock}] /\ users' \in [Directories -> Nat]
          /\ SingleFlight' /\ LocksApart'
      <3>1. PICK l \in LockIds :
              /\ IF mutex[k] # NoLock THEN l = mutex[k]
                 ELSE l = CHOOSE i \in LockIds : \A q \in Readers : reader[q] # Away => reader[q].lock # i
              /\ mutex' = [mutex EXCEPT ![k] = l] /\ users' = [users EXCEPT ![k] = @ + 1]
              /\ reader' = [reader EXCEPT ![r] = [pc |-> "waiting", key |-> k, lock |-> l]]
        BY <2>1
      <3>2. reader[r].pc = "away" /\ UNCHANGED failed
        BY <2>1 DEF Reading
      <3> QED BY <3>1, <3>2, Joins
    <2> QED BY <2>1, <2>2 DEF DirectoryInv, DirectoryTypeOK, InOrder, Present
  <1> QED BY <1>1, <1>2

(* Whoever leaves and changes the order of use as he may.                    *)
LEMMA LeavesInv ==
    ASSUME DirectoryInv, NEW r \in Readers, reader[r].pc # "away", Leave(r),
           failed' \subseteq (failed \cup {reader[r].key}) \ Forgotten(r),
           recent' \in Seq(Directories), Len(recent') <= MaxDirectories, InOrder',
           age' \in [Directories -> {"none", "fresh", "stale", "dead"}]
    PROVE  DirectoryInv'
  <1>1. reader[r].key \in Directories
    BY PresentReader DEF DirectoryInv
  <1>2. /\ reader' \in [Readers -> {Away} \cup Present]
        /\ mutex' \in [Directories -> LockIds \cup {NoLock}]
        /\ users' \in [Directories -> Nat] /\ failed' \subseteq Directories
        /\ SingleFlight' /\ LocksApart'
    BY <1>1, LeaveEffect
  <1> QED BY <1>2 DEF DirectoryInv, DirectoryTypeOK, Present

LEMMA OrderStays ==
    ASSUME DirectoryInv, UNCHANGED <<age, recent>>
    PROVE  /\ recent' \in Seq(Directories) /\ Len(recent') <= MaxDirectories /\ InOrder'
           /\ age' \in [Directories -> {"none", "fresh", "stale", "dead"}]
  BY DEF DirectoryInv, DirectoryTypeOK, InOrder

LEMMA EnterDirectoryInv ==
    ASSUME DirectoryInv, NEW r \in Readers, EnterDirectory(r)
    PROVE  DirectoryInv'
  <1>1. /\ reader[r].pc = "waiting" /\ ~Held(reader[r].lock) /\ UNCHANGED age
        /\ reader[r].key \in Directories
    BY PresentReader DEF EnterDirectory, Reading, DirectoryInv
  <1>2. CASE age[reader[r].key] = "fresh"
    <2>1. Leave(r) /\ MoveToEnd(reader[r].key) /\ failed' = failed \ Forgotten(r)
      BY <1>2 DEF EnterDirectory
    <2>2. recent' \in Seq(Directories) /\ Len(recent') <= MaxDirectories /\ InOrder'
      BY <1>1, <1>2, <2>1, MoveEffect DEF DirectoryInv
    <2>3. age' \in [Directories -> {"none", "fresh", "stale", "dead"}]
      BY <1>1 DEF DirectoryInv, DirectoryTypeOK
    <2> QED BY <1>1, <2>1, <2>2, <2>3, LeavesInv
  <1>3. CASE age[reader[r].key] # "fresh" /\ reader[r].key \in failed
    <2>1. Leave(r) /\ failed' = failed \ Forgotten(r) /\ UNCHANGED <<age, recent>>
      BY <1>1, <1>3 DEF EnterDirectory
    <2> QED BY <1>1, <2>1, OrderStays, LeavesInv
  <1>4. CASE age[reader[r].key] # "fresh" /\ reader[r].key \notin failed
    <2>1. reader' = [reader EXCEPT ![r].pc = "asking"] /\ UNCHANGED <<age, recent, mutex, users, failed>>
      BY <1>1, <1>4 DEF EnterDirectory
    <2>2. reader' \in [Readers -> {Away} \cup Present] /\ SingleFlight' /\ LocksApart'
      BY <1>1, <2>1, GoesOn
    <2> QED BY <2>1, <2>2, OrderStays DEF DirectoryInv, DirectoryTypeOK, Present
  <1> QED BY <1>2, <1>3, <1>4

LEMMA DirectoryArrivesInv ==
    ASSUME DirectoryInv, NEW r \in Readers, DirectoryArrives(r)
    PROVE  DirectoryInv'
  <1> DEFINE k == reader[r].key
             line == Used(k)
             over == IF Len(line) > MaxDirectories THEN Len(line) - MaxDirectories ELSE 0
  <1>1. /\ reader[r].pc = "asking" /\ Leave(r) /\ failed' = failed \ Forgotten(r)
        /\ recent' = SubSeq(line, over + 1, Len(line))
        /\ age' = Aged(line, over, k)
    BY DEF DirectoryArrives, Reading, Used, Aged
  <1>2. k \in Directories
    BY <1>1, PresentReader DEF DirectoryInv
  <1> HIDE DEF k, line, over
  <1>3. line = Used(k) /\ over = (IF Len(line) > MaxDirectories THEN Len(line) - MaxDirectories ELSE 0)
    BY DEF line, over
  <1>4. /\ recent' \in Seq(Directories) /\ Len(recent') <= MaxDirectories /\ InOrder'
        /\ age' \in [Directories -> {"none", "fresh", "stale", "dead"}]
    BY <1>1, <1>2, <1>3, ArriveEffect DEF DirectoryInv
  <1> QED BY <1>1, <1>4, LeavesInv

LEMMA CancelReaderInv ==
    ASSUME DirectoryInv, NEW r \in Readers, CancelReader(r)
    PROVE  DirectoryInv'
  <1>1. UNCHANGED <<age, recent>>
    BY DEF CancelReader
  <1>2. CASE Reading(r, "waiting") /\ Leave(r) /\ failed' = failed \ Forgotten(r)
    BY <1>1, <1>2, OrderStays, LeavesInv DEF Reading
  <1>3. CASE /\ Reading(r, "asking") /\ reader' = [reader EXCEPT ![r].pc = "cancelled"]
             /\ UNCHANGED <<mutex, users, failed>>
    <2>1. reader' \in [Readers -> {Away} \cup Present] /\ SingleFlight' /\ LocksApart'
      BY <1>3, GoesOn DEF Reading
    <2> QED BY <1>1, <1>3, <2>1, OrderStays DEF DirectoryInv, DirectoryTypeOK, Present
  <1> QED BY <1>2, <1>3 DEF CancelReader

LEMMA EntryAgesInv ==
    ASSUME DirectoryInv, EntryAges
    PROVE  DirectoryInv'
  <1>1. /\ UNCHANGED <<recent, mutex, users, failed, reader>>
        /\ \E k \in Directories : \E next \in {"stale", "dead"} :
              age[k] # "none" /\ age' = [age EXCEPT ![k] = next]
    BY DEF EntryAges
  <1>2. /\ age' \in [Directories -> {"none", "fresh", "stale", "dead"}]
        /\ \A d \in Directories : age'[d] # "none" => age[d] # "none"
    BY <1>1 DEF DirectoryInv, DirectoryTypeOK
  <1>3. SingleFlight' /\ LocksApart'
    BY <1>1, FlightStays DEF DirectoryInv
  <1> QED BY <1>1, <1>2, <1>3 DEF DirectoryInv, DirectoryTypeOK, InOrder

LEMMA DirectoryInitInv == DirectoryInit => DirectoryInv
  <1> SUFFICES ASSUME DirectoryInit PROVE DirectoryInv
    OBVIOUS
  <1>1. \A k \in Directories : Inside(k) = {}
    BY DEF DirectoryInit, Inside, Away
  <1>2. Cardinality({}) = 0
    BY FS_EmptySet
  <1>3. recent = <<>> /\ Len(recent) = 0 /\ DOMAIN recent = {}
    BY DEF DirectoryInit
  <1>4. DirectoryTypeOK
    <2>1. recent \in Seq(Directories) /\ Len(recent) <= MaxDirectories
      BY <1>3, EmptySeq, DirectoryAssumption
    <2> QED BY <2>1 DEF DirectoryInit, DirectoryTypeOK
  <1>5. SingleFlight
    <2>1. \A k \in Directories : {q \in Inside(k) : reader[q].pc # "waiting"} = {}
      BY <1>1
    <2>2. \A k \in Directories : Cardinality({q \in Inside(k) : reader[q].pc # "waiting"}) = 0
      BY <1>2, <2>1
    <2>3. \A k \in Directories : mutex[k] = NoLock /\ users[k] = 0 /\ failed = {}
      BY DEF DirectoryInit
    <2> QED BY <1>1, <1>2, <2>2, <2>3 DEF SingleFlight
  <1> QED BY <1>3, <1>4, <1>5 DEF DirectoryInit, DirectoryInv, LocksApart, InOrder

LEMMA DirectoryStepInv == DirectoryInv /\ [DirectoryNext]_directoryVars => DirectoryInv'
  <1> SUFFICES ASSUME DirectoryInv, [DirectoryNext]_directoryVars PROVE DirectoryInv'
    OBVIOUS
  <1>1. CASE EntryAges
    BY <1>1, EntryAgesInv
  <1>2. ASSUME NEW r \in Readers, ReaderStep(r)
        PROVE  DirectoryInv'
    <2>1. CASE \E k \in Directories : AskDirectory(r, k)
      BY <2>1, AskDirectoryInv
    <2>2. CASE EnterDirectory(r)
      BY <2>2, EnterDirectoryInv
    <2>3. CASE DirectoryArrives(r)
      BY <2>3, DirectoryArrivesInv
    <2>4. CASE DirectoryFails(r)
      BY <2>4, OrderStays, LeavesInv DEF DirectoryFails, Reading
    <2>5. CASE CancelReader(r)
      BY <2>5, CancelReaderInv
    <2>6. CASE ThreadEnds(r)
      BY <2>6, OrderStays, LeavesInv DEF ThreadEnds, Reading
    <2> QED BY <1>2, <2>1, <2>2, <2>3, <2>4, <2>5, <2>6 DEF ReaderStep
  <1>3. CASE UNCHANGED directoryVars
    <2>1. UNCHANGED <<age, recent, mutex, users, failed, reader>>
      BY <1>3 DEF directoryVars
    <2>2. SingleFlight' /\ LocksApart'
      BY <2>1, FlightStays DEF DirectoryInv
    <2> QED BY <2>1, <2>2 DEF DirectoryInv, DirectoryTypeOK, InOrder
  <1> QED BY <1>1, <1>2, <1>3 DEF DirectoryNext

(* One request to CatalogVR for a list at a time, the lock newcomers will    *)
(* find, and an error shared by those who are there and nobody else          *)
(* (_cached_integration_get), for any number of lists, readers and entries.  *)
THEOREM SingleFlightTheorem == DirectorySpec => []SingleFlight
  <1>1. DirectoryInv => SingleFlight
    BY DEF DirectoryInv
  <1> QED BY <1>1, DirectoryInitInv, DirectoryStepInv, PTL DEF DirectorySpec

---------------------------------------------------------------------------

------------------------------------------------------------ (* ReportScenarios *)
(* The transaction of a pass: who has a scenario's lock is in one of it, and *)
(* whoever is in one has the lock.                                          *)
InTransaction(p) == pass[p].pc \in {"flush", "report", "mail", "commit"}
LocksHeld ==
    /\ \A p \in Processes : InTransaction(p) =>
         pass[p].id \in Scenarios /\ pass[p].date \in Days /\ locked[pass[p].id] = p
    /\ \A s \in Scenarios : locked[s] # Nobody =>
         InTransaction(locked[s]) /\ pass[locked[s]].id = s
    /\ \A p \in Processes : At(p, "commit") => pass[p].status \in {"completed", "failed"}

(* The clock, and what a pass has read of it.                                *)
ClockGoesOn == hour <= MaxHour /\ \A p \in Processes : ~At(p, "asleep") => pass[p].now <= hour

(* One row for a date, which has an outcome.                                 *)
Scheduled(s, d) == {r \in runs[s] : r.type = "scheduled" /\ r.date = d}
RowsInv ==
    \A s \in Scenarios : \A r \in runs[s] : r.type = "scheduled" =>
        /\ r.date \in Days /\ r.status \in {"completed", "failed"}
        /\ \A q \in Scheduled(s, r.date) : q = r

(* What a pass has planned or begun has not succeeded before.                *)
Open(s, d) == \A r \in Scheduled(s, d) : r.status = "failed"
PlansInv ==
    \A p \in Processes :
        /\ At(p, "flush") /\ pass[p].retry => Open(pass[p].id, pass[p].date)
        /\ pass[p].pc \in {"report", "mail", "commit"} =>
             scenario[pass[p].id].exists /\ Open(pass[p].id, pass[p].date)

(* Each mail is on record, about to be, or lost.                             *)
Completing(s, d) ==
    \E p \in Processes :
        At(p, "commit") /\ pass[p].id = s /\ pass[p].date = d /\ pass[p].status = "completed"
MailsInv ==
    \A s \in Scenarios, d \in Days :
        /\ sent[s][d] <= lost[s][d] + 1
        /\ scenario[s].exists /\ ~Completing(s, d) /\ Open(s, d) => sent[s][d] <= lost[s][d]

ScenarioInv == ScenarioTypeOK /\ LocksHeld /\ ClockGoesOn /\ RowsInv /\ PlansInv /\ MailsInv

---------------------------------------------------------------------------
Underway == [pc : {"next", "flush", "report", "mail", "commit"}, now : Nat,
           todo : SUBSET Scenarios, id : Scenarios \cup {Nobody}, date : Nat,
           retry : BOOLEAN, status : {"running", "completed", "failed"}]
Row == [type : {"scheduled", "manual_test"}, date : Nat,
        status : {"running", "completed", "failed"}, at : Nat]

(* Days are counted on with the hours.                                       *)
LEMMA DayOfHour == ASSUME NEW h \in Nat, h <= MaxHour PROVE Day(h) \in Days
  <1>1. DayLength \in Nat \ {0} /\ MaxHour \in Nat
    BY ScenarioAssumption
  <1>2. ASSUME NEW a \in Nat, NEW b \in Nat, NEW n \in Nat \ {0}, a <= b
        PROVE  a \div n \in Nat /\ b \div n \in Nat /\ a \div n <= b \div n
    <2>1. a \div n \in Nat /\ b \div n \in Nat
      OBVIOUS
    <2>2. a \div n <= b \div n
      BY <1>2
    <2> QED BY <2>1, <2>2
  <1> QED BY <1>1, <1>2 DEF Day, Days

(* A pass that is not asleep has the state of an active one.                 *)
LEMMA ActivePass ==
    ASSUME ScenarioTypeOK, NEW p \in Processes, pass[p].pc # "asleep"
    PROVE  pass[p] \in Underway
  BY DEF ScenarioTypeOK, PassStates, Underway

LEMMA PassMoves ==
    ASSUME ScenarioTypeOK, NEW p \in Processes, NEW x \in PassStates, pass' = [pass EXCEPT ![p] = x]
    PROVE  /\ pass' \in [Processes -> PassStates] /\ pass'[p] = x
           /\ \A q \in Processes : q # p => pass'[q] = pass[q]
  BY DEF ScenarioTypeOK

(* The lock of a scenario has one holder.                                    *)
LEMMA OneHolder ==
    ASSUME LocksHeld, NEW p \in Processes, NEW q \in Processes,
           InTransaction(p), InTransaction(q), pass[p].id = pass[q].id
    PROVE  p = q
  BY DEF LocksHeld

OthersAsBefore(p) == \A q \in Processes : q # p => pass'[q] = pass[q]
RestTyped ==
    /\ hour' \in Nat /\ failures' \in Nat /\ tests' \in Nat
    /\ scenario' \in [Scenarios -> Rows \cup {Removed}]
    /\ removal' \in [Scenarios -> [by : Processes \cup {Nobody}, held : BOOLEAN]]

(* Outside of a transaction a pass touches nothing of the invariant.         *)
LEMMA OutsideInv ==
    ASSUME ScenarioInv, NEW p \in Processes, ~InTransaction(p),
           pass' \in [Processes -> PassStates], OthersAsBefore(p),
           pass'[p].pc \in {"asleep", "next"},
           pass'[p].pc = "next" => pass'[p].now <= hour,
           RestTyped, UNCHANGED <<hour, scenario, runs, locked, sent, lost>>
    PROVE  ScenarioInv'
  <1>1. ScenarioTypeOK'
    BY DEF ScenarioInv, ScenarioTypeOK, RestTyped
  <1>2. \A q \in Processes : InTransaction(q)' <=> InTransaction(q)
    BY DEF OthersAsBefore, InTransaction
  <1>3. \A q \in Processes : InTransaction(q) => q # p /\ pass'[q] = pass[q]
    BY DEF OthersAsBefore
  <1>4. LocksHeld'
    <2>1. \A q \in Processes : InTransaction(q)' =>
             pass'[q].id \in Scenarios /\ pass'[q].date \in Days /\ locked'[pass'[q].id] = q
      BY <1>2, <1>3 DEF ScenarioInv, LocksHeld
    <2>2. \A s \in Scenarios : locked'[s] # Nobody =>
             InTransaction(locked[s])' /\ pass'[locked'[s]].id = s
      BY <1>2, <1>3 DEF ScenarioInv, LocksHeld, ScenarioTypeOK
    <2>3. \A q \in Processes : At(q, "commit")' => pass'[q].status \in {"completed", "failed"}
      BY <1>2, <1>3 DEF ScenarioInv, LocksHeld, InTransaction, At
    <2> QED BY <2>1, <2>2, <2>3 DEF LocksHeld
  <1>5. ClockGoesOn'
    BY DEF ScenarioInv, ClockGoesOn, OthersAsBefore, At
  <1>6. \A s, d : Scheduled(s, d)' = Scheduled(s, d) /\ (Open(s, d)' <=> Open(s, d))
    BY DEF Scheduled, Open
  <1>7. RowsInv'
    BY <1>6 DEF ScenarioInv, RowsInv
  <1>8. PlansInv'
    BY <1>2, <1>3, <1>6 DEF ScenarioInv, PlansInv, InTransaction, At
  <1>9. \A s, d : Completing(s, d)' <=> Completing(s, d)
    BY <1>2, <1>3 DEF Completing, InTransaction, At
  <1>10. MailsInv'
    BY <1>6, <1>9 DEF ScenarioInv, MailsInv
  <1> QED BY <1>1, <1>4, <1>5, <1>7, <1>8, <1>10 DEF ScenarioInv

LEMMA OneMore ==
    ASSUME NEW m \in [Scenarios -> [Days -> Nat]], NEW t \in Scenarios, NEW e \in Days, NEW more,
           more = [m EXCEPT ![t][e] = @ + 1]
    PROVE  /\ more \in [Scenarios -> [Days -> Nat]] /\ more[t][e] = m[t][e] + 1
           /\ \A s \in Scenarios, d \in Days : s # t \/ d # e => more[s][d] = m[s][d]
  <1>1. m[t] \in [Days -> Nat] /\ m[t][e] \in Nat
    OBVIOUS
  <1>2. [m[t] EXCEPT ![e] = @ + 1] \in [Days -> Nat]
    BY <1>1
  <1> QED BY <1>1, <1>2

(* The end of a transaction without a commit: the lock goes, and a mail that *)
(* was about to be recorded is lost.                                         *)
LEMMA EndsInv ==
    ASSUME ScenarioInv, NEW p \in Processes, NEW h \in Nat,
           pass' = [pass EXCEPT ![p] = Asleep(h)], Release(p), Unrecorded(p),
           RestTyped, UNCHANGED <<hour, scenario, runs, sent>>
    PROVE  ScenarioInv'
  <1>0. ScenarioTypeOK /\ LocksHeld
    BY DEF ScenarioInv
  <1>1. /\ pass' \in [Processes -> PassStates] /\ OthersAsBefore(p)
        /\ pass'[p].pc = "asleep" /\ ~InTransaction(p)' /\ ~At(p, "commit")'
    <2>1. Asleep(h) \in PassStates /\ Asleep(h).pc = "asleep"
      BY DEF Asleep, PassStates
    <2> QED BY <1>0, <2>1, PassMoves DEF OthersAsBefore, InTransaction, At
  <1>2. /\ locked' \in [Scenarios -> Processes \cup {Nobody}]
        /\ \A s \in Scenarios : locked'[s] = IF locked[s] = p THEN Nobody ELSE locked[s]
    BY <1>0 DEF Release, ScenarioTypeOK
  <1>3. \A q \in Processes : InTransaction(q)' => q # p /\ InTransaction(q) /\ pass'[q] = pass[q]
    BY <1>1 DEF OthersAsBefore, InTransaction
  <1>4. LocksHeld'
    <2>1. \A q \in Processes : InTransaction(q)' =>
             pass'[q].id \in Scenarios /\ pass'[q].date \in Days /\ locked'[pass'[q].id] = q
      BY <1>0, <1>2, <1>3 DEF LocksHeld
    <2>2. \A s \in Scenarios : locked'[s] # Nobody =>
             InTransaction(locked[s])' /\ pass'[locked'[s]].id = s
      <3> TAKE s \in Scenarios
      <3> HAVE locked'[s] # Nobody
      <3>1. locked'[s] = locked[s] /\ locked[s] # p /\ locked[s] \in Processes
        BY <1>0, <1>2 DEF ScenarioTypeOK
      <3>2. InTransaction(locked[s]) /\ pass[locked[s]].id = s
        BY <1>0, <1>2, <3>1 DEF LocksHeld
      <3>3. pass'[locked[s]] = pass[locked[s]]
        BY <1>1, <3>1 DEF OthersAsBefore
      <3> QED BY <3>1, <3>2, <3>3 DEF InTransaction
    <2>3. \A q \in Processes : At(q, "commit")' => pass'[q].status \in {"completed", "failed"}
      <3>1. \A q \in Processes : At(q, "commit")' => At(q, "commit") /\ pass'[q] = pass[q]
        BY <1>1 DEF OthersAsBefore, At
      <3> QED BY <1>0, <3>1 DEF LocksHeld
    <2> QED BY <2>1, <2>2, <2>3 DEF LocksHeld
  <1>5. ClockGoesOn'
    BY <1>1 DEF ScenarioInv, ClockGoesOn, OthersAsBefore, At
  <1>6. \A s, d : Scheduled(s, d)' = Scheduled(s, d) /\ (Open(s, d)' <=> Open(s, d))
    BY DEF Scheduled, Open
  <1>7. RowsInv'
    BY <1>6 DEF ScenarioInv, RowsInv
  <1>8. PlansInv'
    <2>1. \A q \in Processes : pass'[q].pc \in {"flush", "report", "mail", "commit"} => pass'[q] = pass[q]
      BY <1>3 DEF InTransaction
    <2> QED BY <1>6, <2>1 DEF ScenarioInv, PlansInv, At
  <1>9. /\ sent' \in [Scenarios -> [Days -> Nat]] /\ lost' \in [Scenarios -> [Days -> Nat]]
        /\ MailsInv'
    <2>1. \A s \in Scenarios : sent[s] \in [Days -> Nat] /\ lost[s] \in [Days -> Nat]
      BY <1>0 DEF ScenarioTypeOK
    <2>2. CASE At(p, "commit") /\ pass[p].status = "completed"
      <3>1. PICK t \in Scenarios, e \in Days : t = pass[p].id /\ e = pass[p].date
        BY <1>0, <2>2 DEF LocksHeld, InTransaction, At
      <3>2. lost' = [lost EXCEPT ![t][e] = @ + 1]
        BY <2>2, <3>1 DEF Unrecorded, Lose
      <3>4. /\ lost' \in [Scenarios -> [Days -> Nat]]
            /\ lost'[t][e] = lost[t][e] + 1
            /\ \A s \in Scenarios, d \in Days : s # t \/ d # e => lost'[s][d] = lost[s][d]
        BY <1>0, <3>2, OneMore DEF ScenarioTypeOK
      <3>5. ASSUME NEW s \in Scenarios, NEW d \in Days
            PROVE  /\ sent'[s][d] <= lost'[s][d] + 1
                   /\ scenario'[s].exists /\ ~Completing(s, d)' /\ Open(s, d)' => sent'[s][d] <= lost'[s][d]
        <4>1. sent[s][d] \in Nat /\ lost[s][d] \in Nat /\ sent[s][d] <= lost[s][d] + 1
          BY <2>1 DEF ScenarioInv, MailsInv
        <4>2. CASE s = t /\ d = e
          BY <3>4, <4>1, <4>2
        <4>3. CASE s # t \/ d # e
          <5>1. Completing(s, d) => Completing(s, d)'
            BY <1>1, <3>1, <4>3 DEF Completing, OthersAsBefore, At
          <5> QED BY <1>6, <3>4, <4>1, <4>3, <5>1 DEF ScenarioInv, MailsInv
        <4> QED BY <4>2, <4>3
      <3>6. MailsInv'
        BY <3>5 DEF MailsInv
      <3> QED BY <1>0, <3>4, <3>6 DEF ScenarioTypeOK
    <2>3. CASE ~(At(p, "commit") /\ pass[p].status = "completed")
      <3>1. UNCHANGED lost
        BY <2>3 DEF Unrecorded
      <3>2. \A s, d : Completing(s, d) => Completing(s, d)'
        BY <1>1, <2>3 DEF Completing, OthersAsBefore, At
      <3>3. MailsInv'
        BY <1>6, <3>1, <3>2 DEF ScenarioInv, MailsInv
      <3> QED BY <1>0, <3>1, <3>3 DEF ScenarioTypeOK
    <2> QED BY <2>2, <2>3
  <1>10. ScenarioTypeOK'
    BY <1>0, <1>1, <1>2, <1>9 DEF ScenarioTypeOK, RestTyped
  <1> QED BY <1>4, <1>5, <1>7, <1>8, <1>9, <1>10 DEF ScenarioInv

(* The transaction goes on to l with outcome o so far.                       *)
LEMMA GoesOnInv ==
    ASSUME ScenarioInv, NEW p \in Processes, InTransaction(p), ~At(p, "commit"),
           NEW l \in {"report", "mail", "commit"}, NEW o \in {"running", "completed", "failed"},
           pass' = [pass EXCEPT ![p] = [pass[p] EXCEPT !.pc = l, !.status = o]],
           l = "commit" => o \in {"completed", "failed"},
           scenario[pass[p].id].exists, Open(pass[p].id, pass[p].date),
           RestTyped, UNCHANGED <<hour, scenario, runs, locked>>,
           IF l = "commit" /\ o = "completed" THEN Mailed(p) /\ UNCHANGED lost
           ELSE (UNCHANGED <<sent, lost>>) \/ (Mailed(p) /\ Lose(p))
    PROVE  ScenarioInv'
  <1>0. ScenarioTypeOK /\ LocksHeld
    BY DEF ScenarioInv
  <1> DEFINE x == [pass[p] EXCEPT !.pc = l, !.status = o]
  <1>3. PICK t \in Scenarios, e \in Days : t = pass[p].id /\ e = pass[p].date /\ locked[t] = p
    BY <1>0 DEF LocksHeld
  <1>1. /\ x \in Underway /\ x.pc = l /\ x.status = o /\ x.id = t /\ x.date = e /\ x.now = pass[p].now
    BY <1>0, <1>3, ActivePass DEF InTransaction, Underway
  <1>2. /\ pass' \in [Processes -> PassStates] /\ OthersAsBefore(p) /\ pass'[p] = x
    <2>1. x \in PassStates
      BY <1>1 DEF Underway, PassStates
    <2> QED BY <1>0, <2>1, PassMoves DEF OthersAsBefore
  <1> HIDE DEF x
  <1>4. /\ \A q \in Processes : InTransaction(q)' <=> InTransaction(q)
        /\ \A q \in Processes : InTransaction(q) => pass'[q].id = pass[q].id /\ pass'[q].date = pass[q].date
    BY <1>1, <1>2, <1>3 DEF OthersAsBefore, InTransaction
  <1>5. LocksHeld'
    <2>1. \A q \in Processes : InTransaction(q)' =>
             pass'[q].id \in Scenarios /\ pass'[q].date \in Days /\ locked'[pass'[q].id] = q
      BY <1>0, <1>4 DEF LocksHeld
    <2>2. \A s \in Scenarios : locked'[s] # Nobody =>
             InTransaction(locked[s])' /\ pass'[locked'[s]].id = s
      BY <1>0, <1>4 DEF LocksHeld, ScenarioTypeOK
    <2>3. \A q \in Processes : At(q, "commit")' => pass'[q].status \in {"completed", "failed"}
      BY <1>0, <1>1, <1>2 DEF LocksHeld, OthersAsBefore, At
    <2> QED BY <2>1, <2>2, <2>3 DEF LocksHeld
  <1>6. ClockGoesOn'
    <2>1. pass[p].now <= hour
      BY DEF ScenarioInv, ClockGoesOn, InTransaction, At
    <2> QED BY <1>1, <1>2, <2>1 DEF ScenarioInv, ClockGoesOn, OthersAsBefore, At
  <1>7. \A s, d : Scheduled(s, d)' = Scheduled(s, d) /\ (Open(s, d)' <=> Open(s, d))
    BY DEF Scheduled, Open
  <1>8. RowsInv'
    BY <1>7 DEF ScenarioInv, RowsInv
  <1>9. PlansInv'
    <2>1. pass'[p].pc # "flush" /\ pass'[p].id = t /\ pass'[p].date = e
      BY <1>1, <1>2
    <2>2. scenario'[t].exists /\ Open(t, e)'
      BY <1>3, <1>7
    <2> QED BY <1>2, <1>7, <2>1, <2>2 DEF ScenarioInv, PlansInv, OthersAsBefore, At
  <1>10. sent \in [Scenarios -> [Days -> Nat]] /\ lost \in [Scenarios -> [Days -> Nat]]
    BY <1>0 DEF ScenarioTypeOK
  <1>11. \A s, d : s # t \/ d # e => (Completing(s, d) => Completing(s, d)')
    BY <1>2, <1>3 DEF Completing, OthersAsBefore, At
  <1>12. ~Completing(t, e) /\ (l = "commit" /\ o = "completed" => Completing(t, e)')
    <2>1. \A q \in Processes : InTransaction(q) /\ pass[q].id = t => q = p
      BY <1>0, <1>3, OneHolder
    <2>2. ~Completing(t, e)
      BY <2>1 DEF Completing, InTransaction, At
    <2>3. ASSUME l = "commit", o = "completed" PROVE Completing(t, e)'
      BY <1>1, <1>2, <2>3 DEF Completing, At
    <2> QED BY <2>2, <2>3
  <1>13. sent[t][e] <= lost[t][e] /\ sent[t][e] \in Nat /\ lost[t][e] \in Nat
    BY <1>3, <1>10, <1>12 DEF ScenarioInv, MailsInv
  <1>15. /\ sent' \in [Scenarios -> [Days -> Nat]] /\ lost' \in [Scenarios -> [Days -> Nat]]
         /\ sent'[t][e] <= lost'[t][e] + 1
         /\ ~(l = "commit" /\ o = "completed") => sent'[t][e] <= lost'[t][e]
         /\ \A s \in Scenarios, d \in Days : s # t \/ d # e =>
              sent'[s][d] = sent[s][d] /\ lost'[s][d] = lost[s][d]
    <2>1. ASSUME Mailed(p)
          PROVE  /\ sent' \in [Scenarios -> [Days -> Nat]] /\ sent'[t][e] = sent[t][e] + 1
                 /\ \A s \in Scenarios, d \in Days : s # t \/ d # e => sent'[s][d] = sent[s][d]
      <3>1. sent' = [sent EXCEPT ![t][e] = @ + 1]
        BY <1>3, <2>1 DEF Mailed
      <3> QED BY <1>10, <3>1, OneMore
    <2>2. ASSUME Lose(p)
          PROVE  /\ lost' \in [Scenarios -> [Days -> Nat]] /\ lost'[t][e] = lost[t][e] + 1
                 /\ \A s \in Scenarios, d \in Days : s # t \/ d # e => lost'[s][d] = lost[s][d]
      <3>1. lost' = [lost EXCEPT ![t][e] = @ + 1]
        BY <1>3, <2>2 DEF Lose
      <3> QED BY <1>10, <3>1, OneMore
    <2>3. CASE UNCHANGED <<sent, lost>> /\ ~(l = "commit" /\ o = "completed")
      BY <1>10, <1>13, <2>3
    <2>4. CASE Mailed(p) /\ Lose(p) /\ ~(l = "commit" /\ o = "completed")
      BY <1>13, <2>1, <2>2, <2>4
    <2>5. CASE Mailed(p) /\ UNCHANGED lost /\ l = "commit" /\ o = "completed"
      BY <1>10, <1>13, <2>1, <2>5
    <2> QED BY <2>3, <2>4, <2>5
  <1>16. MailsInv'
    <2>1. ASSUME NEW s \in Scenarios, NEW d \in Days
          PROVE  /\ sent'[s][d] <= lost'[s][d] + 1
                 /\ scenario'[s].exists /\ ~Completing(s, d)' /\ Open(s, d)' => sent'[s][d] <= lost'[s][d]
      <3>1. CASE s = t /\ d = e
        BY <1>12, <1>15, <3>1
      <3>2. CASE s # t \/ d # e
        BY <1>7, <1>11, <1>15, <3>2 DEF ScenarioInv, MailsInv
      <3> QED BY <3>1, <3>2
    <2> QED BY <2>1 DEF MailsInv
  <1>17. ScenarioTypeOK'
    BY <1>0, <1>2, <1>15 DEF ScenarioTypeOK, RestTyped
  <1> QED BY <1>5, <1>6, <1>8, <1>9, <1>16, <1>17 DEF ScenarioInv


(* A planned run is of a day of the calendar and has not succeeded before.   *)
LEMMA PlanFacts ==
    ASSUME ScenarioInv, NEW p \in Processes, At(p, "next"), NEW s \in Scenarios,
           NEW plan, plan = ScheduledRunPlan(pass[p].now, Latest(s)), NEW d \in plan
    PROVE  d \in Days /\ ((\E r \in Latest(s) : r.date \in plan) => Open(s, d))
  <1>1. \A r \in Latest(s) : /\ r \in Scheduled(s, r.date) /\ r.date \in Days
                             /\ r.status \in {"completed", "failed"}
                             /\ \A q \in Scheduled(s, r.date) : q = r
    BY DEF Latest, Scheduled, ScenarioInv, RowsInv
  <1>2. CASE \E r \in Latest(s) : r.status # "completed"
    <2>1. plan = Retried(pass[p].now, Latest(s))
      BY <1>2 DEF ScheduledRunPlan
    <2>2. PICK r \in Latest(s) : r.status # "completed" /\ r.date = d
      BY <2>1 DEF Retried
    <2>3. Open(s, d)
      BY <1>1, <2>2 DEF Open
    <2> QED BY <1>1, <2>2, <2>3
  <1>3. CASE ~\E r \in Latest(s) : r.status # "completed"
    <2>1. plan = ReportPeriod(Day(pass[p].now)) \ {r.date : r \in Latest(s)}
      BY <1>3 DEF ScheduledRunPlan
    <2>2. d = Day(pass[p].now) /\ ~\E r \in Latest(s) : r.date \in plan
      BY <2>1 DEF ReportPeriod
    <2>3. pass[p].now \in Nat /\ pass[p].now <= hour /\ hour <= MaxHour /\ hour \in Nat
      BY ActivePass DEF ScenarioInv, ScenarioTypeOK, ClockGoesOn, At, Underway
    <2>4. pass[p].now <= MaxHour
      BY <2>3, ScenarioAssumption
    <2> QED BY <2>2, <2>3, <2>4, DayOfHour
  <1> QED BY <1>2, <1>3

(* A pass takes a scenario up: it gets the lock with the plan.               *)
LEMMA TakeUpInv ==
    ASSUME ScenarioInv, NEW p \in Processes, TakeUp(p)
    PROVE  ScenarioInv'
  <1>0. ScenarioTypeOK /\ LocksHeld /\ ScenarioAssumption /\ At(p, "next") /\ ~InTransaction(p)
    BY ScenarioAssumption DEF ScenarioInv, TakeUp, At, InTransaction
  <1>1. PICK s \in pass[p].todo :
           /\ locked[s] = Nobody
           /\ pass' = [pass EXCEPT ![p] = Planned(p, s)]
           /\ locked' = [locked EXCEPT ![s] = IF Planned(p, s).pc = "flush" THEN p ELSE Nobody]
    BY DEF TakeUp
  <1>2. UNCHANGED <<hour, scenario, runs, removal, test, sent, lost, failures, tests>>
    BY DEF TakeUp
  <1>3. pass[p] \in Underway /\ s \in Scenarios /\ pass[p].now <= hour
    BY <1>0, ActivePass DEF Underway, At, ScenarioInv, ClockGoesOn
  <1>4. PICK plan : plan = ScheduledRunPlan(pass[p].now, Latest(s))
    OBVIOUS
  <1>5. RestTyped
    BY <1>0, <1>2 DEF RestTyped, ScenarioTypeOK
  <1>6. CASE plan = {}
    <2> DEFINE x == [pass[p] EXCEPT !.todo = @ \ {s}]
    <2>1. Planned(p, s) = x
      BY <1>4, <1>6 DEF Planned
    <2>2. x \in Underway /\ x.pc = "next" /\ x.now = pass[p].now
      BY <1>0, <1>3 DEF Underway, At
    <2> HIDE DEF x
    <2>3. x \in PassStates
      BY <2>2 DEF Underway, PassStates
    <2>4. pass' = [pass EXCEPT ![p] = x]
      BY <1>1, <2>1
    <2>5. pass' \in [Processes -> PassStates] /\ OthersAsBefore(p) /\ pass'[p] = x
      BY <1>0, <2>3, <2>4, PassMoves DEF OthersAsBefore
    <2>6. locked' = locked
      BY <1>0, <1>1, <2>1, <2>2 DEF ScenarioTypeOK
    <2> QED BY <1>0, <1>2, <1>3, <1>5, <2>2, <2>5, <2>6, OutsideInv
  <1>7. CASE plan # {}
    <2>1. PICK d \in plan : d = CHOOSE e \in plan : TRUE
      BY <1>7
    <2>2. PICK again \in BOOLEAN : again = (\E r \in Latest(s) : r.date \in plan)
      OBVIOUS
    <2>3. d \in Days /\ (again => Open(s, d))
      BY <1>0, <1>3, <1>4, <2>1, <2>2, PlanFacts
    <2>4. d \in Nat
      BY <2>3 DEF Days
    <2> DEFINE x == [pass[p] EXCEPT !.pc = "flush", !.id = s, !.todo = @ \ {s}, !.date = d, !.retry = again]
    <2>5. Planned(p, s) = x
      BY <1>4, <1>7, <2>1, <2>2 DEF Planned
    <2>6. x \in Underway /\ x.pc = "flush" /\ x.id = s /\ x.date = d /\ x.retry = again /\ x.now = pass[p].now
      BY <1>3, <2>4 DEF Underway
    <2> HIDE DEF x
    <2>7. x \in PassStates
      BY <2>6 DEF Underway, PassStates
    <2>8. pass' = [pass EXCEPT ![p] = x]
      BY <1>1, <2>5
    <2>9. pass' \in [Processes -> PassStates] /\ OthersAsBefore(p) /\ pass'[p] = x
      BY <1>0, <2>7, <2>8, PassMoves DEF OthersAsBefore
    <2>10. locked' = [locked EXCEPT ![s] = p]
      BY <1>1, <2>5, <2>6
    <2>11. /\ locked' \in [Scenarios -> Processes \cup {Nobody}] /\ locked'[s] = p
           /\ \A t \in Scenarios : t # s => locked'[t] = locked[t]
      BY <1>0, <1>3, <2>10 DEF ScenarioTypeOK
    <2>12. \A q \in Processes : q # p =>
              /\ InTransaction(q)' <=> InTransaction(q)
              /\ InTransaction(q) => pass[q].id # s
      BY <1>0, <1>1, <2>9 DEF OthersAsBefore, InTransaction, LocksHeld, ScenarioAssumption, Nobody
    <2>13. LocksHeld'
      <3>1. \A q \in Processes : InTransaction(q)' =>
               pass'[q].id \in Scenarios /\ pass'[q].date \in Days /\ locked'[pass'[q].id] = q
        <4> TAKE q \in Processes
        <4> HAVE InTransaction(q)'
        <4>1. CASE q = p
          BY <1>3, <2>3, <2>6, <2>9, <2>11, <4>1
        <4>2. CASE q # p
          BY <1>0, <2>9, <2>11, <2>12, <4>2 DEF LocksHeld, OthersAsBefore
        <4> QED BY <4>1, <4>2
      <3>2. \A t \in Scenarios : locked'[t] # Nobody =>
               InTransaction(locked[t])' /\ pass'[locked'[t]].id = t
        <4> TAKE t \in Scenarios
        <4> HAVE locked'[t] # Nobody
        <4>1. CASE t = s
          BY <2>6, <2>9, <2>11, <4>1 DEF InTransaction
        <4>2. CASE t # s
          <5>1. locked'[t] = locked[t] /\ locked[t] \in Processes
            BY <1>0, <2>11, <4>2 DEF ScenarioTypeOK
          <5>2. InTransaction(locked[t]) /\ pass[locked[t]].id = t
            BY <1>0, <5>1 DEF LocksHeld
          <5>3. locked[t] # p
            BY <1>0, <5>2
          <5>4. pass'[locked[t]] = pass[locked[t]]
            BY <2>9, <5>1, <5>3 DEF OthersAsBefore
          <5> QED BY <5>1, <5>2, <5>4 DEF InTransaction
        <4> QED BY <4>1, <4>2
      <3>3. \A q \in Processes : At(q, "commit")' => pass'[q].status \in {"completed", "failed"}
        BY <1>0, <2>6, <2>9 DEF LocksHeld, OthersAsBefore, At
      <3> QED BY <3>1, <3>2, <3>3 DEF LocksHeld
    <2>14. ClockGoesOn'
      BY <1>2, <1>3, <2>6, <2>9 DEF ScenarioInv, ClockGoesOn, OthersAsBefore, At
    <2>15. \A t, e : Scheduled(t, e)' = Scheduled(t, e) /\ (Open(t, e)' <=> Open(t, e))
      BY <1>2 DEF Scheduled, Open
    <2>16. RowsInv'
      BY <1>2, <2>15 DEF ScenarioInv, RowsInv
    <2>17. PlansInv'
      BY <1>2, <2>3, <2>6, <2>9, <2>15 DEF ScenarioInv, PlansInv, OthersAsBefore, At
    <2>18. \A t, e : Completing(t, e) => Completing(t, e)'
      BY <1>0, <2>9 DEF Completing, OthersAsBefore, At
    <2>19. MailsInv'
      BY <1>2, <2>15, <2>18 DEF ScenarioInv, MailsInv
    <2>20. ScenarioTypeOK'
      BY <1>0, <1>2, <1>5, <2>9, <2>11 DEF ScenarioTypeOK, RestTyped
    <2> QED BY <2>13, <2>14, <2>16, <2>17, <2>19, <2>20 DEF ScenarioInv
  <1> QED BY <1>6, <1>7

(* The outcome is committed in place of what the date had before.            *)
LEMMA CommitInv ==
    ASSUME ScenarioInv, NEW p \in Processes, Commit(p)
    PROVE  ScenarioInv'
  <1>0. ScenarioTypeOK /\ LocksHeld /\ At(p, "commit") /\ InTransaction(p)
    BY DEF ScenarioInv, Commit, At, InTransaction
  <1>1. PICK s \in Scenarios, d \in Days : s = pass[p].id /\ d = pass[p].date /\ locked[s] = p
    BY <1>0 DEF LocksHeld
  <1>2. PICK o \in {"completed", "failed"} : o = pass[p].status
    BY <1>0 DEF LocksHeld
  <1>3. PICK now \in Nat : now = pass[p].now /\ now <= hour
    BY <1>0, ActivePass DEF At, Underway, ScenarioInv, ClockGoesOn
  <1> DEFINE entry == Run("scheduled", d, o, now)
             kept == {r \in runs[s] : r.type # "scheduled" \/ r.date # d}
             x == [pass[p] EXCEPT !.pc = "next", !.id = Nobody, !.date = 0, !.retry = FALSE,
                                  !.status = "running"]
  <1>4. /\ runs' = [runs EXCEPT ![s] = kept \cup {entry}]
        /\ pass' = [pass EXCEPT ![p] = x] /\ Release(p)
        /\ UNCHANGED <<hour, scenario, removal, test, sent, lost, failures, tests>>
    BY <1>1, <1>2, <1>3 DEF Commit
  <1>5. x \in Underway /\ x.pc = "next" /\ x.now = now
    BY <1>0, <1>3, ActivePass DEF At, Underway
  <1>6. /\ entry \in Row /\ entry.type = "scheduled" /\ entry.date = d /\ entry.status = o
        /\ kept \cup {entry} \in SUBSET Row
    <2>1. d \in Nat
      BY DEF Days
    <2>2. entry \in Row /\ entry.type = "scheduled" /\ entry.date = d /\ entry.status = o
      BY <2>1 DEF Run, Row
    <2>3. kept \subseteq Row
      BY <1>0, <1>1 DEF ScenarioTypeOK, Row
    <2> QED BY <2>2, <2>3
  <1> HIDE DEF entry, kept, x
  <1>7. /\ pass' \in [Processes -> PassStates] /\ OthersAsBefore(p) /\ pass'[p] = x
    <2>1. x \in PassStates
      BY <1>5 DEF Underway, PassStates
    <2> QED BY <1>0, <1>4, <2>1, PassMoves DEF OthersAsBefore
  <1>8. /\ runs' \in [Scenarios -> SUBSET Row] /\ runs'[s] = kept \cup {entry}
        /\ \A t \in Scenarios : t # s => runs'[t] = runs[t]
    BY <1>0, <1>4, <1>6 DEF ScenarioTypeOK, Row
  <1>9. /\ locked' \in [Scenarios -> Processes \cup {Nobody}]
        /\ \A t \in Scenarios : locked'[t] = IF locked[t] = p THEN Nobody ELSE locked[t]
    BY <1>0, <1>4 DEF Release, ScenarioTypeOK
  <1>10. \A q \in Processes : InTransaction(q)' =>
            q # p /\ InTransaction(q) /\ pass'[q] = pass[q] /\ pass[q].id # s
    <2>1. \A q \in Processes : InTransaction(q)' => q # p
      BY <1>5, <1>7 DEF InTransaction
    <2>2. \A q \in Processes : q # p => pass'[q] = pass[q] /\ (InTransaction(q)' <=> InTransaction(q))
      BY <1>7 DEF OthersAsBefore, InTransaction
    <2> QED BY <1>0, <1>1, <2>1, <2>2, OneHolder
  <1>11. LocksHeld'
    <2>1. \A q \in Processes : InTransaction(q)' =>
             pass'[q].id \in Scenarios /\ pass'[q].date \in Days /\ locked'[pass'[q].id] = q
      BY <1>0, <1>9, <1>10 DEF LocksHeld
    <2>2. \A t \in Scenarios : locked'[t] # Nobody =>
             InTransaction(locked[t])' /\ pass'[locked'[t]].id = t
      <3> TAKE t \in Scenarios
      <3> HAVE locked'[t] # Nobody
      <3>1. locked'[t] = locked[t] /\ locked[t] # p /\ locked[t] \in Processes
        BY <1>0, <1>9 DEF ScenarioTypeOK
      <3>2. InTransaction(locked[t]) /\ pass[locked[t]].id = t
        BY <1>0, <1>9, <3>1 DEF LocksHeld
      <3>3. pass'[locked[t]] = pass[locked[t]]
        BY <1>7, <3>1 DEF OthersAsBefore
      <3> QED BY <3>1, <3>2, <3>3 DEF InTransaction
    <2>3. \A q \in Processes : At(q, "commit")' => pass'[q].status \in {"completed", "failed"}
      BY <1>0, <1>5, <1>7 DEF LocksHeld, OthersAsBefore, At
    <2> QED BY <2>1, <2>2, <2>3 DEF LocksHeld
  <1>12. ClockGoesOn'
    BY <1>3, <1>4, <1>5, <1>7 DEF ScenarioInv, ClockGoesOn, OthersAsBefore, At
  <1>13. /\ Scheduled(s, d)' = {entry}
         /\ \A e : e # d => Scheduled(s, e)' = Scheduled(s, e)
         /\ \A e : \A t \in Scenarios : t # s => Scheduled(t, e)' = Scheduled(t, e)
    BY <1>6, <1>8 DEF Scheduled, kept
  <1>14. RowsInv'
    <2> SUFFICES ASSUME NEW t \in Scenarios, NEW r \in runs'[t], r.type = "scheduled"
                 PROVE  /\ r.date \in Days /\ r.status \in {"completed", "failed"}
                        /\ \A q \in Scheduled(t, r.date)' : q = r
      BY DEF RowsInv
    <2>1. r \in Scheduled(t, r.date)'
      BY DEF Scheduled
    <2>2. CASE t = s /\ r.date = d
      BY <1>6, <1>13, <2>1, <2>2
    <2>3. CASE t # s \/ r.date # d
      <3>1. Scheduled(t, r.date)' = Scheduled(t, r.date)
        BY <1>13, <2>3
      <3>2. r \in runs[t]
        BY <2>1, <3>1 DEF Scheduled
      <3> QED BY <3>1, <3>2 DEF ScenarioInv, RowsInv
    <2> QED BY <2>2, <2>3
  <1>15. \A e : \A t \in Scenarios : t # s \/ e # d => (Open(t, e)' <=> Open(t, e))
    BY <1>13 DEF Open
  <1>16. PlansInv'
    <2>1. \A q \in Processes : pass'[q].pc \in {"flush", "report", "mail", "commit"} =>
             pass'[q] = pass[q] /\ pass[q].id # s /\ pass[q].id \in Scenarios
      BY <1>0, <1>10 DEF InTransaction, LocksHeld
    <2> QED BY <1>4, <1>15, <2>1 DEF ScenarioInv, PlansInv, At
  <1>17. MailsInv'
    <2>1. ASSUME NEW t \in Scenarios, NEW e \in Days
          PROVE  /\ sent'[t][e] <= lost'[t][e] + 1
                 /\ scenario'[t].exists /\ ~Completing(t, e)' /\ Open(t, e)' => sent'[t][e] <= lost'[t][e]
      <3>1. sent[t][e] <= lost[t][e] + 1
        BY DEF ScenarioInv, MailsInv
      <3>2. CASE t = s /\ e = d
        <4>1. CASE o = "completed"
          <5>1. ~Open(t, e)'
            BY <1>6, <1>13, <3>2, <4>1 DEF Open
          <5> QED BY <1>4, <3>1, <5>1
        <4>2. CASE o = "failed"
          <5>1. \A q \in Processes : InTransaction(q) /\ pass[q].id = s => q = p
            BY <1>0, <1>1, OneHolder
          <5>2. ~Completing(t, e)
            BY <1>2, <3>2, <4>2, <5>1 DEF Completing, InTransaction, At
          <5>3. scenario[t].exists /\ Open(t, e)
            BY <1>0, <1>1, <3>2 DEF ScenarioInv, PlansInv, At
          <5> QED BY <1>4, <3>1, <5>2, <5>3 DEF ScenarioInv, MailsInv
        <4> QED BY <4>1, <4>2
      <3>3. CASE t # s \/ e # d
        <4>1. Completing(t, e) => Completing(t, e)'
          BY <1>1, <1>7, <3>3 DEF Completing, OthersAsBefore, At
        <4> QED BY <1>4, <1>15, <3>1, <3>3, <4>1 DEF ScenarioInv, MailsInv
      <3> QED BY <3>2, <3>3
    <2> QED BY <2>1 DEF MailsInv
  <1>18. ScenarioTypeOK'
    BY <1>0, <1>4, <1>7, <1>8, <1>9 DEF ScenarioTypeOK, Row
  <1> QED BY <1>11, <1>12, <1>14, <1>16, <1>17, <1>18 DEF ScenarioInv


(* Nothing happens to the passes and to the rows of the schedule.            *)
LEMMA BesideInv ==
    ASSUME ScenarioInv, RestTyped, UNCHANGED <<hour, pass, locked, sent, lost>>,
           runs' \in [Scenarios -> SUBSET Row],
           \A s \in Scenarios :
              \/ /\ \A d : Scheduled(s, d)' = Scheduled(s, d)
                 /\ scenario'[s].exists = scenario[s].exists
              \/ runs'[s] = {} /\ ~scenario'[s].exists /\ Writers(s) = {}
    PROVE  ScenarioInv'
  <1>1. ScenarioTypeOK'
    BY DEF ScenarioInv, ScenarioTypeOK, RestTyped, Row
  <1>2. LocksHeld' /\ ClockGoesOn'
    BY DEF ScenarioInv, LocksHeld, ClockGoesOn, InTransaction, At
  <1>3. RowsInv'
    <2> SUFFICES ASSUME NEW s \in Scenarios, NEW r \in runs'[s], r.type = "scheduled"
                 PROVE  /\ r.date \in Days /\ r.status \in {"completed", "failed"}
                        /\ \A q \in Scheduled(s, r.date)' : q = r
      BY DEF RowsInv
    <2>1. Scheduled(s, r.date)' = Scheduled(s, r.date)
      OBVIOUS
    <2>2. r \in runs[s]
      BY <2>1 DEF Scheduled
    <2> QED BY <2>1, <2>2 DEF ScenarioInv, RowsInv
  <1>4. \A s \in Scenarios : \A d : Open(s, d) => Open(s, d)'
    <2> TAKE s \in Scenarios
    <2>1. CASE \A d : Scheduled(s, d)' = Scheduled(s, d)
      BY <2>1 DEF Open
    <2>2. CASE runs'[s] = {}
      BY <2>2 DEF Open, Scheduled
    <2> QED BY <2>1, <2>2
  <1>5. PlansInv'
    <2>1. \A q \in Processes : InTransaction(q) => pass[q].id \in Scenarios
      BY DEF ScenarioInv, LocksHeld
    <2>2. \A q \in Processes : pass[q].pc \in {"report", "mail", "commit"} =>
             scenario'[pass[q].id].exists
      <3> TAKE q \in Processes
      <3> HAVE pass[q].pc \in {"report", "mail", "commit"}
      <3>1. q \in Writers(pass[q].id) /\ pass[q].id \in Scenarios
        BY <2>1 DEF Writers, Writes, InTransaction
      <3>2. scenario'[pass[q].id].exists = scenario[pass[q].id].exists
        BY <3>1
      <3> QED BY <3>2 DEF ScenarioInv, PlansInv
    <2> QED BY <1>4, <2>1, <2>2 DEF ScenarioInv, PlansInv, InTransaction, At
  <1>6. \A s, d : Completing(s, d)' <=> Completing(s, d)
    BY DEF Completing, At
  <1>7. MailsInv'
    <2>1. ASSUME NEW s \in Scenarios, NEW d \in Days
          PROVE  /\ sent'[s][d] <= lost'[s][d] + 1
                 /\ scenario'[s].exists /\ ~Completing(s, d)' /\ Open(s, d)' => sent'[s][d] <= lost'[s][d]
      <3>1. ASSUME scenario'[s].exists, Open(s, d)' PROVE scenario[s].exists /\ Open(s, d)
        BY <3>1 DEF Open
      <3> QED BY <1>6, <3>1 DEF ScenarioInv, MailsInv
    <2> QED BY <2>1 DEF MailsInv
  <1> QED BY <1>1, <1>2, <1>3, <1>5, <1>7 DEF ScenarioInv

LEMMA RowsTyped ==
    ASSUME ScenarioTypeOK
    PROVE  /\ runs \in [Scenarios -> SUBSET Row] /\ Removed.exists = FALSE
           /\ \A r \in Rows : r.exists = TRUE
           /\ \A s \in Scenarios : scenario[s] \in Rows \cup {Removed}
  BY DEF ScenarioTypeOK, Row, Removed, Rows

LEMMA EraseInv ==
    ASSUME ScenarioInv, NEW s \in Scenarios, Erase(s), Writers(s) = {},
           removal' \in [Scenarios -> [by : Processes \cup {Nobody}, held : BOOLEAN]],
           UNCHANGED <<hour, pass, locked, sent, lost, failures, tests>>
    PROVE  ScenarioInv'
  <1>0. ScenarioTypeOK
    BY DEF ScenarioInv
  <1>1. /\ scenario' = [scenario EXCEPT ![s] = Removed] /\ runs' = [runs EXCEPT ![s] = {}]
    BY DEF Erase
  <1>2. /\ scenario' \in [Scenarios -> Rows \cup {Removed}] /\ scenario'[s] = Removed
        /\ \A t \in Scenarios : t # s => scenario'[t] = scenario[t] /\ runs'[t] = runs[t]
        /\ runs' \in [Scenarios -> SUBSET Row] /\ runs'[s] = {}
    BY <1>0, <1>1, RowsTyped DEF ScenarioTypeOK
  <1>3. RestTyped
    BY <1>0, <1>2 DEF RestTyped, ScenarioTypeOK
  <1>4. \A t \in Scenarios : t # s => \A d : Scheduled(t, d)' = Scheduled(t, d)
    BY <1>2 DEF Scheduled
  <1>5. runs'[s] = {} /\ ~scenario'[s].exists
    BY <1>0, <1>2, RowsTyped
  <1> QED BY <1>2, <1>3, <1>4, <1>5, BesideInv

LEMMA RequestsInv ==
    ASSUME ScenarioInv, NEW s \in Scenarios, ScenarioRequest(s)
    PROVE  ScenarioInv'
  <1>0. ScenarioTypeOK
    BY DEF ScenarioInv
  <1>1. CASE UpdateScenario(s)
    <2>1. PICK r \in Rows : scenario' = [scenario EXCEPT ![s] = r]
      BY <1>1 DEF UpdateScenario
    <2>2. /\ scenario[s].exists
          /\ UNCHANGED <<hour, runs, pass, locked, removal, test, sent, lost, failures, tests>>
      BY <1>1 DEF UpdateScenario
    <2>3. /\ scenario' \in [Scenarios -> Rows \cup {Removed}] /\ scenario'[s] = r
          /\ \A t \in Scenarios : t # s => scenario'[t] = scenario[t]
      BY <1>0, <2>1 DEF ScenarioTypeOK
    <2>4. RestTyped
      BY <1>0, <2>2, <2>3 DEF RestTyped, ScenarioTypeOK
    <2>5. \A t \in Scenarios : scenario'[t].exists = scenario[t].exists
      <3>1. scenario[s] \in Rows
        BY <1>0, <2>2, RowsTyped
      <3> QED BY <1>0, <2>3, <3>1, RowsTyped
    <2>6. \A t, d : Scheduled(t, d)' = Scheduled(t, d)
      BY <2>2 DEF Scheduled
    <2>7. runs' \in [Scenarios -> SUBSET Row]
      BY <1>0, <2>2, RowsTyped
    <2> QED BY <2>2, <2>4, <2>5, <2>6, <2>7, BesideInv
  <1>2. CASE RemovalGoesOn(s)
    <2>1. /\ Writers(s) = {} /\ Erase(s) /\ removal' = [removal EXCEPT ![s] = NoDelete]
          /\ UNCHANGED <<hour, pass, locked, test, sent, lost, failures, tests>>
      BY <1>2 DEF RemovalGoesOn
    <2>2. removal' \in [Scenarios -> [by : Processes \cup {Nobody}, held : BOOLEAN]]
      BY <1>0, <2>1 DEF ScenarioTypeOK, NoDelete
    <2> QED BY <2>1, <2>2, EraseInv
  <1>3. CASE TestEnds(s)
    <2>1. PICK status \in {"completed", "failed"} :
             runs' = [runs EXCEPT ![s] = {IF r.type = "manual_test" /\ r.date = test[s].date
                                          THEN [r EXCEPT !.status = status] ELSE r : r \in @}]
      BY <1>3 DEF TestEnds
    <2>2. UNCHANGED <<hour, scenario, pass, locked, removal, sent, lost, failures, tests>>
      BY <1>3 DEF TestEnds
    <2> DEFINE New(r) == IF r.type = "manual_test" /\ r.date = test[s].date
                         THEN [r EXCEPT !.status = status] ELSE r
    <2>3. \A r \in Row : /\ New(r) \in Row /\ New(r).type = r.type
                         /\ (r.type = "scheduled" => New(r) = r)
      BY DEF Row
    <2>4. runs' = [runs EXCEPT ![s] = {New(r) : r \in runs[s]}]
      BY <2>1
    <2> HIDE DEF New
    <2>5. runs[s] \subseteq Row /\ {New(r) : r \in runs[s]} \subseteq Row
      BY <1>0, <2>3, RowsTyped
    <2>6. /\ runs' \in [Scenarios -> SUBSET Row] /\ runs'[s] = {New(r) : r \in runs[s]}
          /\ \A t \in Scenarios : t # s => runs'[t] = runs[t]
      BY <1>0, <2>4, <2>5, RowsTyped
    <2>7. \A t \in Scenarios : \A d : Scheduled(t, d)' = Scheduled(t, d)
      <3> TAKE t \in Scenarios
      <3> TAKE d
      <3>1. CASE t = s
        <4>1. \A q \in {New(r) : r \in runs[s]} : q.type = "scheduled" => q \in runs[s]
          BY <2>3, <2>5
        <4>2. \A r \in runs[s] : r.type = "scheduled" => r \in {New(q) : q \in runs[s]}
          BY <2>3, <2>5
        <4> QED BY <2>6, <3>1, <4>1, <4>2 DEF Scheduled
      <3>2. CASE t # s
        BY <2>6, <3>2 DEF Scheduled
      <3> QED BY <3>1, <3>2
    <2>8. RestTyped
      BY <1>0, <2>2 DEF RestTyped, ScenarioTypeOK
    <2> QED BY <2>2, <2>6, <2>7, <2>8, BesideInv
  <1>4. ASSUME NEW p \in Processes, RemoveScenario(p, s) PROVE ScenarioInv'
    <2>1. CASE Writers(s) = {}
      <3>1. Erase(s) /\ UNCHANGED <<removal, hour, pass, locked, test, sent, lost, failures, tests>>
        BY <1>4, <2>1 DEF RemoveScenario
      <3>2. removal' \in [Scenarios -> [by : Processes \cup {Nobody}, held : BOOLEAN]]
        BY <1>0, <3>1 DEF ScenarioTypeOK
      <3> QED BY <2>1, <3>1, <3>2, EraseInv
    <2>2. CASE Writers(s) # {}
      <3>1. /\ removal' = [removal EXCEPT ![s] = [by |-> p, held |-> \E q \in Writers(s) : pass[q].retry]]
            /\ UNCHANGED <<scenario, runs, hour, pass, locked, test, sent, lost, failures, tests>>
        BY <1>4, <2>2 DEF RemoveScenario
      <3>2. PICK h \in BOOLEAN : h = (\E q \in Writers(s) : pass[q].retry)
        OBVIOUS
      <3>3. removal' = [removal EXCEPT ![s] = [by |-> p, held |-> h]]
        BY <3>1, <3>2
      <3>4. removal' \in [Scenarios -> [by : Processes \cup {Nobody}, held : BOOLEAN]]
        BY <1>0, <3>3 DEF ScenarioTypeOK
      <3>5. RestTyped
        BY <1>0, <3>1, <3>4 DEF RestTyped, ScenarioTypeOK
      <3>6. \A t, d : Scheduled(t, d)' = Scheduled(t, d)
        BY <3>1 DEF Scheduled
      <3>7. runs' \in [Scenarios -> SUBSET Row]
        BY <1>0, <3>1, RowsTyped
      <3> QED BY <3>1, <3>5, <3>6, <3>7, BesideInv
    <2> QED BY <2>1, <2>2
  <1>5. ASSUME NEW p \in Processes, TestScenario(p, s) PROVE ScenarioInv'
    <2>1. /\ tests' = tests + 1
          /\ runs' = [runs EXCEPT ![s] = @ \cup {Run("manual_test", Day(hour), "running", hour)}]
          /\ UNCHANGED <<hour, scenario, pass, locked, removal, sent, lost, failures>>
      BY <1>5 DEF TestScenario
    <2> DEFINE entry == Run("manual_test", Day(hour), "running", hour)
    <2>2. hour \in Nat /\ Day(hour) \in Nat
      <3>1. hour \in Nat /\ hour <= MaxHour
        BY DEF ScenarioInv, ScenarioTypeOK, ClockGoesOn
      <3> QED BY <3>1, DayOfHour DEF Days
    <2>3. entry \in Row /\ entry.type = "manual_test"
      BY <2>2 DEF Run, Row
    <2>4. runs' = [runs EXCEPT ![s] = runs[s] \cup {entry}]
      BY <2>1
    <2> HIDE DEF entry
    <2>5. /\ runs' \in [Scenarios -> SUBSET Row] /\ runs'[s] = runs[s] \cup {entry}
          /\ \A t \in Scenarios : t # s => runs'[t] = runs[t]
      BY <1>0, <2>3, <2>4, RowsTyped
    <2>6. \A t \in Scenarios : \A d : Scheduled(t, d)' = Scheduled(t, d)
      BY <2>3, <2>5 DEF Scheduled
    <2>7. RestTyped
      BY <1>0, <2>1 DEF RestTyped, ScenarioTypeOK
    <2> QED BY <2>1, <2>5, <2>6, <2>7, BesideInv
  <1> QED BY <1>1, <1>2, <1>3, <1>4, <1>5 DEF ScenarioRequest

LEMMA PassInv ==
    ASSUME ScenarioInv, NEW p \in Processes, PassStep(p)
    PROVE  ScenarioInv'
  <1>0. ScenarioTypeOK /\ LocksHeld /\ ScenarioAssumption
    BY ScenarioAssumption DEF ScenarioInv
  <1>1. CASE Wake(p)
    <2> DEFINE x == [pc |-> "next", now |-> hour, todo |-> {s \in Scenarios : scenario[s].enabled},
                     id |-> Nobody, date |-> 0, retry |-> FALSE, status |-> "running"]
    <2>1. /\ At(p, "asleep") /\ pass' = [pass EXCEPT ![p] = x]
          /\ UNCHANGED <<hour, scenario, runs, locked, removal, test, sent, lost, failures, tests>>
      BY <1>1 DEF Wake
    <2>2. x \in PassStates /\ x.pc = "next" /\ x.now = hour /\ hour \in Nat
      BY <1>0 DEF PassStates, ScenarioTypeOK
    <2> HIDE DEF x
    <2>3. pass' \in [Processes -> PassStates] /\ OthersAsBefore(p) /\ pass'[p] = x
      BY <1>0, <2>1, <2>2, PassMoves DEF OthersAsBefore
    <2>4. RestTyped
      BY <1>0, <2>1 DEF RestTyped, ScenarioTypeOK
    <2>5. ~InTransaction(p) /\ pass'[p].now <= hour
      BY <2>1, <2>2, <2>3 DEF InTransaction, At
    <2> QED BY <2>1, <2>2, <2>3, <2>4, <2>5, OutsideInv
  <1>2. CASE Sleep(p)
    <2>1. /\ At(p, "next") /\ pass' = [pass EXCEPT ![p] = Asleep(hour + 1)]
          /\ UNCHANGED <<hour, scenario, runs, locked, removal, test, sent, lost, failures, tests>>
      BY <1>2 DEF Sleep
    <2>2. Asleep(hour + 1) \in PassStates /\ Asleep(hour + 1).pc = "asleep"
      BY <1>0 DEF PassStates, ScenarioTypeOK, Asleep
    <2>3. pass' \in [Processes -> PassStates] /\ OthersAsBefore(p) /\ pass'[p].pc = "asleep"
      BY <1>0, <2>1, <2>2, PassMoves DEF OthersAsBefore
    <2>4. RestTyped
      BY <1>0, <2>1 DEF RestTyped, ScenarioTypeOK
    <2>5. ~InTransaction(p)
      BY <2>1 DEF InTransaction, At
    <2> QED BY <2>1, <2>3, <2>4, <2>5, OutsideInv
  <1>3. CASE Flush(p)
    <2>1. /\ At(p, "flush") /\ InTransaction(p)
          /\ UNCHANGED <<hour, scenario, runs, removal, test, sent, lost, failures, tests>>
      BY <1>3 DEF Flush, InTransaction, At
    <2>2. RestTyped
      BY <1>0, <2>1 DEF RestTyped, ScenarioTypeOK
    <2> DEFINE s == pass[p].id
               entry == {r \in runs[s] : r.type = "scheduled" /\ r.date = pass[p].date}
               ok == scenario[s].exists /\ (entry # {} <=> pass[p].retry)
    <2>3. CASE ok
      <3>1. Go(p, "report") /\ UNCHANGED locked
        BY <1>3, <2>3 DEF Flush
      <3>2. Open(pass[p].id, pass[p].date)
        <4>1. CASE entry = {}
          BY <4>1 DEF Open, Scheduled
        <4>2. CASE pass[p].retry
          BY <2>1, <4>2 DEF ScenarioInv, PlansInv
        <4> QED BY <2>3, <4>1, <4>2
      <3>3. PICK o \in {"running", "completed", "failed"} : o = pass[p].status
        BY <1>0, <2>1, ActivePass DEF At, Underway
      <3>4. pass' = [pass EXCEPT ![p] = [pass[p] EXCEPT !.pc = "report", !.status = o]]
        <4>1. pass[p] \in Underway
          BY <1>0, <2>1, ActivePass DEF At
        <4>2. [pass[p] EXCEPT !.pc = "report", !.status = o] = [pass[p] EXCEPT !.pc = "report"]
          BY <3>3, <4>1 DEF Underway
        <4> QED BY <3>1, <4>2 DEF Go
      <3>5. ~At(p, "commit") /\ scenario[pass[p].id].exists
        BY <2>1, <2>3 DEF At
      <3> QED BY <2>1, <2>2, <3>1, <3>2, <3>4, <3>5, GoesOnInv
    <2>4. CASE ~ok
      <3>1. Abort(p)
        BY <1>3, <2>4 DEF Flush
      <3>2. pass' = [pass EXCEPT ![p] = Asleep(hour + 1)] /\ Release(p) /\ hour + 1 \in Nat
        BY <1>0, <3>1 DEF Abort, ScenarioTypeOK
      <3>3. Unrecorded(p)
        BY <2>1 DEF Unrecorded, At
      <3> QED BY <2>1, <2>2, <3>2, <3>3, EndsInv
    <2> QED BY <2>3, <2>4
  <1>4. CASE Report(p) \/ ReportFails(p) \/ Mail(p)
    <2>1. /\ pass[p].pc \in {"report", "mail"} /\ InTransaction(p) /\ ~At(p, "commit")
          /\ UNCHANGED <<hour, scenario, runs, locked, removal, test, tests>> /\ failures' \in Nat
      BY <1>0, <1>4 DEF Report, ReportFails, Mail, InTransaction, At, ScenarioTypeOK
    <2>2. RestTyped
      BY <1>0, <2>1 DEF RestTyped, ScenarioTypeOK
    <2>3. scenario[pass[p].id].exists /\ Open(pass[p].id, pass[p].date)
      BY <2>1 DEF ScenarioInv, PlansInv
    <2>4. pass[p] \in Underway
      BY <1>0, <2>1, ActivePass
    <2>5. CASE Report(p)
      <3>1. PICK o \in {"running", "completed", "failed"} : o = pass[p].status
        BY <2>4 DEF Underway
      <3>2. pass' = [pass EXCEPT ![p] = [pass[p] EXCEPT !.pc = "mail", !.status = o]]
        <4>1. [pass[p] EXCEPT !.pc = "mail", !.status = o] = [pass[p] EXCEPT !.pc = "mail"]
          BY <3>1, <2>4 DEF Underway
        <4> QED BY <2>5, <4>1 DEF Report, Go
      <3>3. UNCHANGED <<sent, lost>>
        BY <2>5 DEF Report
      <3> QED BY <2>1, <2>2, <2>3, <3>2, <3>3, GoesOnInv
    <2>6. CASE /\ pass' = [pass EXCEPT ![p].pc = "commit", ![p].status = "failed"]
               /\ (UNCHANGED <<sent, lost>>) \/ (Mailed(p) /\ Lose(p))
      <3>1. pass' = [pass EXCEPT ![p] = [pass[p] EXCEPT !.pc = "commit", !.status = "failed"]]
        BY <1>0, <2>6 DEF ScenarioTypeOK
      <3> QED BY <2>1, <2>2, <2>3, <2>6, <3>1, GoesOnInv
    <2>7. CASE /\ pass' = [pass EXCEPT ![p].pc = "commit", ![p].status = "completed"]
               /\ Mailed(p) /\ UNCHANGED lost
      <3>1. pass' = [pass EXCEPT ![p] = [pass[p] EXCEPT !.pc = "commit", !.status = "completed"]]
        BY <1>0, <2>7 DEF ScenarioTypeOK
      <3> QED BY <2>1, <2>2, <2>3, <2>7, <3>1, GoesOnInv
    <2> QED BY <1>4, <2>5, <2>6, <2>7 DEF ReportFails, Mail
  <1>5. CASE CommitFails(p)
    <2>1. /\ pass' = [pass EXCEPT ![p] = Asleep(hour + 1)] /\ Release(p) /\ Unrecorded(p)
          /\ failures' = failures + 1
          /\ UNCHANGED <<hour, scenario, runs, removal, test, sent, tests>>
      BY <1>5 DEF CommitFails, Abort
    <2>2. RestTyped /\ hour + 1 \in Nat
      BY <1>0, <2>1 DEF RestTyped, ScenarioTypeOK
    <2> QED BY <2>1, <2>2, EndsInv
  <1>6. CASE Restart(p)
    <2>1. /\ pass' = [pass EXCEPT ![p] = Asleep(hour)] /\ Release(p) /\ Unrecorded(p)
          /\ failures' = failures + 1
          /\ removal' = [s \in Scenarios |-> IF removal[s].by = p THEN NoDelete ELSE removal[s]]
          /\ UNCHANGED <<hour, scenario, runs, sent, tests>>
      BY <1>6 DEF Restart
    <2>2. removal' \in [Scenarios -> [by : Processes \cup {Nobody}, held : BOOLEAN]]
      BY <1>0, <2>1 DEF ScenarioTypeOK, NoDelete
    <2>3. RestTyped /\ hour \in Nat
      BY <1>0, <2>1, <2>2 DEF RestTyped, ScenarioTypeOK
    <2> QED BY <2>1, <2>3, EndsInv
  <1> QED BY <1>1, <1>2, <1>3, <1>4, <1>5, <1>6, TakeUpInv, CommitInv DEF PassStep

LEMMA ScenarioInitInv == ScenarioInit => ScenarioInv
  <1> SUFFICES ASSUME ScenarioInit PROVE ScenarioInv
    OBVIOUS
  <1>1. ScenarioAssumption
    BY ScenarioAssumption
  <1>2. Asleep(0) \in PassStates /\ Asleep(0).pc = "asleep"
    BY DEF Asleep, PassStates
  <1>3. /\ pass \in [Processes -> PassStates] /\ \A p \in Processes : pass[p].pc = "asleep"
    BY <1>2 DEF ScenarioInit
  <1>4. /\ \A s \in Scenarios : runs[s] = {} /\ locked[s] = Nobody
        /\ \A s \in Scenarios, d \in Days : sent[s][d] = 0 /\ lost[s][d] = 0
    BY DEF ScenarioInit
  <1>5. ScenarioTypeOK
    BY <1>3 DEF ScenarioInit, ScenarioTypeOK, Rows, NoDelete
  <1>6. LocksHeld /\ ClockGoesOn /\ RowsInv /\ PlansInv /\ MailsInv
    BY <1>1, <1>3, <1>4 DEF LocksHeld, ClockGoesOn, RowsInv, PlansInv, MailsInv, InTransaction, At,
       ScenarioAssumption, ScenarioInit
  <1> QED BY <1>5, <1>6 DEF ScenarioInv

LEMMA ScenarioStepInv == ScenarioInv /\ [ScenarioNext]_scenarioVars => ScenarioInv'
  <1> SUFFICES ASSUME ScenarioInv, [ScenarioNext]_scenarioVars PROVE ScenarioInv'
    OBVIOUS
  <1>0. ScenarioTypeOK
    BY DEF ScenarioInv
  <1>1. CASE Hour
    <2>1. /\ hour < MaxHour /\ hour' = hour + 1
          /\ UNCHANGED <<scenario, runs, pass, locked, removal, test, sent, lost, failures, tests>>
      BY <1>1 DEF Hour
    <2>2. hour \in Nat /\ hour' \in Nat /\ MaxHour \in Nat
      BY <1>0, <2>1, ScenarioAssumption DEF ScenarioTypeOK
    <2>3. ScenarioTypeOK'
      BY <1>0, <2>1, <2>2 DEF ScenarioTypeOK
    <2>4. LocksHeld' /\ RowsInv' /\ PlansInv' /\ MailsInv'
      BY <2>1 DEF ScenarioInv, LocksHeld, RowsInv, PlansInv, MailsInv, InTransaction, At, Scheduled,
         Open, Completing
    <2>5. \A p \in Processes : ~At(p, "asleep") => pass[p].now \in Nat
      BY <1>0, ActivePass DEF At, Underway
    <2>6. ClockGoesOn'
      BY <2>1, <2>2, <2>5 DEF ScenarioInv, ClockGoesOn, At
    <2> QED BY <2>3, <2>4, <2>6 DEF ScenarioInv
  <1>2. CASE UNCHANGED scenarioVars
    <2>1. UNCHANGED <<hour, scenario, runs, pass, locked, removal, test, sent, lost, failures, tests>>
      BY <1>2 DEF scenarioVars
    <2>2. RestTyped /\ runs' \in [Scenarios -> SUBSET Row]
      BY <1>0, <2>1, RowsTyped DEF RestTyped, ScenarioTypeOK
    <2>3. \A s, d : Scheduled(s, d)' = Scheduled(s, d)
      BY <2>1 DEF Scheduled
    <2> QED BY <2>1, <2>2, <2>3, BesideInv
  <1> QED BY <1>1, <1>2, PassInv, RequestsInv DEF ScenarioNext

(* A report goes out once for a date (the hourly passes of all processes,    *)
(* scenarios.py), for any number of processes, scenarios, hours, failures    *)
(* and requests: the lock is held from the plan to the commit.               *)
THEOREM SentOnceTheorem == ScenarioSpec => []SentOnce
  <1>1. ScenarioInv => SentOnce
    <2> SUFFICES ASSUME ScenarioInv PROVE SentOnce
      OBVIOUS
    <2>1. \A s \in Scenarios : \A d \in Days : sent[s][d] <= lost[s][d] + 1
      BY DEF ScenarioInv, MailsInv
    <2>2. \A s \in Scenarios, p \in Processes : Writes(p, s) =>
             scenario[s].exists /\ Open(s, pass[p].date)
      BY DEF ScenarioInv, PlansInv, Writes
    <2> QED BY <2>1, <2>2 DEF SentOnce, Open, Scheduled
  <1> QED BY <1>1, ScenarioInitInv, ScenarioStepInv, PTL DEF ScenarioSpec


------------------------------------------------------------ (* CatalogInfo *)
Entries == [product : Products, found : BOOLEAN, fresh : BOOLEAN]
Batches == [batch : Seq(Products), state : {"running", "answered", "failed"}]
InCall  == [pc : {"prepare", "window", "gather", "cleanup"}, asked : SUBSET Products,
            missing : Seq(Products), result : SUBSET Products, failed : SUBSET Products,
            answered : BOOLEAN]

Distinct(e) == \A i, j \in DOMAIN e : e[i].product = e[j].product => i = j
Truthful(e) == \A i \in DOMAIN e : e[i].product \in InCatalog => e[i].found

(* The cache: one entry for a product, none of which denies a product that     *)
(* exists, within the limit and accounted for.                              *)
CacheHolds ==
    /\ Distinct(entries) /\ Truthful(entries)
    /\ charged = Len(entries) /\ Len(entries) <= MaxEntries

(* The batches: threads only while they are waited for, and no product twice   *)
(* in what they ask.                                                        *)
BatchesHold ==
    /\ call.pc \notin {"gather", "cleanup"} => threads = <<>>
    /\ call.pc \in {"window", "gather"} => IsInjective(call.missing)
    /\ \A n \in DOMAIN threads : IsInjective(threads[n].batch)

(* Where a product is that the call asks for.                                *)
Placed(p) ==
    \/ p \in call.result \cup call.failed
    \/ \E i \in DOMAIN call.missing : call.missing[i] = p
    \/ \E n \in DOMAIN threads : \E i \in DOMAIN threads[n].batch : threads[n].batch[i] = p
NothingForgotten ==
    /\ call.pc \in {"window", "gather"} => \A p \in call.asked \cap InCatalog : Placed(p)
    /\ served.asked \cap InCatalog \subseteq served.result \cup served.failed

InfoInv == InfoTypeOK /\ CacheHolds /\ BatchesHold /\ NothingForgotten

(* Positions have an order: the first k of them have one, for every k.        *)
LEMMA InPlaceFacts ==
    ASSUME NEW m \in Nat, NEW S \in SUBSET (1..m)
    PROVE  /\ Cardinality(S) \in Nat
           /\ InPlace(S) \in [1..Cardinality(S) -> S]
           /\ \A i, j \in 1..Cardinality(S) : InPlace(S)[i] = InPlace(S)[j] => i = j
  <1> DEFINE Rising(f, T) == /\ f \in [1..Cardinality(T) -> T]
                             /\ \A i, j \in 1..Cardinality(T) : i < j => f[i] < f[j]
             To(k) == S \cap (1..k)
             Bad   == {k \in Nat : k <= m /\ ~ \E f : Rising(f, To(k))}
  <1>1. ASSUME NEW k \in Nat PROVE IsFiniteSet(To(k)) /\ Cardinality(To(k)) \in Nat
    <2>1. IsFiniteSet(1..k)
      BY FS_Interval
    <2>2. To(k) \subseteq 1..k
      OBVIOUS
    <2> QED BY <2>1, <2>2, FS_Subset, FS_CardinalityType
  <1>2. To(m) = S
    OBVIOUS
  <1>3. Bad = {}
    <2>1. SUFFICES ASSUME Bad # {} PROVE FALSE
      OBVIOUS
    <2>2. Bad \in SUBSET Nat
      OBVIOUS
    <2>3. PICK k \in Bad : \A n \in Bad : k <= n
      BY <2>1, <2>2, FirstRow
    <2>4. k \in Nat /\ k <= m /\ ~ \E f : Rising(f, To(k))
      OBVIOUS
    <2>5. k # 0
      <3>1. SUFFICES ASSUME k = 0 PROVE FALSE
        OBVIOUS
      <3>2. To(0) = {} /\ Cardinality(To(0)) = 0
        BY FS_EmptySet
      <3>3. Rising(<<>>, To(0))
        BY <3>2
      <3> QED BY <2>4, <3>1, <3>3
    <2>6. k - 1 \in Nat /\ k - 1 <= m /\ ~(k <= k - 1)
      BY <2>4, <2>5
    <2>7. k - 1 \notin Bad
      BY <2>3, <2>6
    <2>8. PICK f : Rising(f, To(k - 1))
      BY <2>6, <2>7
    <2>9. CASE k \notin S
      <3>1. To(k) = To(k - 1)
        BY <2>4, <2>6, <2>9
      <3> HIDE DEF Rising, To
      <3> QED BY <2>4, <2>8, <3>1
    <2>10. CASE k \in S
      <3> DEFINE T == To(k - 1)
                 c == Cardinality(T)
                 g == [i \in 1..(c + 1) |-> IF i <= c THEN f[i] ELSE k]
      <3>1. To(k) = T \cup {k} /\ k \notin T
        BY <2>4, <2>6, <2>10
      <3>2. IsFiniteSet(T) /\ c \in Nat
        BY <1>1, <2>6
      <3>3. Cardinality(T \cup {k}) = c + 1
        <4> HIDE DEF T
        <4> QED BY <3>1, <3>2, FS_AddElement
      <3>4. Cardinality(To(k)) = c + 1
        BY <3>1, <3>3
      <3>5. /\ f \in [1..c -> T] /\ \A i, j \in 1..c : i < j => f[i] < f[j]
            /\ T \subseteq To(k) /\ k \in To(k) /\ \A x \in T : x < k
        <4>1. f \in [1..c -> T] /\ \A i, j \in 1..c : i < j => f[i] < f[j]
          BY <2>8
        <4>2. T \subseteq To(k) /\ k \in To(k)
          BY <3>1
        <4>3. ASSUME NEW x \in T PROVE x < k
          <5>1. x \in 1..(k - 1)
            OBVIOUS
          <5> QED BY <2>4, <5>1
        <4> QED BY <4>1, <4>2, <4>3
      <3>6. g \in [1..(c + 1) -> To(k)]
        <4> HIDE DEF T, c, To
        <4> QED BY <3>2, <3>5
      <3>7. ASSUME NEW i \in 1..(c + 1), NEW j \in 1..(c + 1), i < j PROVE g[i] < g[j]
        <4> HIDE DEF T, c, To
        <4>1. i \in 1..c /\ g[i] = f[i] /\ f[i] \in T
          BY <3>2, <3>5, <3>7
        <4>2. CASE j <= c
          BY <3>2, <3>5, <3>7, <4>1, <4>2
        <4>3. CASE ~(j <= c)
          BY <3>2, <3>5, <4>1, <4>3
        <4> QED BY <4>2, <4>3
      <3>8. Rising(g, To(k))
        <4> HIDE DEF g, T, c, To
        <4> QED BY <3>4, <3>6, <3>7
      <3> HIDE DEF Rising, To, g
      <3> QED BY <2>4, <3>8
    <2> QED BY <2>9, <2>10
  <1>4. m \notin Bad
    BY <1>3
  <1>5. \E f : Rising(f, S)
    <2> HIDE DEF Rising
    <2> QED BY <1>2, <1>4
  <1>6. \E f \in [1..Cardinality(S) -> S] :
           \A i, j \in 1..Cardinality(S) : i < j => f[i] < f[j]
    BY <1>5
  <1>7. /\ InPlace(S) \in [1..Cardinality(S) -> S]
        /\ \A i, j \in 1..Cardinality(S) : i < j => InPlace(S)[i] < InPlace(S)[j]
    BY <1>6, Zenon DEF InPlace
  <1>8. Cardinality(S) \in Nat
    BY <1>1, <1>2
  <1>9. ASSUME NEW i \in 1..Cardinality(S), NEW j \in 1..Cardinality(S), InPlace(S)[i] = InPlace(S)[j]
        PROVE  i = j
    <2>1. InPlace(S)[i] \in 1..m /\ InPlace(S)[j] \in 1..m
      BY <1>7
    <2>2. ~(InPlace(S)[i] < InPlace(S)[j]) /\ ~(InPlace(S)[j] < InPlace(S)[i])
      BY <1>9, <2>1
    <2>3. ~(i < j) /\ ~(j < i)
      BY <1>7, <2>2
    <2> QED BY <1>8, <2>3
  <1> QED BY <1>7, <1>8, <1>9

(* Rows at some positions of a sequence are a sequence of some of its rows,    *)
(* none of them twice.                                                      *)
LEMMA RowsAtFacts ==
    ASSUME NEW T, NEW e \in Seq(T), NEW S \in SUBSET (DOMAIN e), NEW r, r = RowsAt(e, S)
    PROVE  /\ r \in Seq(T) /\ Len(r) \in Nat /\ DOMAIN r = 1..Len(r)
           /\ \A i \in DOMAIN r : \E k \in S : r[i] = e[k]
           /\ IsInjective(e) => IsInjective(r)
           /\ Distinct(e) => Distinct(r)
  <1> DEFINE c == Cardinality(S)
             f == InPlace(S)
  <1>1. Len(e) \in Nat /\ DOMAIN e = 1..Len(e) /\ e \in [1..Len(e) -> T]
    BY LenProperties
  <1>2. c \in Nat /\ f \in [1..c -> S] /\ \A i, j \in 1..c : f[i] = f[j] => i = j
    BY <1>1, InPlaceFacts
  <1>3. r = [n \in 1..c |-> e[f[n]]]
    BY DEF RowsAt
  <1> HIDE DEF c, f
  <1>4. r \in [1..c -> T]
    BY <1>1, <1>2, <1>3
  <1>5. r \in Seq(T) /\ Len(r) = c /\ DOMAIN r = 1..c
    BY <1>2, <1>4
  <1>6. \A i \in 1..c : r[i] = e[f[i]] /\ f[i] \in S /\ f[i] \in DOMAIN e
    BY <1>2, <1>3
  <1>7. ASSUME IsInjective(e) PROVE IsInjective(r)
    BY <1>2, <1>5, <1>6, <1>7 DEF IsInjective
  <1>8. ASSUME Distinct(e) PROVE Distinct(r)
    BY <1>2, <1>5, <1>6, <1>8 DEF Distinct
  <1> QED BY <1>2, <1>5, <1>6, <1>7, <1>8

(* The last ones of a sequence.                                              *)
LEMMA NewestFacts ==
    ASSUME NEW T, NEW e \in Seq(T), NEW r, r = Newest(e)
    PROVE  /\ r \in Seq(T) /\ Len(r) \in Nat /\ Len(r) <= MaxEntries /\ DOMAIN r = 1..Len(r)
           /\ \A i \in DOMAIN r : \E k \in DOMAIN e : r[i] = e[k]
           /\ Distinct(e) => Distinct(r)
  <1> DEFINE n == IF Len(e) > MaxEntries THEN Len(e) - MaxEntries ELSE 0
  <1>0. MaxEntries \in Nat /\ Len(e) \in Nat /\ DOMAIN e = 1..Len(e) /\ e \in [1..Len(e) -> T]
    BY InfoAssumption, LenProperties
  <1>1. n \in 0..Len(e) /\ Len(e) - n <= MaxEntries
    BY <1>0
  <1>2. r = SubSeq(e, n + 1, Len(e))
    <2>1. (IF Len(e) > MaxEntries THEN Len(e) - MaxEntries + 1 ELSE 1) = n + 1
      BY <1>0
    <2> QED BY <2>1 DEF Newest
  <1> HIDE DEF n
  <1>3. n + 1 \in Int /\ Len(e) \in Int /\ \A i \in (n + 1)..Len(e) : e[i] \in T
    BY <1>0, <1>1
  <1>4. /\ SubSeq(e, n + 1, Len(e)) \in Seq(T)
        /\ Len(SubSeq(e, n + 1, Len(e))) = (IF n + 1 <= Len(e) THEN Len(e) - (n + 1) + 1 ELSE 0)
        /\ \A i \in 1..(Len(e) - (n + 1) + 1) : SubSeq(e, n + 1, Len(e))[i] = e[(n + 1) + i - 1]
    BY <1>3, SubSeqProperties
  <1>5. /\ r \in Seq(T) /\ Len(r) = (IF n + 1 <= Len(e) THEN Len(e) - (n + 1) + 1 ELSE 0)
        /\ \A i \in 1..(Len(e) - (n + 1) + 1) : r[i] = e[(n + 1) + i - 1]
    BY <1>2, <1>4
  <1>6. Len(r) = Len(e) - n /\ Len(e) - (n + 1) + 1 = Len(e) - n
    <2>1. ASSUME NEW a \in Nat, NEW k \in 0..a
          PROVE  /\ (IF k + 1 <= a THEN a - (k + 1) + 1 ELSE 0) = a - k
                 /\ a - (k + 1) + 1 = a - k
      OBVIOUS
    <2> QED BY <1>0, <1>1, <1>5, <2>1
  <1>7. \A i \in 1..(Len(e) - n) : (n + 1) + i - 1 = i + n /\ i + n \in 1..Len(e)
    BY <1>0, <1>1
  <1>8. DOMAIN r = 1..(Len(e) - n) /\ \A i \in 1..(Len(e) - n) : r[i] = e[i + n] /\ i + n \in DOMAIN e
    BY <1>0, <1>5, <1>6, <1>7, LenProperties
  <1>9. ASSUME Distinct(e) PROVE Distinct(r)
    <2>1. ASSUME NEW i \in DOMAIN r, NEW j \in DOMAIN r, r[i].product = r[j].product PROVE i = j
      <3>1. i + n = j + n
        BY <1>8, <1>9, <2>1 DEF Distinct
      <3> QED BY <1>1, <1>8, <3>1
    <2> QED BY <2>1 DEF Distinct
  <1>10. Len(r) \in Nat /\ Len(r) <= MaxEntries /\ DOMAIN r = 1..Len(r)
    BY <1>1, <1>5, <1>6, LenProperties
  <1> QED BY <1>5, <1>8, <1>9, <1>10

(* A batch as consume takes it: each product once.                           *)
LEMMA InOrderFacts ==
    ASSUME NEW batch \in Seq(Products), IsInjective(batch), NEW r, r = Order(batch)
    PROVE  r \in Seq(Products) /\ IsInjective(r)
  <1> DEFINE A == {i \in DOMAIN batch : batch[i] \in InCatalog}
             B == {i \in DOMAIN batch : batch[i] \notin InCatalog}
             a == RowsAt(batch, A)
             b == RowsAt(batch, B)
  <1>1. /\ a \in Seq(Products) /\ Len(a) \in Nat /\ DOMAIN a = 1..Len(a)
        /\ \A i \in DOMAIN a : \E k \in A : a[i] = batch[k]
        /\ IsInjective(a)
    <2>1. A \in SUBSET DOMAIN batch
      OBVIOUS
    <2> HIDE DEF A
    <2> QED BY <2>1, RowsAtFacts
  <1>2. /\ b \in Seq(Products) /\ Len(b) \in Nat /\ DOMAIN b = 1..Len(b)
        /\ \A i \in DOMAIN b : \E k \in B : b[i] = batch[k]
        /\ IsInjective(b)
    <2>1. B \in SUBSET DOMAIN batch
      OBVIOUS
    <2> HIDE DEF B
    <2> QED BY <2>1, RowsAtFacts
  <1>3. /\ \A i \in DOMAIN a : a[i] \in InCatalog
        /\ \A i \in DOMAIN b : b[i] \notin InCatalog
    <2> HIDE DEF a, b
    <2> QED BY <1>1, <1>2
  <1>4. r = a \o b
    BY DEF Order
  <1> HIDE DEF a, b, A, B
  <1>5. /\ a \o b \in Seq(Products) /\ Len(a \o b) = Len(a) + Len(b)
        /\ \A i \in 1..(Len(a) + Len(b)) :
              (a \o b)[i] = IF i <= Len(a) THEN a[i] ELSE b[i - Len(a)]
    BY <1>1, <1>2, ConcatProperties
  <1>6. DOMAIN r = 1..(Len(a) + Len(b)) /\ r \in Seq(Products)
    BY <1>4, <1>5, LenProperties
  <1>7. ASSUME NEW i \in DOMAIN r, NEW j \in DOMAIN r, r[i] = r[j] PROVE i = j
    <2>1. i \in 1..(Len(a) + Len(b)) /\ j \in 1..(Len(a) + Len(b))
      BY <1>6
    <2>2. /\ r[i] = (IF i <= Len(a) THEN a[i] ELSE b[i - Len(a)])
          /\ r[j] = (IF j <= Len(a) THEN a[j] ELSE b[j - Len(a)])
      BY <1>4, <1>5, <2>1
    <2>3. /\ i <= Len(a) => i \in DOMAIN a
          /\ ~(i <= Len(a)) => i - Len(a) \in DOMAIN b
          /\ j <= Len(a) => j \in DOMAIN a
          /\ ~(j <= Len(a)) => j - Len(a) \in DOMAIN b
      BY <1>1, <1>2, <2>1
    <2>4. CASE i <= Len(a) /\ j <= Len(a)
      BY <1>1, <1>7, <2>2, <2>3, <2>4 DEF IsInjective
    <2>5. CASE ~(i <= Len(a)) /\ ~(j <= Len(a))
      <3>1. i - Len(a) = j - Len(a)
        BY <1>2, <1>7, <2>2, <2>3, <2>5 DEF IsInjective
      <3> QED BY <1>1, <2>1, <3>1
    <2>6. CASE i <= Len(a) /\ ~(j <= Len(a))
      BY <1>3, <1>7, <2>2, <2>3, <2>6
    <2>7. CASE ~(i <= Len(a)) /\ j <= Len(a)
      BY <1>3, <1>7, <2>2, <2>3, <2>7
    <2> QED BY <2>4, <2>5, <2>6, <2>7
  <1>8. IsInjective(r)
    BY <1>7 DEF IsInjective
  <1> QED BY <1>6, <1>8

(* What the cache is after some products were put into it.                   *)
LEMMA InsertFacts ==
    ASSUME NEW e \in Seq(Entries), Distinct(e), NEW line \in Seq(Products), IsInjective(line),
           NEW found \in [Products -> BOOLEAN], NEW r, r = Insert(e, line, found)
    PROVE  /\ r \in Seq(Entries) /\ Len(r) \in Nat /\ Len(r) <= MaxEntries /\ Distinct(r)
           /\ \A i \in DOMAIN r : \/ \E k \in DOMAIN e : r[i] = e[k]
                                  \/ r[i].product \in Products /\ r[i].found = found[r[i].product]
  <1> DEFINE rows == [i \in DOMAIN line |-> [product |-> line[i], found |-> found[line[i]], fresh |-> TRUE]]
             O    == {i \in DOMAIN e : \A j \in DOMAIN line : e[i].product # line[j]}
             old  == RowsAt(e, O)
             all  == old \o rows
  <1>1. Len(line) \in Nat /\ DOMAIN line = 1..Len(line) /\ line \in [1..Len(line) -> Products]
    BY LenProperties
  <1>2. /\ rows \in [1..Len(line) -> Entries]
        /\ \A i \in 1..Len(line) : rows[i].product = line[i] /\ rows[i].found = found[line[i]]
    BY <1>1 DEF Entries
  <1>3. /\ old \in Seq(Entries) /\ Len(old) \in Nat /\ DOMAIN old = 1..Len(old)
        /\ \A i \in DOMAIN old : \E k \in O : old[i] = e[k]
        /\ Distinct(old)
    <2>1. O \in SUBSET DOMAIN e
      OBVIOUS
    <2> HIDE DEF O
    <2> QED BY <2>1, RowsAtFacts
  <1>4. \A i \in DOMAIN old : /\ \E k \in DOMAIN e : old[i] = e[k]
                             /\ \A j \in DOMAIN line : old[i].product # line[j]
    <2> HIDE DEF old
    <2> QED BY <1>3
  <1>5. r = Newest(all)
    BY DEF Insert
  <1> HIDE DEF rows, old, O
  <1>6. rows \in Seq(Entries) /\ Len(rows) = Len(line) /\ DOMAIN rows = 1..Len(line)
    BY <1>1, <1>2
  <1>7. /\ old \o rows \in Seq(Entries) /\ Len(old \o rows) = Len(old) + Len(rows)
        /\ \A i \in 1..(Len(old) + Len(rows)) :
              (old \o rows)[i] = IF i <= Len(old) THEN old[i] ELSE rows[i - Len(old)]
    BY <1>3, <1>6, ConcatProperties
  <1>8. /\ all \in Seq(Entries) /\ DOMAIN all = 1..(Len(old) + Len(line))
        /\ \A i \in 1..(Len(old) + Len(line)) :
              all[i] = IF i <= Len(old) THEN old[i] ELSE rows[i - Len(old)]
    BY <1>6, <1>7, LenProperties
  <1> HIDE DEF all
  <1>9. ASSUME NEW i \in DOMAIN all
        PROVE  \/ i <= Len(old) /\ i \in DOMAIN old /\ all[i] = old[i]
               \/ /\ ~(i <= Len(old)) /\ i - Len(old) \in DOMAIN line
                  /\ all[i] = rows[i - Len(old)]
    BY <1>1, <1>3, <1>8, <1>9
  <1>10. Distinct(all)
    <2>1. ASSUME NEW i \in DOMAIN all, NEW j \in DOMAIN all, all[i].product = all[j].product
          PROVE  i = j
      <3>1. CASE i <= Len(old) /\ j <= Len(old)
        BY <1>3, <1>9, <2>1, <3>1 DEF Distinct
      <3>2. CASE ~(i <= Len(old)) /\ ~(j <= Len(old))
        <4>1. i - Len(old) \in DOMAIN line /\ j - Len(old) \in DOMAIN line
              /\ line[i - Len(old)] = line[j - Len(old)]
          BY <1>1, <1>2, <1>9, <2>1, <3>2
        <4>2. i - Len(old) = j - Len(old)
          BY <4>1 DEF IsInjective
        <4> QED BY <1>3, <1>8, <4>2
      <3>3. CASE i <= Len(old) /\ ~(j <= Len(old))
        BY <1>1, <1>2, <1>4, <1>9, <2>1, <3>3
      <3>4. CASE ~(i <= Len(old)) /\ j <= Len(old)
        BY <1>1, <1>2, <1>4, <1>9, <2>1, <3>4
      <3> QED BY <3>1, <3>2, <3>3, <3>4
    <2> QED BY <2>1 DEF Distinct
  <1>11. \A i \in DOMAIN all :
           \/ \E k \in DOMAIN e : all[i] = e[k]
           \/ all[i].product \in Products /\ all[i].found = found[all[i].product]
    <2>1. ASSUME NEW i \in DOMAIN all
          PROVE  \/ \E k \in DOMAIN e : all[i] = e[k]
                 \/ all[i].product \in Products /\ all[i].found = found[all[i].product]
      BY <1>1, <1>2, <1>4, <1>9
    <2> QED BY <2>1
  <1>12. /\ r \in Seq(Entries) /\ Len(r) \in Nat /\ Len(r) <= MaxEntries /\ DOMAIN r = 1..Len(r)
         /\ \A i \in DOMAIN r : \E k \in DOMAIN all : r[i] = all[k]
         /\ Distinct(all) => Distinct(r)
    BY <1>5, <1>8, NewestFacts
  <1>13. \A i \in DOMAIN r : \/ \E k \in DOMAIN e : r[i] = e[k]
                             \/ r[i].product \in Products /\ r[i].found = found[r[i].product]
    BY <1>11, <1>12
  <1> QED BY <1>10, <1>12, <1>13

(* The rows that are still fresh.                                            *)
LEMMA PrunedFacts ==
    ASSUME InfoInv, NEW r, r = Pruned
    PROVE  /\ r \in Seq(Entries) /\ Len(r) \in Nat /\ Len(r) <= MaxEntries
           /\ Distinct(r) /\ Truthful(r) /\ DOMAIN r = 1..Len(r)
  <1> DEFINE S == {i \in DOMAIN entries : entries[i].fresh}
  <1>1. entries \in Seq(Entries) /\ Distinct(entries) /\ Truthful(entries) /\ Len(entries) <= MaxEntries
    BY DEF InfoInv, InfoTypeOK, CacheHolds, Entries
  <1>2. S \in SUBSET DOMAIN entries
    OBVIOUS
  <1>3. r = RowsAt(entries, S)
    BY DEF Pruned
  <1> HIDE DEF S
  <1>4. /\ r \in Seq(Entries) /\ Len(r) \in Nat /\ DOMAIN r = 1..Len(r)
        /\ \A i \in DOMAIN r : \E k \in S : r[i] = entries[k]
        /\ Distinct(r)
    BY <1>1, <1>2, <1>3, RowsAtFacts
  <1>5. Truthful(r)
    BY <1>1, <1>2, <1>4 DEF Truthful
  <1>6. Len(r) <= MaxEntries
    <2>1. Len(entries) \in Nat /\ DOMAIN entries = 1..Len(entries) /\ MaxEntries \in Nat
      BY <1>1, LenProperties, InfoAssumption
    <2>2. IsFiniteSet(1..Len(entries)) /\ Cardinality(1..Len(entries)) = Len(entries)
      <3> DEFINE l == Len(entries)
      <3>1. l \in Nat
        BY <2>1
      <3> HIDE DEF l
      <3>2. IsFiniteSet(1..l) /\ Cardinality(1..l) = IF 1 > l THEN 0 ELSE l - 1 + 1
        BY <3>1, FS_Interval
      <3>3. (IF 1 > l THEN 0 ELSE l - 1 + 1) = l
        BY <3>1
      <3>4. IsFiniteSet(1..l) /\ Cardinality(1..l) = l
        BY <3>2, <3>3
      <3> QED BY <3>4 DEF l
    <2>3. Cardinality(S) <= Len(entries) /\ Cardinality(S) \in Nat
      BY <1>2, <2>1, <2>2, FS_Subset, FS_CardinalityType
    <2>4. DOMAIN r = 1..Cardinality(S)
      BY <1>3 DEF RowsAt
    <2>5. Len(r) = Cardinality(S)
      <3>1. 1..Len(r) = 1..Cardinality(S)
        BY <1>4, <2>4
      <3>2. ASSUME NEW a \in Nat, NEW b \in Nat, 1..a = 1..b PROVE a = b
        <4>1. (a # 0 => a \in 1..b) /\ (b # 0 => b \in 1..a)
          BY <3>2
        <4> QED BY <4>1
      <3> QED BY <1>4, <2>3, <3>1, <3>2
    <2> QED BY <1>1, <2>1, <2>3, <2>5
  <1> QED BY <1>4, <1>5, <1>6

(* A set written down as a sequence: each member once.                       *)
LEMMA WrittenDown ==
    ASSUME NEW T, NEW S \in SUBSET T, IsFiniteSet(T), NEW r, r = SetToSeq(S)
    PROVE  /\ r \in Seq(T) /\ IsInjective(r)
           /\ \A x \in S : \E i \in DOMAIN r : r[i] = x
  <1> DEFINE c == Cardinality(S)
  <1>1. IsFiniteSet(S) /\ c \in Nat /\ ExistsBijection(1..c, S)
    BY FS_Subset, FS_CardinalityType
  <1>2. PICK f : f \in Bijection(1..c, S)
    BY <1>1 DEF ExistsBijection
  <1>3. \E g \in [1..c -> S] : IsInjective(g)
    BY <1>2 DEF Bijection, Injection
  <1>4. r \in [1..c -> S] /\ IsInjective(r)
    BY <1>3, Zenon DEF SetToSeq
  <1>5. r \in Injection(1..c, S)
    BY <1>4 DEF Injection
  <1>6. IsFiniteSet(1..c) /\ Cardinality(1..c) = c
    BY <1>1, FS_Interval
  <1>7. r \in Surjection(1..c, S)
    BY <1>1, <1>5, <1>6, FS_Injection
  <1>8. \A x \in S : \E i \in DOMAIN r : r[i] = x
    BY <1>4, <1>7 DEF Surjection
  <1>9. r \in Seq(T)
    <2>1. r \in [1..c -> T]
      BY <1>4
    <2> HIDE DEF c
    <2> QED BY <1>1, <2>1
  <1> QED BY <1>4, <1>8, <1>9

(* A call that is not over.                                                  *)
LEMMA InCallFacts ==
    ASSUME InfoTypeOK, call.pc # "none"
    PROVE  call \in InCall
  BY DEF InfoTypeOK, NoCall, InCall

LEMMA ThreadFacts ==
    ASSUME InfoTypeOK
    PROVE  /\ threads \in Seq(Batches) /\ Len(threads) \in Nat /\ DOMAIN threads = 1..Len(threads)
           /\ \A n \in DOMAIN threads : threads[n] \in Batches
  <1>1. threads \in Seq(Batches)
    BY DEF InfoTypeOK, Batches
  <1> QED BY <1>1, LenProperties

(* A new list of entries with its account.                                   *)
LEMMA SettleEffect ==
    ASSUME InfoInv, NEW e \in Seq(Entries), Len(e) <= MaxEntries, Distinct(e), Truthful(e), Settle(e)
    PROVE  entries' \in Seq(Entries) /\ charged' \in Int /\ CacheHolds'
  <1>1. Len(e) \in Nat /\ Len(entries) \in Nat /\ charged = Len(entries)
    BY LenProperties DEF InfoInv, InfoTypeOK, CacheHolds
  <1>2. entries' = e /\ charged' = Len(e)
    BY <1>1 DEF Settle
  <1> QED BY <1>1, <1>2 DEF CacheHolds, Distinct, Truthful

LEMMA EntriesStay ==
    ASSUME InfoInv, UNCHANGED <<entries, charged>>
    PROVE  entries' \in Seq(Entries) /\ charged' \in Int /\ CacheHolds'
  BY DEF InfoInv, InfoTypeOK, Entries, CacheHolds, Distinct, Truthful

(* The end of a call keeps what was served.                                  *)
LEMMA CallEnds ==
    ASSUME InfoInv, entries' \in Seq(Entries), charged' \in Int, CacheHolds',
           call' = NoCall, threads' = <<>>,
           served' \in [asked : SUBSET Products, result : SUBSET Products, failed : SUBSET Products],
           served'.asked \cap InCatalog \subseteq served'.result \cup served'.failed
    PROVE  InfoInv'
  <1>1. InfoTypeOK'
    BY EmptySeq DEF InfoTypeOK, Entries
  <1>2. call'.pc = "none" /\ DOMAIN threads' = {}
    BY DEF NoCall
  <1>3. BatchesHold'
    BY <1>2 DEF BatchesHold
  <1>4. NothingForgotten'
    BY <1>2 DEF NothingForgotten
  <1> QED BY <1>1, <1>3, <1>4 DEF InfoInv

LEMMA AdmitInv == ASSUME InfoInv, Admit PROVE InfoInv'
  <1>1. PICK wanted \in SUBSET Products :
          call' = [pc |-> "prepare", asked |-> wanted, missing |-> <<>>, result |-> {},
                   failed |-> {}, answered |-> FALSE]
    BY DEF Admit
  <1>2. call' \in InCall /\ call'.pc = "prepare"
    BY <1>1, EmptySeq DEF InCall
  <1>3. entries' \in Seq(Entries) /\ charged' \in Int /\ CacheHolds'
    BY EntriesStay DEF Admit
  <1>4. threads = <<>> /\ UNCHANGED <<threads, served>>
    BY DEF Admit, Calling, InfoInv, BatchesHold
  <1>5. InfoTypeOK'
    BY <1>2, <1>3, <1>4 DEF InfoInv, InfoTypeOK, Entries, InCall
  <1>6. BatchesHold'
    BY <1>2, <1>4 DEF BatchesHold
  <1>7. NothingForgotten'
    BY <1>2, <1>4 DEF NothingForgotten, InfoInv
  <1> QED BY <1>3, <1>5, <1>6, <1>7 DEF InfoInv

LEMMA PrepareInv == ASSUME InfoInv, Prepare PROVE InfoInv'
  <1> DEFINE known  == {x.product : x \in {Pruned[i] : i \in DOMAIN Pruned}}
             result == {Pruned[i].product : i \in {j \in DOMAIN Pruned :
                          Pruned[j].found /\ Pruned[j].product \in call.asked}}
             line   == SetToSeq(call.asked \ known)
  <1>0. call \in InCall /\ Calling("prepare") /\ call.pc = "prepare" /\ InfoTypeOK
    BY InCallFacts DEF Prepare, Calling, InfoInv
  <1>1. /\ Pruned \in Seq(Entries) /\ Len(Pruned) \in Nat /\ Len(Pruned) <= MaxEntries
        /\ Distinct(Pruned) /\ Truthful(Pruned)
    BY PrunedFacts
  <1>2. entries' \in Seq(Entries) /\ charged' \in Int /\ CacheHolds'
    <2>1. Settle(Pruned)
      BY DEF Prepare
    <2> QED BY <1>1, <2>1, SettleEffect
  <1>3. \A i \in DOMAIN Pruned : Pruned[i] \in Entries
    BY <1>1, LenProperties
  <1>4. result \in SUBSET Products
    BY <1>3 DEF Entries
  <1>5. line \in Seq(Products) /\ IsInjective(line)
        /\ \A x \in call.asked \ known : \E i \in DOMAIN line : line[i] = x
    <2>1. call.asked \ known \in SUBSET Products
      BY <1>0 DEF InCall
    <2>2. line = SetToSeq(call.asked \ known) /\ IsFiniteSet(Products)
      BY InfoAssumption
    <2> DEFINE S == call.asked \ known
    <2>3. S \in SUBSET Products /\ IsFiniteSet(Products) /\ line = SetToSeq(S)
      BY <2>1, <2>2
    <2>4. line \in Seq(Products) /\ IsInjective(line) /\ \A x \in S : \E i \in DOMAIN line : line[i] = x
      <3> HIDE DEF S, line
      <3> QED BY <2>3, WrittenDown
    <2> QED BY <2>4
  <1>6. \A p \in call.asked \cap InCatalog : p \in result \/ \E i \in DOMAIN line : line[i] = p
    <2>1. ASSUME NEW p \in call.asked \cap InCatalog, p \in known PROVE p \in result
      <3>1. PICK i \in DOMAIN Pruned : Pruned[i].product = p
        BY <2>1
      <3>2. Pruned[i].found
        BY <1>1, <2>1, <3>1 DEF Truthful
      <3> QED BY <2>1, <3>1, <3>2
    <2> HIDE DEF known, result, line
    <2> QED BY <1>5, <2>1
  <1>7. call' = [call EXCEPT !.pc = "window", !.result = result, !.missing = line]
    BY DEF Prepare
  <1> HIDE DEF known, result, line
  <1>8. /\ call' \in InCall /\ call'.pc = "window" /\ call'.result = result
        /\ call'.missing = line /\ call'.asked = call.asked
    BY <1>0, <1>4, <1>5, <1>7 DEF InCall
  <1>9. threads = <<>> /\ UNCHANGED <<threads, served>>
    BY <1>0 DEF Prepare, InfoInv, BatchesHold
  <1>10. InfoTypeOK'
    BY <1>0, <1>2, <1>8, <1>9 DEF InfoTypeOK, Entries, InCall
  <1>11. BatchesHold'
    BY <1>5, <1>8, <1>9 DEF BatchesHold
  <1>12. NothingForgotten'
    BY <1>6, <1>8, <1>9 DEF NothingForgotten, Placed, InfoInv
  <1> QED BY <1>2, <1>10, <1>11, <1>12 DEF InfoInv

(* The n-th batch of what is missing.                                        *)
LEMMA BatchFacts ==
    ASSUME NEW line, line = call.missing, line \in Seq(Products), IsInjective(line),
           NEW n \in Nat \ {0}, NEW b, b = Batch(n)
    PROVE  /\ b \in Seq(Products) /\ IsInjective(b)
           /\ \A i \in DOMAIN line :
                (n - 1) * BatchSize < i /\ i <= n * BatchSize =>
                   \E k \in DOMAIN b : b[k] = line[i]
  <1> DEFINE first == (n - 1) * BatchSize + 1
             last  == IF n * BatchSize < Len(line) THEN n * BatchSize ELSE Len(line)
  <1>1. Len(line) \in Nat /\ DOMAIN line = 1..Len(line) /\ line \in [1..Len(line) -> Products]
    BY LenProperties
  <1>2. (n - 1) * BatchSize \in Nat /\ n * BatchSize \in Nat /\ BatchSize \in Nat
    <2>1. \A x, y \in Nat : x * y \in Nat
      OBVIOUS
    <2>2. n - 1 \in Nat /\ n \in Nat /\ BatchSize \in Nat
      BY InfoAssumption
    <2> QED BY <2>1, <2>2
  <1>3. /\ first \in Nat \ {0} /\ last \in Nat /\ last <= Len(line) /\ last <= n * BatchSize
        /\ (n - 1) * BatchSize = first - 1
        /\ \A i \in 1..Len(line) : i <= n * BatchSize => i <= last
    BY <1>1, <1>2
  <1>4. b = SubSeq(line, first, last)
    BY DEF Batch
  <1> HIDE DEF first, last
  <1>5. first \in Int /\ last \in Int /\ \A i \in first..last : line[i] \in Products
    BY <1>1, <1>3
  <1>6. /\ SubSeq(line, first, last) \in Seq(Products)
        /\ Len(SubSeq(line, first, last)) = (IF first <= last THEN last - first + 1 ELSE 0)
        /\ \A i \in 1..(last - first + 1) : SubSeq(line, first, last)[i] = line[first + i - 1]
    BY <1>5, SubSeqProperties
  <1>7. /\ b \in Seq(Products) /\ Len(b) = (IF first <= last THEN last - first + 1 ELSE 0)
        /\ \A i \in 1..(last - first + 1) : b[i] = line[first + i - 1]
    BY <1>4, <1>6
  <1>8. DOMAIN b = 1..Len(b)
    BY <1>7, LenProperties
  <1>9. ASSUME NEW i \in DOMAIN b
        PROVE  i \in 1..(last - first + 1) /\ first + i - 1 \in DOMAIN line
               /\ b[i] = line[first + i - 1]
    <2>1. ASSUME NEW l, l = (IF first <= last THEN last - first + 1 ELSE 0), NEW j \in 1..l
          PROVE  j \in 1..(last - first + 1) /\ first + j - 1 \in 1..Len(line)
      BY <1>1, <1>3, <2>1
    <2>2. i \in 1..(last - first + 1) /\ first + i - 1 \in 1..Len(line)
      BY <1>7, <1>8, <2>1
    <2> QED BY <1>1, <1>7, <2>2
  <1>10. ASSUME NEW i \in DOMAIN b, NEW j \in DOMAIN b, b[i] = b[j] PROVE i = j
    <2>1. first + i - 1 = first + j - 1
      BY <1>9, <1>10 DEF IsInjective
    <2>2. i \in Int /\ j \in Int
      BY <1>8, <1>9
    <2> QED BY <1>3, <2>1, <2>2
  <1>11. ASSUME NEW i \in DOMAIN line, (n - 1) * BatchSize < i, i <= n * BatchSize
         PROVE  \E k \in DOMAIN b : b[k] = line[i]
    <2>1. i \in 1..Len(line) /\ first <= i /\ i <= last
      BY <1>1, <1>3, <1>11
    <2> DEFINE k == i - first + 1
    <2>2. k \in 1..(last - first + 1) /\ first <= last /\ first + k - 1 = i
      BY <1>3, <2>1
    <2>3. k \in DOMAIN b
      <3>1. Len(b) = last - first + 1
        BY <1>7, <2>2
      <3> QED BY <1>8, <2>2, <3>1
    <2>4. b[k] = line[i]
      <3> HIDE DEF k
      <3> QED BY <1>7, <2>2
    <2> QED BY <2>3, <2>4
  <1> QED BY <1>7, <1>10, <1>11 DEF IsInjective

(* What remains after the first m.                                           *)
Remains(line, m, b) == \A i \in DOMAIN line : m < i => \E k \in DOMAIN b : b[k] = line[i]
LEMMA RestFacts ==
    ASSUME NEW line \in Seq(Products), IsInjective(line), NEW m \in Nat,
           NEW b, b = SubSeq(line, m + 1, Len(line))
    PROVE  b \in Seq(Products) /\ IsInjective(b) /\ Remains(line, m, b)
  <1>1. Len(line) \in Nat /\ DOMAIN line = 1..Len(line) /\ line \in [1..Len(line) -> Products]
    BY LenProperties
  <1>2. m + 1 \in Int /\ Len(line) \in Int /\ \A i \in (m + 1)..Len(line) : line[i] \in Products
    BY <1>1
  <1>3. /\ SubSeq(line, m + 1, Len(line)) \in Seq(Products)
        /\ Len(SubSeq(line, m + 1, Len(line)))
             = (IF m + 1 <= Len(line) THEN Len(line) - (m + 1) + 1 ELSE 0)
        /\ \A i \in 1..(Len(line) - (m + 1) + 1) :
              SubSeq(line, m + 1, Len(line))[i] = line[(m + 1) + i - 1]
    BY <1>2, SubSeqProperties
  <1>4. /\ b \in Seq(Products)
        /\ Len(b) = (IF m + 1 <= Len(line) THEN Len(line) - (m + 1) + 1 ELSE 0)
        /\ \A i \in 1..(Len(line) - (m + 1) + 1) : b[i] = line[(m + 1) + i - 1]
    BY <1>3
  <1>5. DOMAIN b = 1..Len(b)
    BY <1>4, LenProperties
  <1>6. ASSUME NEW l \in Nat, NEW k, k = (IF m + 1 <= l THEN l - (m + 1) + 1 ELSE 0), NEW i \in 1..k
        PROVE  i \in 1..(l - (m + 1) + 1) /\ (m + 1) + i - 1 \in 1..l /\ (m + 1) + i - 1 = m + i
    BY <1>6
  <1>7. \A i \in DOMAIN b : m + i \in DOMAIN line /\ b[i] = line[m + i] /\ i \in Nat
    <2>1. ASSUME NEW i \in 1..Len(b)
          PROVE  /\ i \in 1..(Len(line) - (m + 1) + 1) /\ (m + 1) + i - 1 \in 1..Len(line)
                 /\ (m + 1) + i - 1 = m + i /\ i \in Nat
      BY <1>1, <1>4, <1>6
    <2>2. ASSUME NEW i \in 1..Len(b) PROVE b[i] = line[(m + 1) + i - 1]
      BY <1>4, <2>1
    <2> QED BY <1>1, <1>5, <2>1, <2>2
  <1>8. ASSUME NEW i \in DOMAIN b, NEW j \in DOMAIN b, b[i] = b[j] PROVE i = j
    <2>1. m + i = m + j
      BY <1>7, <1>8 DEF IsInjective
    <2> QED BY <1>7, <2>1
  <1>9. ASSUME NEW i \in DOMAIN line, m < i PROVE \E k \in DOMAIN b : b[k] = line[i]
    <2>1. ASSUME NEW l \in Nat, NEW x \in 1..l, m < x
          PROVE  /\ m + 1 <= l /\ x - m \in 1..(l - (m + 1) + 1) /\ (m + 1) + (x - m) - 1 = x
      BY <2>1
    <2>2. /\ m + 1 <= Len(line) /\ i - m \in 1..(Len(line) - (m + 1) + 1)
          /\ (m + 1) + (i - m) - 1 = i
      BY <1>1, <1>9, <2>1
    <2>3. i - m \in DOMAIN b
      <3>1. Len(b) = Len(line) - (m + 1) + 1
        BY <1>4, <2>2
      <3> QED BY <1>5, <2>2, <3>1
    <2>4. b[i - m] = line[i]
      BY <1>4, <2>2
    <2> QED BY <2>3, <2>4
  <1> QED BY <1>4, <1>8, <1>9 DEF IsInjective, Remains

LEMMA WindowInv == ASSUME InfoInv, Window PROVE InfoInv'
  <1> DEFINE line == call.missing
             all  == (Len(line) + BatchSize - 1) \div BatchSize
             now  == IF all < Workers THEN all ELSE Workers
             rest == SubSeq(line, now * BatchSize + 1, Len(line))
  <1>0. call \in InCall /\ call.pc = "window" /\ InfoTypeOK /\ threads = <<>> /\ IsInjective(line)
    BY InCallFacts DEF Window, Calling, InfoInv, BatchesHold
  <1>1. /\ line \in Seq(Products) /\ Len(line) \in Nat /\ DOMAIN line = 1..Len(line)
        /\ BatchSize \in Nat \ {0} /\ Workers \in Nat
    BY <1>0, LenProperties, InfoAssumption DEF InCall
  <1>2. now \in Nat /\ now * BatchSize \in Nat
    <2>1. ASSUME NEW l \in Nat, NEW k \in Nat \ {0} PROVE (l + k - 1) \div k \in Nat
      OBVIOUS
    <2>2. all \in Nat
      BY <1>1, <2>1
    <2>3. now \in Nat
      <3> HIDE DEF all
      <3> QED BY <1>1, <2>2
    <2>4. \A x, y \in Nat : x * y \in Nat
      OBVIOUS
    <2> HIDE DEF now
    <2> QED BY <1>1, <2>3, <2>4
  <1>3. entries' \in Seq(Entries) /\ charged' \in Int /\ CacheHolds'
    BY EntriesStay DEF Window
  <1>4. CASE call' = NoCall /\ UNCHANGED threads
    BY <1>0, <1>3, <1>4, CallEnds DEF Window, InfoInv, InfoTypeOK, NothingForgotten
  <1>5. CASE /\ threads' = [n \in 1..now |-> [batch |-> Batch(n), state |-> "running"]]
             /\ call' = [call EXCEPT !.pc = "gather", !.missing = rest]
    <2>1. rest \in Seq(Products) /\ IsInjective(rest)
          /\ \A i \in DOMAIN line : now * BatchSize < i => \E k \in DOMAIN rest : rest[k] = line[i]
      <3> DEFINE m == now * BatchSize
      <3>1. m \in Nat /\ rest = SubSeq(line, m + 1, Len(line))
        BY <1>2
      <3>2. line \in Seq(Products) /\ IsInjective(line)
        BY <1>0, <1>1
      <3>3. rest \in Seq(Products) /\ IsInjective(rest) /\ Remains(line, m, rest)
        <4> HIDE DEF rest, m, line
        <4> QED BY <3>1, <3>2, RestFacts
      <3> QED BY <3>3 DEF Remains
    <2> HIDE DEF rest, now, line
    <2>2. \A n \in 1..now :
            /\ Batch(n) \in Seq(Products) /\ IsInjective(Batch(n))
            /\ \A i \in DOMAIN line : (n - 1) * BatchSize < i /\ i <= n * BatchSize =>
                  \E k \in DOMAIN Batch(n) : Batch(n)[k] = line[i]
      <3>1. line = call.missing /\ line \in Seq(Products) /\ IsInjective(line)
        BY <1>0, <1>1 DEF line
      <3>2. ASSUME NEW n \in Nat \ {0}, NEW b, b = Batch(n)
            PROVE  /\ b \in Seq(Products) /\ IsInjective(b)
                   /\ \A i \in DOMAIN line : (n - 1) * BatchSize < i /\ i <= n * BatchSize =>
                         \E k \in DOMAIN b : b[k] = line[i]
        BY <3>1, <3>2, BatchFacts
      <3>3. \A n \in 1..now : n \in Nat \ {0}
        BY <1>2
      <3> QED BY <3>2, <3>3
    <2>3. /\ threads' \in [1..now -> Batches] /\ DOMAIN threads' = 1..now
          /\ \A n \in 1..now : threads'[n].batch = Batch(n)
      BY <1>5, <2>2 DEF Batches
    <2>4. threads' \in Seq(Batches)
      BY <1>2, <2>3
    <2>5. /\ call' \in InCall /\ call'.pc = "gather" /\ call'.missing = rest
          /\ call'.asked = call.asked /\ call'.result = call.result /\ call'.failed = call.failed
      BY <1>0, <1>5, <2>1 DEF InCall
    <2>6. served' = served
      BY DEF Window
    <2>7. InfoTypeOK'
      BY <1>0, <1>3, <2>4, <2>5, <2>6 DEF InfoTypeOK, Entries, Batches, InCall
    <2>8. BatchesHold'
      BY <2>1, <2>2, <2>3, <2>5 DEF BatchesHold
    <2>9. ASSUME NEW i \in DOMAIN line
          PROVE  \/ \E k \in DOMAIN rest : rest[k] = line[i]
                 \/ \E n \in 1..now : \E k \in DOMAIN Batch(n) : Batch(n)[k] = line[i]
      <3>1. CASE now * BatchSize < i
        BY <2>1, <3>1
      <3>2. CASE ~(now * BatchSize < i)
        <4> DEFINE q == (i - 1) \div BatchSize
        <4>1. i \in Nat /\ i - 1 \in Nat
          BY <1>1
        <4>2. ASSUME NEW a \in Nat, NEW k \in Nat \ {0}
              PROVE  /\ a \div k \in Nat /\ k * (a \div k) <= a /\ a < k * (a \div k) + k
          OBVIOUS
        <4>3. q \in Nat /\ BatchSize * q <= i - 1 /\ i - 1 < BatchSize * q + BatchSize
          BY <1>1, <4>1, <4>2
        <4> HIDE DEF q
        <4>4. q < now
          <5>1. SUFFICES ASSUME ~(q < now) PROVE FALSE
            OBVIOUS
          <5>2. now * BatchSize <= BatchSize * q
            <6>1. ASSUME NEW x \in Nat, NEW y \in Nat, NEW k \in Nat, x <= y PROVE x * k <= k * y
              BY <6>1
            <6>2. now <= q
              BY <1>2, <4>3, <5>1
            <6> QED BY <1>1, <1>2, <4>3, <6>1, <6>2
          <5>3. BatchSize * q \in Nat
            <6>1. \A x, y \in Nat : x * y \in Nat
              OBVIOUS
            <6> QED BY <1>1, <4>3, <6>1
          <5> QED BY <1>2, <3>2, <4>1, <4>3, <5>2, <5>3
        <4>5. /\ q + 1 \in 1..now /\ ((q + 1) - 1) * BatchSize = BatchSize * q
              /\ (q + 1) * BatchSize = BatchSize * q + BatchSize
          <5>1. ASSUME NEW x \in Nat, NEW k \in Nat
                PROVE  ((x + 1) - 1) * k = k * x /\ (x + 1) * k = k * x + k
            OBVIOUS
          <5> QED BY <1>1, <1>2, <4>3, <4>4, <5>1
        <4>6. ((q + 1) - 1) * BatchSize < i /\ i <= (q + 1) * BatchSize
          <5>1. ASSUME NEW z \in Nat, NEW k \in Nat, NEW x \in Nat, z <= x - 1, x - 1 < z + k
                PROVE  z < x /\ x <= z + k
            BY <5>1
          <5>2. BatchSize * q \in Nat
            <6>1. \A x, y \in Nat : x * y \in Nat
              OBVIOUS
            <6> QED BY <1>1, <4>3, <6>1
          <5> QED BY <1>1, <4>1, <4>3, <4>5, <5>1, <5>2
        <4> QED BY <2>2, <4>5, <4>6
      <3> QED BY <3>1, <3>2
    <2>10. NothingForgotten'
      <3>1. ASSUME NEW p \in call.asked \cap InCatalog PROVE Placed(p)'
        <4>1. p \in call.result \cup call.failed \/ \E i \in DOMAIN line : line[i] = p
          BY <1>0, <3>1 DEF InfoInv, NothingForgotten, Placed, line
        <4>2. \/ p \in call.result \cup call.failed
              \/ \E k \in DOMAIN rest : rest[k] = p
              \/ \E n \in 1..now : \E k \in DOMAIN Batch(n) : Batch(n)[k] = p
          BY <2>9, <4>1
        <4> QED BY <2>3, <2>5, <4>2 DEF Placed
      <3> QED BY <2>5, <2>6, <3>1 DEF NothingForgotten, InfoInv
    <2> QED BY <1>3, <2>7, <2>8, <2>10 DEF InfoInv
  <1>6. \/ /\ threads' = [n \in 1..now |-> [batch |-> Batch(n), state |-> "running"]]
           /\ call' = [call EXCEPT !.pc = "gather", !.missing = rest]
        \/ call' = NoCall /\ UNCHANGED threads
    BY DEF Window
  <1> QED BY <1>4, <1>5, <1>6

LEMMA BatchEndsInv == ASSUME InfoInv, BatchEnds PROVE InfoInv'
  <1>1. PICK m \in DOMAIN threads, outcome \in {"answered", "failed"} :
          threads' = [threads EXCEPT ![m].state = outcome]
    BY DEF BatchEnds
  <1>2. InfoTypeOK /\ UNCHANGED <<entries, charged, call, served>>
    BY DEF InfoInv, BatchEnds
  <1>3. /\ threads \in Seq(Batches) /\ DOMAIN threads = 1..Len(threads) /\ Len(threads) \in Nat
        /\ \A n \in DOMAIN threads : threads[n] \in Batches
    BY <1>2, ThreadFacts
  <1>4. [threads[m] EXCEPT !.state = outcome] \in Batches
        /\ [threads[m] EXCEPT !.state = outcome].batch = threads[m].batch
    BY <1>3 DEF Batches
  <1>5. threads' = [threads EXCEPT ![m] = [threads[m] EXCEPT !.state = outcome]]
    BY <1>1
  <1>6. threads' \in Seq(Batches)
    BY <1>3, <1>4, <1>5, ExceptSeq
  <1>7. DOMAIN threads' = DOMAIN threads /\ \A n \in DOMAIN threads : threads'[n].batch = threads[n].batch
    BY <1>3, <1>4, <1>5
  <1>8. entries' \in Seq(Entries) /\ charged' \in Int /\ CacheHolds'
    BY <1>2, EntriesStay
  <1>9. InfoTypeOK'
    BY <1>2, <1>6, <1>8 DEF InfoTypeOK, Entries, Batches
  <1>10. threads # <<>>
    BY <1>3
  <1>11. BatchesHold'
    <2>1. call.pc \in {"gather", "cleanup"}
      BY <1>10 DEF InfoInv, BatchesHold
    <2> QED BY <1>2, <1>7, <2>1 DEF InfoInv, BatchesHold
  <1>12. NothingForgotten'
    BY <1>2, <1>7 DEF InfoInv, NothingForgotten, Placed
  <1> QED BY <1>8, <1>9, <1>11, <1>12 DEF InfoInv

LEMMA ConsumeInv == ASSUME InfoInv, Consume PROVE InfoInv'
  <1> DEFINE head  == threads[1]
             asked == {head.batch[i] : i \in DOMAIN head.batch}
             news  == InsertAll(entries, head.batch)
  <1>0. /\ call \in InCall /\ call.pc = "gather" /\ InfoTypeOK /\ threads # <<>>
        /\ IsInjective(call.missing)
    BY InCallFacts DEF Consume, Calling, InfoInv, BatchesHold
  <1>1. /\ threads \in Seq(Batches) /\ DOMAIN threads = 1..Len(threads) /\ Len(threads) \in Nat \ {0}
        /\ head \in Batches /\ 1 \in DOMAIN threads
    <2>1. threads \in Seq(Batches) /\ DOMAIN threads = 1..Len(threads) /\ Len(threads) \in Nat
          /\ \A n \in DOMAIN threads : threads[n] \in Batches
      BY <1>0, ThreadFacts
    <2>2. Len(threads) # 0
      BY <1>0, <2>1, EmptySeq
    <2> QED BY <2>1, <2>2
  <1>2. /\ threads' = Tail(threads) /\ threads' \in Seq(Batches)
        /\ DOMAIN threads' = 1..(Len(threads) - 1)
        /\ \A n \in 1..(Len(threads) - 1) : threads'[n] = threads[n + 1] /\ n + 1 \in DOMAIN threads
    <2>1. /\ Tail(threads) \in Seq(Batches) /\ Len(Tail(threads)) = Len(threads) - 1
          /\ \A n \in 1..Len(Tail(threads)) : Tail(threads)[n] = threads[n + 1]
      BY <1>0, <1>1, HeadTailProperties
    <2>2. threads' = Tail(threads)
      BY DEF Consume
    <2>3. \A n \in 1..(Len(threads) - 1) : n + 1 \in DOMAIN threads
      BY <1>1
    <2> QED BY <2>1, <2>2, <2>3, LenProperties
  <1>3. head.batch \in Seq(Products) /\ IsInjective(head.batch) /\ asked \in SUBSET Products
    <2>1. head.batch \in Seq(Products) /\ IsInjective(head.batch)
      BY <1>1 DEF InfoInv, BatchesHold, Batches
    <2>2. \A i \in DOMAIN head.batch : head.batch[i] \in Products
      BY <2>1, LenProperties
    <2> QED BY <2>1, <2>2
  <1>4. /\ call' \in InCall /\ call'.pc = "gather" /\ call'.missing = call.missing
        /\ call'.asked = call.asked
        /\ call.result \cup call.failed \subseteq call'.result \cup call'.failed
        /\ asked \cap InCatalog \subseteq call'.result \cup call'.failed
    <2>1. \/ call' = [call EXCEPT !.result = @ \cup (asked \cap InCatalog), !.answered = TRUE]
          \/ call' = [call EXCEPT !.failed = @ \cup asked]
      BY DEF Consume
    <2> HIDE DEF asked
    <2>2. CASE call' = [call EXCEPT !.result = @ \cup (asked \cap InCatalog), !.answered = TRUE]
      BY <1>0, <1>3, <2>2 DEF InCall
    <2>3. CASE call' = [call EXCEPT !.failed = @ \cup asked]
      BY <1>0, <1>3, <2>3 DEF InCall
    <2> QED BY <2>1, <2>2, <2>3
  <1>5. entries' \in Seq(Entries) /\ charged' \in Int /\ CacheHolds'
    <2>1. CASE Settle(news)
      <3> DEFINE line  == Order(head.batch)
                 found == [p \in Products |-> p \in InCatalog]
      <3>1. line \in Seq(Products) /\ IsInjective(line)
        BY <1>3, InOrderFacts
      <3>2. entries \in Seq(Entries) /\ Distinct(entries) /\ Truthful(entries)
        BY <1>0 DEF InfoInv, InfoTypeOK, CacheHolds, Entries
      <3>3. found \in [Products -> BOOLEAN] /\ \A p \in Products : found[p] = (p \in InCatalog)
        OBVIOUS
      <3>4. news = Insert(entries, line, found)
        BY DEF InsertAll
      <3> HIDE DEF news, line, found
      <3>5. /\ news \in Seq(Entries) /\ Len(news) \in Nat /\ Len(news) <= MaxEntries /\ Distinct(news)
            /\ \A i \in DOMAIN news :
                  \/ \E k \in DOMAIN entries : news[i] = entries[k]
                  \/ news[i].product \in Products /\ news[i].found = found[news[i].product]
        <4>1. found \in [Products -> BOOLEAN]
          BY <3>3
        <4> HIDE <3>3
        <4> QED BY <3>1, <3>2, <3>4, <4>1, InsertFacts
      <3>6. Truthful(news)
        BY <3>2, <3>3, <3>5 DEF Truthful
      <3> QED BY <2>1, <3>5, <3>6, SettleEffect
    <2>2. CASE UNCHANGED <<entries, charged>>
      BY <2>2, EntriesStay
    <2> QED BY <2>1, <2>2 DEF Consume
  <1>6. served' = served
    BY DEF Consume
  <1> HIDE DEF asked, news
  <1>7. InfoTypeOK'
    BY <1>0, <1>2, <1>4, <1>5, <1>6 DEF InfoTypeOK, Entries, Batches, InCall
  <1>8. BatchesHold'
    BY <1>0, <1>2, <1>4 DEF InfoInv, BatchesHold
  <1>9. NothingForgotten'
    <2>1. ASSUME NEW p \in call.asked \cap InCatalog PROVE Placed(p)'
      <3>1. Placed(p)
        BY <1>0, <2>1 DEF InfoInv, NothingForgotten
      <3>2. CASE p \in call.result \cup call.failed \/ \E i \in DOMAIN call.missing : call.missing[i] = p
        BY <1>4, <3>2 DEF Placed
      <3>3. ASSUME NEW n \in DOMAIN threads, NEW i \in DOMAIN threads[n].batch, threads[n].batch[i] = p
            PROVE  Placed(p)'
        <4>1. CASE n = 1
          <5>1. p \in asked
            BY <3>3, <4>1 DEF asked
          <5> QED BY <1>4, <2>1, <5>1 DEF Placed
        <4>2. CASE n # 1
          <5>1. n - 1 \in 1..(Len(threads) - 1) /\ (n - 1) + 1 = n
            BY <1>1, <4>2
          <5>2. threads'[n - 1] = threads[n] /\ n - 1 \in DOMAIN threads'
            BY <1>2, <5>1
          <5> QED BY <3>3, <5>2 DEF Placed
        <4> QED BY <4>1, <4>2
      <3> QED BY <3>1, <3>2, <3>3 DEF Placed
    <2> QED BY <1>4, <1>6, <2>1 DEF InfoInv, NothingForgotten
  <1> QED BY <1>5, <1>7, <1>8, <1>9 DEF InfoInv

LEMMA NextWindowInv == ASSUME InfoInv, NextWindow PROVE InfoInv'
  <1>1. call \in InCall /\ call.pc = "gather" /\ InfoTypeOK /\ threads = <<>>
    BY InCallFacts DEF NextWindow, Calling, InfoInv
  <1>2. /\ call' \in InCall /\ call'.pc = "window" /\ call'.missing = call.missing
        /\ call'.asked = call.asked /\ call'.result = call.result /\ call'.failed = call.failed
    BY <1>1 DEF NextWindow, InCall
  <1>3. UNCHANGED <<threads, served>>
    BY DEF NextWindow
  <1>4. entries' \in Seq(Entries) /\ charged' \in Int /\ CacheHolds'
    BY EntriesStay DEF NextWindow
  <1>5. InfoTypeOK'
    BY <1>1, <1>2, <1>3, <1>4 DEF InfoTypeOK, Entries, InCall
  <1>6. BatchesHold'
    BY <1>1, <1>2, <1>3 DEF InfoInv, BatchesHold
  <1>7. NothingForgotten'
    BY <1>1, <1>2, <1>3 DEF InfoInv, NothingForgotten, Placed
  <1> QED BY <1>4, <1>5, <1>6, <1>7 DEF InfoInv

LEMMA AnswerCallInv == ASSUME InfoInv, AnswerCall PROVE InfoInv'
  <1>1. /\ call \in InCall /\ call.pc = "window" /\ call.missing = <<>> /\ threads = <<>>
        /\ DOMAIN call.missing = {} /\ DOMAIN threads = {}
    BY InCallFacts DEF AnswerCall, Calling, InfoInv, BatchesHold
  <1>2. call.asked \cap InCatalog \subseteq call.result \cup call.failed
    BY <1>1 DEF InfoInv, NothingForgotten, Placed
  <1>3. entries' \in Seq(Entries) /\ charged' \in Int /\ CacheHolds'
    BY PrunedFacts, SettleEffect DEF AnswerCall
  <1>4. call' = NoCall /\ threads' = <<>>
    BY <1>1 DEF AnswerCall
  <1>5. served' = Nothing
        \/ served' = [asked |-> call.asked, result |-> call.result, failed |-> call.failed]
    BY DEF AnswerCall
  <1>6. /\ served' \in [asked : SUBSET Products, result : SUBSET Products, failed : SUBSET Products]
        /\ served'.asked \cap InCatalog \subseteq served'.result \cup served'.failed
    <2>1. CASE served' = Nothing
      BY <2>1 DEF Nothing
    <2>2. CASE served' = [asked |-> call.asked, result |-> call.result, failed |-> call.failed]
      BY <1>1, <1>2, <2>2 DEF InCall
    <2> QED BY <1>5, <2>1, <2>2
  <1> QED BY <1>3, <1>4, <1>6, CallEnds

LEMMA CancelCallInv == ASSUME InfoInv, CancelCall PROVE InfoInv'
  <1>0. /\ call \in InCall /\ InfoTypeOK /\ served' = served /\ threads' = threads
        /\ call.pc \in {"prepare", "gather"}
    BY InCallFacts DEF CancelCall, InfoInv
  <1>1. entries' \in Seq(Entries) /\ charged' \in Int /\ CacheHolds'
    <2>1. CASE Settle(Pruned)
      BY <2>1, PrunedFacts, SettleEffect
    <2>2. CASE UNCHANGED <<entries, charged>>
      BY <2>2, EntriesStay
    <2> QED BY <2>1, <2>2 DEF CancelCall
  <1>2. CASE Calling("prepare")
    <2>1. threads' = <<>>
      BY <1>0, <1>2 DEF InfoInv, BatchesHold, Calling
    <2> QED BY <1>0, <1>1, <1>2, <2>1, CallEnds DEF CancelCall, InfoInv, InfoTypeOK, NothingForgotten
  <1>3. CASE ~Calling("prepare")
    <2>1. call' \in InCall /\ call'.pc = "cleanup"
      BY <1>0, <1>3 DEF CancelCall, InCall
    <2>2. InfoTypeOK'
      BY <1>0, <1>1, <2>1 DEF InfoTypeOK, Entries, InCall
    <2>3. BatchesHold'
      BY <1>0, <2>1 DEF InfoInv, BatchesHold
    <2>4. NothingForgotten'
      BY <1>0, <2>1 DEF InfoInv, NothingForgotten
    <2> QED BY <1>1, <2>2, <2>3, <2>4 DEF InfoInv
  <1> QED BY <1>2, <1>3

LEMMA CleanUpCallInv == ASSUME InfoInv, CleanUpCall PROVE InfoInv'
  <1>1. entries' \in Seq(Entries) /\ charged' \in Int /\ CacheHolds'
    BY EntriesStay DEF CleanUpCall
  <1> QED BY <1>1, CallEnds DEF CleanUpCall, InfoInv, InfoTypeOK, NothingForgotten

LEMMA InfoAgesInv == ASSUME InfoInv, InfoAges PROVE InfoInv'
  <1>1. PICK m \in DOMAIN entries : entries' = [entries EXCEPT ![m].fresh = FALSE]
    BY DEF InfoAges
  <1>2. InfoTypeOK /\ UNCHANGED <<charged, call, threads, served>>
    BY DEF InfoInv, InfoAges
  <1>3. /\ entries \in Seq(Entries) /\ DOMAIN entries = 1..Len(entries) /\ Len(entries) \in Nat
        /\ \A n \in DOMAIN entries : entries[n] \in Entries
    <2>1. entries \in Seq(Entries)
      BY <1>2 DEF InfoTypeOK, Entries
    <2> QED BY <2>1, LenProperties
  <1> DEFINE x == [entries[m] EXCEPT !.fresh = FALSE]
  <1>4. x \in Entries /\ x.product = entries[m].product /\ x.found = entries[m].found
    BY <1>3 DEF Entries
  <1>5. entries' = [entries EXCEPT ![m] = x]
    BY <1>1
  <1> HIDE DEF x
  <1>6. entries' \in Seq(Entries) /\ Len(entries') = Len(entries)
    BY <1>3, <1>4, <1>5, ExceptSeq
  <1>7. DOMAIN entries' = DOMAIN entries
        /\ \A n \in DOMAIN entries : /\ entries'[n].product = entries[n].product
                                     /\ entries'[n].found = entries[n].found
    BY <1>3, <1>4, <1>5
  <1>8. CacheHolds'
    BY <1>2, <1>6, <1>7 DEF InfoInv, CacheHolds, Distinct, Truthful
  <1>9. InfoTypeOK'
    BY <1>2, <1>6 DEF InfoTypeOK, Entries
  <1>10. BatchesHold' /\ NothingForgotten'
    BY <1>2 DEF InfoInv, BatchesHold, NothingForgotten, Placed
  <1> QED BY <1>8, <1>9, <1>10 DEF InfoInv

LEMMA InfoInitInv == InfoInit => InfoInv
  <1> SUFFICES ASSUME InfoInit PROVE InfoInv
    OBVIOUS
  <1>1. /\ entries = <<>> /\ charged = 0 /\ call = NoCall /\ threads = <<>> /\ served = Nothing
        /\ DOMAIN entries = {} /\ DOMAIN threads = {} /\ Len(entries) = 0 /\ MaxEntries \in Nat
    BY InfoAssumption DEF InfoInit
  <1>2. InfoTypeOK
    BY <1>1, EmptySeq DEF InfoTypeOK, Nothing
  <1>3. CacheHolds
    BY <1>1 DEF CacheHolds, Distinct, Truthful
  <1>4. BatchesHold
    BY <1>1 DEF BatchesHold, NoCall
  <1>5. NothingForgotten
    BY <1>1 DEF NothingForgotten, NoCall, Nothing
  <1> QED BY <1>2, <1>3, <1>4, <1>5 DEF InfoInv

LEMMA InfoStepInv == InfoInv /\ [InfoNext]_infoVars => InfoInv'
  <1> SUFFICES ASSUME InfoInv, [InfoNext]_infoVars PROVE InfoInv'
    OBVIOUS
  <1>1. CASE InfoNext
    BY <1>1, AdmitInv, PrepareInv, WindowInv, BatchEndsInv, ConsumeInv, NextWindowInv,
       AnswerCallInv, CancelCallInv, CleanUpCallInv, InfoAgesInv DEF InfoNext
  <1>2. CASE UNCHANGED infoVars
    BY <1>2 DEF infoVars, InfoInv, InfoTypeOK, CacheHolds, Distinct, Truthful, BatchesHold,
                NothingForgotten, Placed
  <1> QED BY <1>1, <1>2

(* A report misses a product that CatalogVR knows only when its own batch     *)
(* failed, the cache never denies one and stays within its limit, and no      *)
(* thread outlives its call (get_catalog_batch_info), for any number of       *)
(* products, any batch size, window and limit.                              *)
THEOREM InfoSoundTheorem == InfoSpec => []InfoSound
  <1>1. InfoInv => InfoSound
    <2> SUFFICES ASSUME InfoInv PROVE InfoSound
      OBVIOUS
    <2>1. ASSUME NEW p \in Products PROVE Cardinality(EntriesOf(p)) <= 1
      <3>1. \A i, j \in EntriesOf(p) : i = j
        BY DEF EntriesOf, InfoInv, CacheHolds, Distinct
      <3>2. CASE EntriesOf(p) = {}
        BY <3>2, FS_EmptySet
      <3>3. CASE EntriesOf(p) # {}
        <4>1. PICK x \in EntriesOf(p) : EntriesOf(p) = {x}
          BY <3>1, <3>3
        <4> QED BY <4>1, FS_Singleton
      <3> QED BY <3>2, <3>3
    <2>2. Calling("none") => threads = <<>>
      BY DEF Calling, InfoInv, BatchesHold
    <2> QED BY <2>1, <2>2 DEF InfoSound, InfoInv, CacheHolds, Truthful, NothingForgotten
  <1> QED BY <1>1, InfoInitInv, InfoStepInv, PTL DEF InfoSpec

------------------------------------------------------------ (* Together *)
OperationsInv ==
    StartTypeOK /\ ScenarioInv /\ AccessInv /\ DirectoryInv /\ InfoInv

LEMMA OperationsStepInv == OperationsInv /\ [OperationsNext]_<<part, others>> => OperationsInv'
  <1> SUFFICES ASSUME OperationsInv, [OperationsNext]_<<part, others>> PROVE OperationsInv'
    OBVIOUS
  <1>1. /\ [StartNext]_startVars /\ [ScenarioNext]_scenarioVars /\ [AccessNext]_accessVars
        /\ [DirectoryNext]_directoryVars /\ [InfoNext]_infoVars
    BY DEF OperationsNext, others
  <1> QED BY <1>1, TypePreserved, ScenarioStepInv, AccessStepInv, DirectoryStepInv, InfoStepInv
          DEF OperationsInv

(* The states of the operated components are what the models say they can be,  *)
(* for any number of containers, scenarios, processes, devices, keys and      *)
(* products.                                                                *)
THEOREM OperationsTypes == OperationsSpec => []OperationsTypeOK
  <1>1. OperationsInit => OperationsInv
    <2>1. StartInit => StartTypeOK
      BY DEF StartInit, StartTypeOK, Versions
    <2> QED BY <2>1, ScenarioInitInv, AccessInitInv, DirectoryInitInv, InfoInitInv
            DEF OperationsInit, OperationsInv
  <1>2. OperationsInv => OperationsTypeOK
    BY DEF OperationsInv, OperationsTypeOK, ScenarioInv, AccessInv, DirectoryInv, InfoInv
  <1> QED BY <1>1, <1>2, OperationsStepInv, PTL DEF OperationsSpec
=============================================================================
