-------------------------- MODULE ChurnDeliveryProofs --------------------------
(***************************************************************************)
(* What holds of the churn automation for any number of clients and days,   *)
(* any page size and limits, and whatever happens around it how often.      *)
(***************************************************************************)
EXTENDS ChurnDelivery, SqlProofs

-----------------------------------------------------------------------------
(* The invariant, in parts.                                                  *)

Keys    == Days \X Kinds
Partial == UNION {[S -> Receipts] : S \in SUBSET Clients}
Run     == [asOf : Int, revision : Nat]
Job     == [status : Statuses, policy : Nat, run : Nat, release : Nat, allowed : Nat,
            attempts : Nat, delayed : BOOLEAN, receipts : Partial]
Release == [run : Nat, asOf : Int, revision : Nat, native : Nat, schedule : Nat, receiver : Nat,
            valid : BOOLEAN, anchors : UNION {[S -> Int] : S \in SUBSET Clients},
            guards : UNION {[S -> Nat] : S \in SUBSET Clients}]
Script  == [pc : Pcs, job : ({None} \union Days) \X Kinds, page : SUBSET Clients,
            receipts : Partial, pages : 0..PagesPerRun]

WorldInv ==
    /\ today \in Days /\ due \in BOOLEAN /\ moves \in 0..MaxMoves
    /\ source \in [revision : Nat, pending : BOOLEAN]
    /\ bought \in [Clients -> Int] /\ binding \in [Clients -> [revision : Nat, verified : BOOLEAN]]
PolicyInv ==
    /\ native \in [revision : Nat, on : BOOLEAN]
    /\ schedule \in [revision : Nat, approved : BOOLEAN, enabled : BOOLEAN, producer : Nat, receiver : Nat]
    /\ receiver \in [revision : Nat, approved : BOOLEAN, enabled : BOOLEAN, producer : Nat]
RunInv ==
    /\ checkpoint \in Run /\ runs \in Seq(Run) /\ published \in 0..Len(runs)
ReleaseInv ==
    /\ releases \in Seq(Release)
    /\ \A r \in DOMAIN releases : releases[r].run \in DOMAIN runs

(* What receipts say of a release is so at the receiver.                     *)
TaskFor(r, c) == <<c, releases[r].anchors[c]>>
Made(task) == task \in DOMAIN tasks
Said(receipt, task, r) ==
    /\ receipt.decision \in Agreed => Made(task)
    /\ receipt.task => Made(task) /\ (receipt.created <=> tasks[task].release = r)
Tells(receipts, r) ==
    /\ DOMAIN receipts \subseteq DOMAIN releases[r].anchors
    /\ \A c \in DOMAIN receipts : Said(receipts[c], TaskFor(r, c), r)

(* A job has a release exactly when it delivers, has delivered or failed on   *)
(* the way; one that has ended has a receipt for every event, and succeeded   *)
(* if all of them were accepted.                                             *)
Sent   == {"SUCCEEDED", "PARTIAL"}
Closed(j) ==
    /\ DOMAIN j.receipts = DOMAIN releases[j.release].anchors
    /\ j.status = "SUCCEEDED" <=> Accepted(j.receipts) = DOMAIN j.receipts
Sound(j) ==
    /\ j.run \in 0..Len(runs) /\ j.release \in 0..Len(releases)
    /\ j.status \in Sendable \union Sent => j.release # None
    /\ j.release = None => j.receipts = <<>>
    /\ j.release # None =>
          /\ j.status \in Sendable \union Sent \union {"FAILED"}
          /\ j.allowed = Cardinality(DOMAIN releases[j.release].anchors)
          /\ Tells(j.receipts, j.release)
          /\ j.status \in Sent => Closed(j)
JobInv ==
    /\ jobs \in [Keys -> Job \union {NoJob}]
    /\ \A k \in Keys : jobs[k] # NoJob => Sound(jobs[k])

(* The receipts a command carries are true of the release of its job.        *)
Carried(key, receipts) ==
    /\ key \in Keys /\ jobs[key] # NoJob /\ jobs[key].release # None
    /\ Tells(receipts, jobs[key].release)

Calculating == {"calculate", "RUNNING", "SUCCEEDED", "BLOCKED"}
HostInv ==
    /\ host \in Script /\ host.pages < PagesPerRun
    /\ host.pc \in Calculating =>
          host.job \in Keys /\ jobs[host.job] # NoJob /\ jobs[host.job].status \in Calculable
    /\ host.pc \in Working \union {"failing"} => host.job \in Keys /\ jobs[host.job] # NoJob
    /\ host.pc \in {"deliver", "ack"} => Carried(host.job, host.receipts)
OrphanInv ==
    /\ orphan \in Script /\ (orphan # Idle => Carried(orphan.job, orphan.receipts))

(* The tasks made since the last current page are of the page in flight.     *)
LateInv ==
    /\ late \in Nat /\ late <= PageSize
    /\ host.pc = "deliver" =>
          /\ Cardinality(host.page) <= PageSize /\ late <= Cardinality(DOMAIN host.receipts)
          /\ DOMAIN host.receipts \subseteq host.page
          /\ host.page \subseteq DOMAIN releases[jobs[host.job].release].anchors

ChurnInv == WorldInv /\ PolicyInv /\ RunInv /\ ReleaseInv /\ JobInv /\ HostInv /\ OrphanInv /\ LateInv

-----------------------------------------------------------------------------
(* Receipts.                                                                 *)

LEMMA PartialFacts ==
    ASSUME NEW f \in Partial
    PROVE  /\ DOMAIN f \subseteq Clients /\ f = [c \in DOMAIN f |-> f[c]]
           /\ \A c \in DOMAIN f : f[c] \in Receipts
BY DEF Partial

LEMMA IntoPartial ==
    ASSUME NEW f, f = [c \in DOMAIN f |-> f[c]], DOMAIN f \subseteq Clients,
           \A c \in DOMAIN f : f[c] \in Receipts
    PROVE  f \in Partial
<1>1. f \in [DOMAIN f -> Receipts]
  OBVIOUS
<1> QED BY <1>1 DEF Partial

LEMMA NoReceipts == <<>> \in Partial /\ DOMAIN <<>> = {}
<1>1. <<>> \in [{} -> Receipts]
  OBVIOUS
<1> QED BY <1>1 DEF Partial

LEMMA AddedFacts ==
    ASSUME NEW f, NEW g
    PROVE  /\ DOMAIN Added(f, g) = DOMAIN f \union DOMAIN g
           /\ \A k \in DOMAIN f : Added(f, g)[k] = f[k]
           /\ \A k \in DOMAIN g \ DOMAIN f : Added(f, g)[k] = g[k]
           /\ Added(f, g) = [k \in DOMAIN Added(f, g) |-> Added(f, g)[k]]
BY DEF Added

LEMMA AddedPartial ==
    ASSUME NEW f \in Partial, NEW g \in Partial
    PROVE  Added(f, g) \in Partial
<1> DEFINE h == Added(f, g)
<1>1. /\ DOMAIN h = DOMAIN f \union DOMAIN g
      /\ \A k \in DOMAIN f : h[k] = f[k]
      /\ \A k \in DOMAIN g \ DOMAIN f : h[k] = g[k]
      /\ h = [k \in DOMAIN h |-> h[k]]
  BY AddedFacts
<1>2. /\ DOMAIN f \subseteq Clients /\ \A c \in DOMAIN f : f[c] \in Receipts
      /\ DOMAIN g \subseteq Clients /\ \A c \in DOMAIN g : g[c] \in Receipts
  BY PartialFacts
<1> HIDE DEF h
<1>3. DOMAIN h \subseteq Clients /\ \A c \in DOMAIN h : h[c] \in Receipts
  BY <1>1, <1>2
<1>4. h \in Partial
  BY <1>1, <1>3, IntoPartial
<1> QED BY <1>4 DEF h

(* Receipts are added to those of a job only where it has none.              *)
LEMMA AddedTrue ==
    ASSUME NEW f, NEW g, NEW r, Tells(f, r), Tells(g, r)
    PROVE  Tells(Added(f, g), r)
<1>1. /\ DOMAIN Added(f, g) = DOMAIN f \union DOMAIN g
      /\ \A c \in DOMAIN f : Added(f, g)[c] = f[c]
      /\ \A c \in DOMAIN g \ DOMAIN f : Added(f, g)[c] = g[c]
  BY DEF Added
<1> QED BY <1>1 DEF Tells

LEMMA IdleIsIdle == Idle \in Script /\ Idle.pc = "off" /\ Idle.pages = 0
<1>1. PagesPerRun \in Nat \ {0}
  BY ChurnAssumption
<1> QED BY <1>1, NoReceipts DEF Idle, Script, Pcs, Kinds

LEMMA FiniteClients == IsFiniteSet(Clients) /\ \A S \in SUBSET Clients :
                          IsFiniteSet(S) /\ Cardinality(S) \in Nat
<1>1. IsFiniteSet(Clients)
  BY FS_Interval, ChurnAssumption DEF Clients
<1> QED BY <1>1, FS_Subset, FS_CardinalityType

(* A page has no more rows than its limit.                                   *)
LEMMA FirstIsShort ==
    ASSUME NEW S \in SUBSET Clients, NEW limit \in Nat
    PROVE  Cardinality(First(S, limit)) <= limit
<1> DEFINE F == First(S, limit)
<1> DEFINE Mirror == {x \in Nat : \E m \in F : x = NumClients - m}
<1>0. F \subseteq Clients /\ \A m \in F : m \in Int /\ 1 <= m /\ m <= NumClients
  <2>1. F \subseteq S
    BY DEF First
  <2>2. NumClients \in Nat
    BY ChurnAssumption
  <2>3. \A m \in Clients : m \in Int /\ 1 <= m /\ m <= NumClients
    BY <2>2 DEF Clients
  <2> QED BY <2>1, <2>3
<1>1. CASE F = {}
  BY <1>1, FS_EmptySet
<1>2. CASE F # {}
  <2>1. Mirror # {} /\ Mirror \in SUBSET Nat
    BY <1>0, <1>2, ChurnAssumption
  <2>2. PICK x \in Mirror : \A y \in Mirror : x <= y
    <3> HIDE DEF Mirror
    <3> QED BY <2>1, FirstRow
  <2>3. PICK m \in F : x = NumClients - m
    BY <2>2
  <2>4. ASSUME NEW n \in F PROVE n <= m
    <3>1. NumClients - n \in Mirror
      BY <1>0, ChurnAssumption
    <3>2. NumClients - m <= NumClients - n
      BY <2>2, <2>3, <3>1
    <3> QED BY <1>0, <3>2, ChurnAssumption
  <2>5. F \subseteq {n \in S : n <= m}
    BY <2>4 DEF First
  <2>6. Cardinality({n \in S : n <= m}) <= limit
    BY <2>3 DEF First
  <2>7. IsFiniteSet({n \in S : n <= m})
    BY FiniteClients
  <2>8. Cardinality(F) <= Cardinality({n \in S : n <= m})
    BY <2>5, <2>7, FS_Subset
  <2>9. Cardinality(F) \in Nat /\ Cardinality({n \in S : n <= m}) \in Nat
    BY <1>0, FiniteClients
  <2> QED BY <2>6, <2>8, <2>9
<1> QED BY <1>1, <1>2

-----------------------------------------------------------------------------
(* What may change beside the jobs: runs and releases are added, a release    *)
(* keeps its events, a task is never taken back.                             *)

Grows ==
    /\ RunInv /\ RunInv' /\ ReleaseInv /\ ReleaseInv'
    /\ Len(runs) <= Len(runs') /\ Len(releases) <= Len(releases')
    /\ \A r \in 1..Len(releases) : releases'[r].anchors = releases[r].anchors
    /\ DOMAIN tasks \subseteq DOMAIN tasks' /\ \A t \in DOMAIN tasks : tasks'[t] = tasks[t]

LEMMA NothingGrows ==
    ASSUME RunInv, ReleaseInv, UNCHANGED <<runVars, releases, tasks>>
    PROVE  Grows
<1>1. RunInv' /\ ReleaseInv' /\ runs' = runs /\ releases' = releases /\ tasks' = tasks
  BY DEF runVars, RunInv, ReleaseInv
<1>2. Len(runs) \in Nat /\ Len(releases) \in Nat
  BY DEF RunInv, ReleaseInv
<1> QED BY <1>1, <1>2 DEF Grows

LEMMA TellsStays ==
    ASSUME Grows, NEW f, NEW r \in 1..Len(releases), Tells(f, r)
    PROVE  Tells(f, r)'
<1>1. releases'[r].anchors = releases[r].anchors
  BY DEF Grows
<1>2. DOMAIN tasks \subseteq DOMAIN tasks' /\ \A t \in DOMAIN tasks : tasks'[t] = tasks[t]
  BY DEF Grows
<1>3. ASSUME NEW c \in DOMAIN f
      PROVE  Said(f[c], TaskFor(r, c), r)'
  <2>1. Said(f[c], TaskFor(r, c), r)
    BY DEF Tells
  <2>2. TaskFor(r, c)' = TaskFor(r, c)
    BY <1>1 DEF TaskFor
  <2> DEFINE t == TaskFor(r, c)
  <2>3. Made(t) => Made(t)' /\ tasks'[t] = tasks[t]
    BY <1>2, <2>2 DEF Made
  <2> HIDE DEF t
  <2>4. t' = t
    BY <2>2 DEF t
  <2>5. Said(f[c], t, r)
    BY <2>1 DEF t
  <2>6. Said(f[c], t, r)'
    BY <2>3, <2>4, <2>5 DEF Said
  <2> QED BY <2>6 DEF t
<1>4. DOMAIN f \subseteq DOMAIN releases[r].anchors
  BY DEF Tells
<1> QED BY <1>1, <1>3, <1>4 DEF Tells

LEMMA SoundStays ==
    ASSUME Grows, NEW j \in Job, Sound(j)
    PROVE  Sound(j)'
<1>1. Len(runs) \in Nat /\ Len(runs') \in Nat /\ Len(runs) <= Len(runs')
  BY DEF Grows, RunInv
<1>2. Len(releases) \in Nat /\ Len(releases') \in Nat /\ Len(releases) <= Len(releases')
  BY DEF Grows, ReleaseInv
<1>3. j.run \in 0..Len(runs') /\ j.release \in 0..Len(releases')
  BY <1>1, <1>2 DEF Sound
<1>4. ASSUME j.release # None
      PROVE  /\ Tells(j.receipts, j.release)'
             /\ releases'[j.release].anchors = releases[j.release].anchors
             /\ Closed(j) => Closed(j)'
  <2>1. j.release \in 1..Len(releases) /\ Tells(j.receipts, j.release)
    BY <1>2, <1>4 DEF Sound, None
  <2>2. releases'[j.release].anchors = releases[j.release].anchors
    BY <2>1 DEF Grows
  <2>3. Tells(j.receipts, j.release)'
    BY <2>1, TellsStays
  <2>4. Closed(j) => Closed(j)'
    BY <2>2 DEF Closed
  <2> QED BY <2>2, <2>3, <2>4
<1> QED BY <1>3, <1>4 DEF Sound

(* What a command carries stays true of the release of its job.              *)
CarriedStays == \A key \in Keys, f \in Partial : Carried(key, f) => Carried(key, f)'

(* Nothing happens to a job beside the host: none is taken away, one that is  *)
(* to be calculated still is, one that has a release keeps it.               *)
Steady ==
    \A k \in Keys : jobs[k] # NoJob =>
        /\ jobs'[k] # NoJob
        /\ jobs[k].status \in Calculable => jobs'[k].status \in Calculable
        /\ jobs[k].release # None => jobs'[k].release = jobs[k].release

(* TerminalStays of a step.                                                  *)
Final ==
    \A k \in DOMAIN jobs : jobs[k].status \in Terminal =>
        jobs'[k].status = jobs[k].status
        /\ (jobs[k].status # "DIAGNOSED" => jobs'[k].receipts = jobs[k].receipts)

LEMMA CarriedSound ==
    ASSUME JobInv, NEW key, NEW f, Carried(key, f)
    PROVE  jobs[key] \in Job /\ Sound(jobs[key]) /\ jobs[key].release \in 1..Len(releases)
<1>1. jobs[key] \in Job /\ Sound(jobs[key]) /\ jobs[key].release # None
  BY DEF JobInv, Carried
<1>2. jobs[key].release \in 0..Len(releases)
  BY <1>1 DEF Sound
<1>3. jobs[key].release \in Nat
  BY <1>1 DEF Job
<1> QED BY <1>1, <1>2, <1>3 DEF None

LEMMA JobsStay ==
    ASSUME Grows, JobInv, jobs' = jobs
    PROVE  JobInv' /\ CarriedStays /\ Steady /\ Final
<1>1. ASSUME NEW k \in Keys, jobs[k] # NoJob PROVE Sound(jobs[k])'
  <2>1. PICK j \in Job : j = jobs[k]
    BY <1>1 DEF JobInv
  <2>2. Sound(j)'
    BY <1>1, <2>1, SoundStays DEF JobInv
  <2>3. j = jobs'[k]
    BY <2>1
  <2> QED BY <2>2, <2>3 DEF Sound, Closed
<1>2. JobInv'
  BY <1>1 DEF JobInv
<1>3. ASSUME NEW key \in Keys, NEW f \in Partial, Carried(key, f) PROVE Carried(key, f)'
  <2>1. PICK r \in 1..Len(releases) : r = jobs[key].release
    BY <1>3, CarriedSound
  <2>2. Tells(f, r)'
    BY <1>3, <2>1, TellsStays DEF Carried
  <2>3. r = jobs'[key].release
    BY <2>1
  <2> QED BY <1>3, <2>1, <2>2, <2>3 DEF Carried, Tells, TaskFor, Said, Made
<1> QED BY <1>2, <1>3 DEF CarriedStays, Steady, Final

(* One job changes.                                                          *)
Becomes(key, j) ==
    /\ key \in Keys /\ j \in Job /\ jobs' = [jobs EXCEPT ![key] = j]
    /\ jobs[key] # NoJob =>
          /\ jobs[key].release # None => j.release = jobs[key].release
          /\ jobs[key].status \in Terminal =>
                /\ j.status = jobs[key].status
                /\ j.status # "DIAGNOSED" => j.receipts = jobs[key].receipts

LEMMA JobIsJob ==
    ASSUME NEW j \in Job PROVE j # NoJob /\ j.status # "none"
<1>1. j.status \in Statuses
  BY DEF Job
<1>2. j.status # "none"
  BY <1>1 DEF Statuses, Calculable, Releasable, Sendable, Terminal
<1> QED BY <1>2 DEF NoJob

LEMMA JobChanges ==
    ASSUME Grows, JobInv, NEW key, NEW j, Becomes(key, j), Sound(j)'
    PROVE  /\ JobInv' /\ CarriedStays /\ Final
           /\ jobs'[key] = j /\ j # NoJob
           /\ \A k \in Keys : k # key => jobs'[k] = jobs[k]
           /\ (jobs[key] # NoJob /\ jobs[key].status \in Calculable => j.status \in Calculable) => Steady
<1>0. /\ jobs'[key] = j /\ \A k \in Keys : k # key => jobs'[k] = jobs[k]
      /\ jobs' \in [Keys -> Job \union {NoJob}]
      /\ key \in Keys /\ j \in Job
  BY DEF Becomes, JobInv
<1>1. j # NoJob
  BY <1>0, JobIsJob
<1>2. ASSUME NEW k \in Keys, jobs'[k] # NoJob PROVE Sound(jobs[k])'
  <2>1. CASE k = key
    BY <1>0, <2>1 DEF Sound, Closed
  <2>2. CASE k # key
    <3>1. PICK i \in Job : i = jobs[k]
      BY <1>0, <1>2, <2>2 DEF JobInv
    <3>2. Sound(i)
      BY <1>0, <1>2, <2>2, <3>1 DEF JobInv
    <3>3. Sound(i)'
      BY <3>2, SoundStays
    <3>4. i = jobs'[k]
      BY <1>0, <2>2, <3>1
    <3> QED BY <3>3, <3>4 DEF Sound, Closed
  <2> QED BY <2>1, <2>2
<1>3. JobInv'
  BY <1>0, <1>2 DEF JobInv
<1>4. ASSUME NEW k \in Keys, NEW f \in Partial, Carried(k, f) PROVE Carried(k, f)'
  <2>1. PICK r \in 1..Len(releases) : r = jobs[k].release
    BY <1>4, CarriedSound
  <2>2. Tells(f, r)'
    BY <1>4, <2>1, TellsStays DEF Carried
  <2>3. jobs'[k] # NoJob /\ r = jobs'[k].release
    BY <1>0, <1>1, <1>4, <2>1 DEF Carried, Becomes
  <2>4. r # None
    BY <1>4, <2>1 DEF Carried
  <2> QED BY <1>4, <2>2, <2>3, <2>4 DEF Carried, Tells, TaskFor, Said, Made
<1>5. Final
  <2>1. DOMAIN jobs = Keys
    BY DEF JobInv
  <2>2. jobs[key].status \in Terminal => jobs[key] # NoJob
    BY DEF NoJob, Terminal
  <2> QED BY <1>0, <2>1, <2>2 DEF Final, Becomes
<1>6. (jobs[key] # NoJob /\ jobs[key].status \in Calculable => j.status \in Calculable) => Steady
  BY <1>0, <1>1 DEF Steady, Becomes
<1> QED BY <1>0, <1>1, <1>3, <1>4, <1>5, <1>6 DEF CarriedStays

(* The host and an orphaned command are left alone.                          *)
LEMMA HostStays ==
    ASSUME HostInv, CarriedStays, Steady, host' = host
    PROVE  HostInv'
<1>1. host \in Script /\ host.receipts \in Partial
  BY DEF HostInv, Script
<1>2. host.pc \in {"deliver", "ack"} => Carried(host.job, host.receipts)'
  <2>1. ASSUME Carried(host.job, host.receipts) PROVE Carried(host.job, host.receipts)'
    <3>1. PICK key, f : key = host.job /\ f = host.receipts
      OBVIOUS
    <3>2. key \in Keys /\ f \in Partial /\ Carried(key, f)
      BY <1>1, <2>1, <3>1 DEF Carried
    <3>3. Carried(key, f)'
      BY <3>2 DEF CarriedStays
    <3>4. key = host'.job /\ f = host'.receipts
      BY <3>1
    <3> QED BY <3>3, <3>4 DEF Carried, Tells, TaskFor, Said, Made
  <2> QED BY <2>1 DEF HostInv
<1>3. host.pc \in Calculating =>
          host.job \in Keys /\ jobs'[host.job] # NoJob /\ jobs'[host.job].status \in Calculable
  BY DEF HostInv, Steady
<1>4. host.pc \in Working \union {"failing"} => host.job \in Keys /\ jobs'[host.job] # NoJob
  BY DEF HostInv, Steady
<1> QED BY <1>1, <1>2, <1>3, <1>4 DEF HostInv

LEMMA OrphanStays ==
    ASSUME OrphanInv, CarriedStays, orphan' = orphan
    PROVE  OrphanInv'
<1>1. orphan \in Script /\ orphan.receipts \in Partial
  BY DEF OrphanInv, Script
<1>2. ASSUME orphan # Idle PROVE Carried(orphan.job, orphan.receipts)'
  <2>1. PICK key, f : key = orphan.job /\ f = orphan.receipts
    OBVIOUS
  <2>2. key \in Keys /\ f \in Partial /\ Carried(key, f)
    BY <1>1, <1>2, <2>1 DEF Carried, OrphanInv
  <2>3. Carried(key, f)'
    BY <2>2 DEF CarriedStays
  <2>4. key = orphan'.job /\ f = orphan'.receipts
    BY <2>1
  <2> QED BY <2>3, <2>4 DEF Carried, Tells, TaskFor, Said, Made
<1>3. orphan' # Idle => orphan # Idle
  OBVIOUS
<1> QED BY <1>1, <1>2, <1>3 DEF OrphanInv

LEMMA LateStays ==
    ASSUME Grows, JobInv, HostInv, LateInv, Steady, host' = host, late' = late
    PROVE  LateInv'
<1>1. ASSUME host.pc = "deliver"
      PROVE  releases'[jobs'[host.job].release].anchors = releases[jobs[host.job].release].anchors
  <2>1. Carried(host.job, host.receipts)
    BY <1>1 DEF HostInv
  <2>2. jobs[host.job].release \in 1..Len(releases)
    BY <2>1, CarriedSound
  <2>3. jobs'[host.job].release = jobs[host.job].release
    BY <2>1 DEF Carried, Steady
  <2> QED BY <2>2, <2>3 DEF Grows
<1> QED BY <1>1 DEF LateInv

(* The host and its orphan are not concerned, and no job changes.            *)
LEMMA Beside ==
    ASSUME ChurnInv, Grows, WorldInv', PolicyInv', UNCHANGED <<jobs, host, orphan, late>>
    PROVE  ChurnInv' /\ Final
<1>1. JobInv' /\ CarriedStays /\ Steady /\ Final
  BY JobsStay DEF ChurnInv
<1>2. HostInv' /\ OrphanInv' /\ LateInv'
  BY <1>1, HostStays, OrphanStays, LateStays DEF ChurnInv
<1>3. RunInv' /\ ReleaseInv'
  BY DEF Grows
<1> QED BY <1>1, <1>2, <1>3 DEF ChurnInv

(* A job changes beside the host, in a way that is not the host's business.  *)
LEMMA BesideJob ==
    ASSUME ChurnInv, Grows, WorldInv', PolicyInv', UNCHANGED <<host, late>>,
           NEW key, NEW j, Becomes(key, j), Sound(j)',
           jobs[key] # NoJob /\ jobs[key].status \in Calculable => j.status \in Calculable,
           orphan' = orphan \/ orphan' = Idle
    PROVE  ChurnInv' /\ Final
<1>1. JobInv' /\ CarriedStays /\ Final /\ Steady
  BY JobChanges DEF ChurnInv
<1>2. HostInv' /\ LateInv'
  BY <1>1, HostStays, LateStays DEF ChurnInv
<1>3. OrphanInv'
  <2>1. CASE orphan' = orphan
    BY <1>1, <2>1, OrphanStays DEF ChurnInv
  <2>2. CASE orphan' = Idle
    BY <2>2, IdleIsIdle DEF OrphanInv
  <2> QED BY <2>1, <2>2
<1>4. RunInv' /\ ReleaseInv'
  BY DEF Grows
<1> QED BY <1>1, <1>2, <1>3, <1>4 DEF ChurnInv

-----------------------------------------------------------------------------
(* The world and the operators.                                              *)

LEMMA Moves == ASSUME WorldInv, Move PROVE moves' \in 0..MaxMoves
BY ChurnAssumption DEF WorldInv, Move

LEMMA WorldStep ==
    ASSUME ChurnInv, PassDay \/ BecomeDue \/ StartImport \/ FinishImport \/ ReviewIdentity
    PROVE  ChurnInv' /\ Final
<1>0. WorldInv /\ RunInv /\ ReleaseInv /\ PolicyInv
  BY DEF ChurnInv
<1>1. UNCHANGED <<jobs, host, orphan, late>> /\ UNCHANGED <<runVars, releases, tasks>>
      /\ UNCHANGED policyVars
  BY DEF PassDay, BecomeDue, StartImport, FinishImport, ReviewIdentity
<1>2. Grows
  BY <1>0, <1>1, NothingGrows
<1>3. PolicyInv'
  BY <1>0, <1>1 DEF PolicyInv, policyVars
<1>4. WorldInv'
  <2>0. today \in Int /\ today - 1 \in Int
    BY <1>0, ChurnAssumption DEF WorldInv, Days
  <2>1. CASE PassDay
    <3>1. today + 1 \in Days /\ FALSE \in BOOLEAN
      BY <1>0, <2>1, ChurnAssumption DEF WorldInv, PassDay, Days
    <3>2. today' \in Days /\ due' \in BOOLEAN /\ moves' \in 0..MaxMoves
      BY <1>0, <2>1, <3>1, Moves DEF PassDay
    <3>3. UNCHANGED <<source, bought, binding>>
      BY <2>1 DEF PassDay
    <3> QED BY <1>0, <3>2, <3>3 DEF WorldInv
  <2>2. CASE BecomeDue
    BY <1>0, <2>2 DEF WorldInv, BecomeDue
  <2>3. CASE StartImport
    BY <1>0, <2>3, Moves DEF WorldInv, StartImport
  <2>4. CASE FinishImport
    BY <1>0, <2>0, <2>4 DEF WorldInv, FinishImport
  <2>5. CASE ReviewIdentity
    <3>1. PICK c \in Clients, v \in BOOLEAN :
             binding' = [binding EXCEPT ![c] = [revision |-> @.revision + 1, verified |-> v]]
      BY <2>5 DEF ReviewIdentity
    <3>2. binding' \in [Clients -> [revision : Nat, verified : BOOLEAN]]
      BY <1>0, <3>1 DEF WorldInv
    <3> QED BY <1>0, <2>5, <3>2, Moves DEF WorldInv, ReviewIdentity
  <2> QED BY <2>1, <2>2, <2>3, <2>4, <2>5
<1> QED BY <1>1, <1>2, <1>3, <1>4, Beside

LEMMA PolicyStep ==
    ASSUME ChurnInv,
           NativePolicy \/ DraftSchedule \/ ApproveSchedule \/ EnableSchedule \/ DisableSchedule
           \/ ReceiverPolicy
    PROVE  ChurnInv' /\ Final
<1>0. WorldInv /\ RunInv /\ ReleaseInv /\ PolicyInv
  BY DEF ChurnInv
<1>1. Operators /\ Move
  BY DEF NativePolicy, DraftSchedule, ApproveSchedule, EnableSchedule, DisableSchedule, ReceiverPolicy
<1>2. UNCHANGED <<jobs, host, orphan, late>> /\ UNCHANGED <<runVars, releases, tasks>>
      /\ UNCHANGED worldVars
  BY <1>1 DEF Operators
<1>3. Grows
  BY <1>0, <1>2, NothingGrows
<1>4. WorldInv'
  BY <1>0, <1>1, <1>2, Moves DEF WorldInv, worldVars
<1>5. PolicyInv'
  <2>1. CASE NativePolicy
    <3>1. native.revision + 1 \in Nat /\ UNCHANGED <<schedule, receiver>>
      BY <1>0, <2>1 DEF PolicyInv, NativePolicy
    <3>2. \E b \in BOOLEAN : native' = [revision |-> native.revision + 1, on |-> b]
      BY <2>1 DEF NativePolicy
    <3>3. native' \in [revision : Nat, on : BOOLEAN]
      BY <3>1, <3>2
    <3> QED BY <1>0, <3>1, <3>3 DEF PolicyInv
  <2>2. CASE DraftSchedule
    BY <1>0, <2>2 DEF PolicyInv, DraftSchedule
  <2>3. CASE ApproveSchedule
    <3>1. schedule.revision + 1 \in Nat /\ UNCHANGED <<native, receiver>>
      BY <1>0, <2>3 DEF PolicyInv, ApproveSchedule
    <3>2. schedule' = [schedule EXCEPT !.revision = schedule.revision + 1, !.approved = TRUE,
                                       !.enabled = FALSE]
      BY <2>3 DEF ApproveSchedule
    <3>3. schedule' \in [revision : Nat, approved : BOOLEAN, enabled : BOOLEAN, producer : Nat,
                         receiver : Nat]
      BY <1>0, <3>1, <3>2 DEF PolicyInv
    <3> QED BY <1>0, <3>1, <3>3 DEF PolicyInv
  <2>4. CASE EnableSchedule
    BY <1>0, <2>4 DEF PolicyInv, EnableSchedule
  <2>5. CASE DisableSchedule
    BY <1>0, <2>5 DEF PolicyInv, DisableSchedule
  <2>6. CASE ReceiverPolicy
    <3> DEFINE R == [revision : Nat, approved : BOOLEAN, enabled : BOOLEAN, producer : Nat]
    <3>1. /\ receiver \in R /\ schedule.revision \in Nat /\ receiver.revision + 1 \in Nat
          /\ UNCHANGED <<native, schedule>>
      BY <1>0, <2>6 DEF PolicyInv, ReceiverPolicy
    <3>2. ASSUME receiver' = [revision |-> receiver.revision + 1, approved |-> FALSE, enabled |-> FALSE,
                              producer |-> schedule.revision]
          PROVE  receiver' \in R
      BY <3>1, <3>2
    <3>3. ASSUME receiver' = [receiver EXCEPT !.revision = receiver.revision + 1, !.approved = TRUE,
                                              !.enabled = FALSE]
          PROVE  receiver' \in R
      BY <3>1, <3>3
    <3>4. ASSUME receiver' = [receiver EXCEPT !.enabled = ~receiver.enabled]
          PROVE  receiver' \in R
      <4>1. (~receiver.enabled) \in BOOLEAN
        OBVIOUS
      <4> QED BY <3>1, <3>4, <4>1
    <3>5. receiver' \in R
      BY <2>6, <3>2, <3>3, <3>4 DEF ReceiverPolicy
    <3> QED BY <1>0, <3>1, <3>5 DEF PolicyInv
  <2> QED BY <2>1, <2>2, <2>3, <2>4, <2>5, <2>6
     DEF NativePolicy, DraftSchedule, ApproveSchedule, EnableSchedule, DisableSchedule, ReceiverPolicy
<1> QED BY <1>2, <1>3, <1>4, <1>5, Beside

LEMMA ExpireStep ==
    ASSUME ChurnInv, Expire
    PROVE  ChurnInv' /\ Final
<1>0. WorldInv /\ RunInv /\ ReleaseInv /\ PolicyInv
  BY DEF ChurnInv
<1>1. UNCHANGED <<jobs, host, orphan, late>> /\ UNCHANGED <<runVars, tasks>>
      /\ UNCHANGED worldVars /\ UNCHANGED policyVars /\ Move
  BY DEF Expire
<1>2. PICK x \in DOMAIN releases : releases' = [releases EXCEPT ![x].valid = FALSE]
  BY DEF Expire
<1>3. /\ releases' \in Seq(Release) /\ Len(releases') = Len(releases)
      /\ \A r \in DOMAIN releases : releases'[r].run = releases[r].run
                                   /\ releases'[r].anchors = releases[r].anchors
  <2>1. releases[x] \in Release /\ releases \in Seq(Release)
    BY <1>0, <1>2 DEF ReleaseInv
  <2>2. [releases[x] EXCEPT !.valid = FALSE] \in Release
    BY <2>1 DEF Release
  <2>3. /\ [releases[x] EXCEPT !.valid = FALSE].run = releases[x].run
        /\ [releases[x] EXCEPT !.valid = FALSE].anchors = releases[x].anchors
    BY <2>1 DEF Release
  <2>4. releases' = [releases EXCEPT ![x] = [releases[x] EXCEPT !.valid = FALSE]]
    BY <1>2
  <2> DEFINE y == [releases[x] EXCEPT !.valid = FALSE]
  <2> HIDE DEF y
  <2>5. releases' = [releases EXCEPT ![x] = y] /\ y \in Release
    BY <2>2, <2>4 DEF y
  <2>6. releases' \in Seq(Release) /\ Len(releases') = Len(releases)
    BY <2>1, <2>5
  <2>7. \A r \in DOMAIN releases : releases'[r] = IF r = x THEN y ELSE releases[r]
    BY <2>1, <2>5
  <2>8. y.run = releases[x].run /\ y.anchors = releases[x].anchors
    BY <2>3 DEF y
  <2> QED BY <2>6, <2>7, <2>8
<1>4. RunInv' /\ runs' = runs /\ tasks' = tasks /\ Len(runs) \in Nat /\ Len(releases) \in Nat
  BY <1>0, <1>1 DEF RunInv, runVars, ReleaseInv
<1>5. ReleaseInv'
  BY <1>0, <1>3, <1>4 DEF ReleaseInv
<1>6. Grows
  BY <1>0, <1>3, <1>4, <1>5 DEF Grows
<1>7. WorldInv' /\ PolicyInv'
  BY <1>0, <1>1, Moves DEF WorldInv, worldVars, PolicyInv, policyVars
<1> QED BY <1>1, <1>6, <1>7, Beside

LEMMA NewReleaseFacts ==
    ASSUME WorldInv, PolicyInv, RunInv, NEW r \in 1..Len(runs), NEW policy \in Nat
    PROVE  /\ NewRelease(r, policy) \in Release /\ NewRelease(r, policy).run = r
           /\ DOMAIN NewRelease(r, policy).anchors = Ready(runs[r])
           /\ Ready(runs[r]) \in SUBSET Clients
<1>1. runs[r] \in Run /\ r \in Nat
  BY DEF RunInv
<1>2. runs[r].asOf \in Int /\ runs[r].revision \in Nat
  BY <1>1 DEF Run
<1>3. native.revision \in Nat /\ schedule.receiver \in Nat
  BY DEF PolicyInv
<1> DEFINE S == Ready(runs[r])
<1>4. S \in SUBSET Clients
  BY DEF Ready, AtRisk
<1> HIDE DEF S
<1>5. [c \in S |-> bought[c]] \in [S -> Int] /\ [c \in S |-> binding[c].revision] \in [S -> Nat]
  BY <1>4 DEF WorldInv
<1> DEFINE a == [c \in S |-> bought[c]]
           g == [c \in S |-> binding[c].revision]
<1>6. /\ a \in UNION {[T -> Int] : T \in SUBSET Clients}
      /\ g \in UNION {[T -> Nat] : T \in SUBSET Clients}
      /\ DOMAIN a = S
  BY <1>4, <1>5
<1>7. NewRelease(r, policy) =
        [run |-> r, asOf |-> runs[r].asOf, revision |-> runs[r].revision, native |-> native.revision,
         schedule |-> policy, receiver |-> schedule.receiver, valid |-> TRUE, anchors |-> a, guards |-> g]
  BY DEF NewRelease, S
<1> HIDE DEF a, g
<1>8. NewRelease(r, policy) \in Release
  BY <1>1, <1>2, <1>3, <1>6, <1>7 DEF Release
<1> QED BY <1>4, <1>6, <1>7, <1>8 DEF S

LEMMA ReleaseAdded ==
    ASSUME RunInv, ReleaseInv, NEW x \in Release, x.run \in DOMAIN runs,
           releases' = Append(releases, x), UNCHANGED <<runVars, tasks>>
    PROVE  /\ Grows /\ Len(releases') = Len(releases) + 1
           /\ Len(releases) \in Nat /\ releases'[Len(releases) + 1] = x
<1>1. /\ releases' \in Seq(Release) /\ Len(releases') = Len(releases) + 1 /\ Len(releases) \in Nat
      /\ \A r \in 1..Len(releases) : releases'[r] = releases[r]
      /\ releases'[Len(releases) + 1] = x
      /\ DOMAIN releases = 1..Len(releases) /\ DOMAIN releases' = 1..(Len(releases) + 1)
  BY DEF ReleaseInv
<1>2. RunInv' /\ runs' = runs /\ tasks' = tasks /\ Len(runs) \in Nat
  BY DEF RunInv, runVars
<1>3. ReleaseInv'
  BY <1>1, <1>2 DEF ReleaseInv
<1> QED BY <1>1, <1>2, <1>3 DEF Grows

LEMMA ByHandStep ==
    ASSUME ChurnInv, ReleaseByHand
    PROVE  ChurnInv' /\ Final
<1>0. WorldInv /\ RunInv /\ ReleaseInv /\ PolicyInv
  BY DEF ChurnInv
<1>1. UNCHANGED <<jobs, host, orphan, late>> /\ UNCHANGED <<runVars, tasks>>
      /\ UNCHANGED worldVars /\ UNCHANGED policyVars /\ Move
  BY DEF ReleaseByHand
<1>2. published \in 1..Len(runs) /\ releases' = Append(releases, NewRelease(published, None))
  BY <1>0 DEF ReleaseByHand, RunInv, None
<1>3. None \in Nat
  BY DEF None
<1>4. /\ NewRelease(published, None) \in Release
      /\ NewRelease(published, None).run = published
  BY <1>0, <1>2, <1>3, NewReleaseFacts
<1>5. published \in DOMAIN runs
  BY <1>0, <1>2 DEF RunInv
<1>6. Grows
  BY <1>0, <1>1, <1>2, <1>4, <1>5, ReleaseAdded
<1>7. WorldInv' /\ PolicyInv'
  BY <1>0, <1>1, Moves DEF WorldInv, worldVars, PolicyInv, policyVars
<1> QED BY <1>1, <1>6, <1>7, Beside

-----------------------------------------------------------------------------
(* What becomes of a job.                                                    *)

LEMMA NewJobSound ==
    ASSUME RunInv, ReleaseInv, NEW revision \in Nat
    PROVE  /\ NewJob(revision) \in Job /\ Sound(NewJob(revision))
           /\ NewJob(revision).status = "QUEUED"
<1>1. 0 \in 0..Len(runs) /\ 0 \in 0..Len(releases)
  BY DEF RunInv, ReleaseInv
<1>2. NewJob(revision) \in Job
  BY NoReceipts DEF NewJob, Job, None, Statuses, Calculable
<1>3. Sound(NewJob(revision))
  BY <1>1 DEF NewJob, Sound, None, Sendable, Sent
<1> QED BY <1>2, <1>3 DEF NewJob

(* Its status changes, and what belongs to its release stays.                *)
LEMMA JobVariant ==
    ASSUME NEW i \in Job, Sound(i), NEW j \in Job,
           j.run \in 0..Len(runs), j.release = i.release, j.receipts = i.receipts,
           j.allowed = i.allowed,
           \/ j.status = i.status
           \/ i.release # None /\ j.status \in Sendable \union {"FAILED"}
           \/ i.release = None /\ j.status \notin Sendable \union Sent
    PROVE  Sound(j)
<1>1. \A s \in Sendable \union {"FAILED"} : s \notin Sent
  BY DEF Sendable, Sent
<1>2. CASE j.status = i.status
  BY <1>2 DEF Sound, Closed
<1>3. CASE i.release # None /\ j.status \in Sendable \union {"FAILED"}
  BY <1>1, <1>3 DEF Sound
<1>4. CASE i.release = None /\ j.status \notin Sendable \union Sent
  BY <1>4 DEF Sound
<1> QED BY <1>2, <1>3, <1>4

LEMMA Apart ==
    /\ Calculable \cap Terminal = {} /\ Sendable \cap Terminal = {} /\ Releasable \cap Terminal = {}
    /\ Sent = Terminal \ {"DIAGNOSED"} /\ "FAILED" \notin Terminal
    /\ Sendable \cap Calculable = {} /\ Sent \cap Calculable = {} /\ "FAILED" \notin Calculable
    /\ "BLOCKED" \notin Terminal \union Calculable
    /\ Releasable \cap (Sendable \union Sent \union {"FAILED"}) = {}
    /\ Calculable \cap (Sendable \union Sent \union {"FAILED"}) = {}
BY DEF Calculable, Terminal, Sendable, Releasable, Sent

LEMMA StatusesAre ==
    /\ {"FAILED"} \subseteq Statuses /\ Sendable \subseteq Statuses /\ Terminal \subseteq Statuses
    /\ Calculable \subseteq Statuses /\ Releasable \subseteq Statuses
    /\ "none" \notin Statuses
BY DEF Statuses, Calculable, Terminal, Sendable, Releasable

LEMMA DiagnoseStep ==
    ASSUME ChurnInv, Diagnose
    PROVE  ChurnInv' /\ Final
<1>0. WorldInv /\ RunInv /\ ReleaseInv /\ PolicyInv /\ JobInv
  BY DEF ChurnInv
<1>1. UNCHANGED <<host, orphan, late>> /\ UNCHANGED <<runVars, releases, tasks>>
      /\ UNCHANGED worldVars /\ UNCHANGED policyVars /\ Move
  BY DEF Diagnose
<1>2. Grows
  BY <1>0, <1>1, NothingGrows
<1>3. WorldInv' /\ PolicyInv'
  BY <1>0, <1>1, Moves DEF WorldInv, worldVars, PolicyInv, policyVars
<1>4. PICK key, j : key = <<today, "diagnostic">> /\ j = NewJob(schedule.revision)
  OBVIOUS
<1>5. key \in Keys
  BY <1>0, <1>4 DEF WorldInv, Keys, Kinds
<1>6. schedule.revision \in Nat
  BY <1>0 DEF PolicyInv
<1>7. j \in Job /\ Sound(j)
  BY <1>0, <1>4, <1>6, NewJobSound
<1>8. Sound(j)'
  BY <1>2, <1>7, SoundStays
<1>9. Becomes(key, j) /\ jobs[key] = NoJob
  BY <1>4, <1>5, <1>7 DEF Becomes, Diagnose
<1> QED BY <1>1, <1>2, <1>3, <1>8, <1>9, BesideJob

LEMMA RetryStep ==
    ASSUME ChurnInv, Retry
    PROVE  ChurnInv' /\ Final
<1>0. WorldInv /\ RunInv /\ ReleaseInv /\ PolicyInv /\ JobInv
  BY DEF ChurnInv
<1>1. UNCHANGED <<host, orphan, late>> /\ UNCHANGED <<runVars, releases, tasks>>
      /\ UNCHANGED worldVars /\ UNCHANGED policyVars /\ Move
  BY DEF Retry
<1>2. Grows
  BY <1>0, <1>1, NothingGrows
<1>3. WorldInv' /\ PolicyInv'
  BY <1>0, <1>1, Moves DEF WorldInv, worldVars, PolicyInv, policyVars
<1>4. PICK kind \in Kinds :
         /\ jobs[Key(kind)].status \in {"FAILED", "BLOCKED"}
         /\ jobs' = [jobs EXCEPT ![Key(kind)] = [jobs[Key(kind)] EXCEPT !.attempts = 0, !.delayed = FALSE,
               !.status = IF jobs[Key(kind)].release = None THEN "QUEUED" ELSE "RELEASED"]]
  BY DEF Retry
<1>5. PICK key, i : key = Key(kind) /\ i = jobs[key]
  OBVIOUS
<1>6. key \in Keys
  BY <1>0, <1>5 DEF WorldInv, Keys, Key
<1>7. i \in Job /\ Sound(i) /\ i.status \in {"FAILED", "BLOCKED"}
  BY <1>0, <1>4, <1>5, <1>6 DEF JobInv, NoJob
<1>8. PICK status \in Statuses : status = IF i.release = None THEN "QUEUED" ELSE "RELEASED"
  BY DEF Statuses, Calculable, Sendable
<1>9. PICK j : j = [i EXCEPT !.attempts = 0, !.delayed = FALSE, !.status = status]
  OBVIOUS
<1>10. /\ j \in Job /\ j.run = i.run /\ j.release = i.release /\ j.receipts = i.receipts
       /\ j.allowed = i.allowed /\ j.status = status
  BY <1>7, <1>8, <1>9 DEF Job
<1>11. jobs' = [jobs EXCEPT ![key] = j]
  BY <1>4, <1>5, <1>8, <1>9
<1>12. Sound(j)
  <2>1. CASE i.release = None
    <3>1. j.status \notin Sendable \union Sent
      BY <1>8, <1>10, <2>1 DEF Sendable, Sent
    <3> QED BY <1>7, <1>10, <2>1, <3>1, JobVariant DEF Sound
  <2>2. CASE i.release # None
    <3>1. j.status \in Sendable
      BY <1>8, <1>10, <2>2 DEF Sendable
    <3> QED BY <1>7, <1>10, <2>2, <3>1, JobVariant DEF Sound
  <2> QED BY <2>1, <2>2
<1>13. Sound(j)'
  BY <1>2, <1>10, <1>12, SoundStays
<1>14. Becomes(key, j)
  BY <1>5, <1>6, <1>7, <1>10, <1>11, Apart DEF Becomes
<1>15. jobs[key].status \notin Calculable
  BY <1>5, <1>7, Apart
<1> QED BY <1>1, <1>2, <1>3, <1>13, <1>14, <1>15, BesideJob

LEMMA DelayStep ==
    ASSUME ChurnInv, DelayPasses
    PROVE  ChurnInv' /\ Final
<1>0. WorldInv /\ RunInv /\ ReleaseInv /\ PolicyInv /\ JobInv
  BY DEF ChurnInv
<1>1. UNCHANGED <<host, orphan, late>> /\ UNCHANGED <<runVars, releases, tasks>>
      /\ UNCHANGED worldVars /\ UNCHANGED policyVars /\ moves' = moves
  BY DEF DelayPasses
<1>2. Grows
  BY <1>0, <1>1, NothingGrows
<1>3. WorldInv' /\ PolicyInv'
  BY <1>0, <1>1 DEF WorldInv, worldVars, PolicyInv, policyVars
<1>4. PICK key \in DOMAIN jobs : jobs[key] # NoJob /\ jobs' = [jobs EXCEPT ![key].delayed = FALSE]
  BY DEF DelayPasses
<1>5. PICK i : i = jobs[key]
  OBVIOUS
<1>6. key \in Keys
  BY <1>0, <1>4 DEF JobInv
<1>7. i \in Job /\ Sound(i)
  BY <1>0, <1>4, <1>5, <1>6 DEF JobInv
<1>8. PICK j : j = [i EXCEPT !.delayed = FALSE]
  OBVIOUS
<1>9. /\ j \in Job /\ j.run = i.run /\ j.release = i.release /\ j.receipts = i.receipts
      /\ j.allowed = i.allowed /\ j.status = i.status
  BY <1>7, <1>8 DEF Job
<1>10. jobs' = [jobs EXCEPT ![key] = j]
  BY <1>4, <1>5, <1>8
<1>11. Sound(j)
  BY <1>7, <1>9, JobVariant DEF Sound
<1>12. Sound(j)'
  BY <1>2, <1>9, <1>11, SoundStays
<1>13. Becomes(key, j)
  BY <1>5, <1>6, <1>9, <1>10 DEF Becomes
<1> QED BY <1>1, <1>2, <1>3, <1>5, <1>9, <1>12, <1>13, BesideJob

(* An acknowledgement adds to a job of its release what is true of it, and    *)
(* changes nothing of one that has ended.                                    *)
LEMMA AcknowledgedJob ==
    ASSUME ReleaseInv, JobInv, NEW key, NEW f \in Partial, Carried(key, f)
    PROVE  \E j \in Job :
             /\ Acknowledged(key, f) = [jobs EXCEPT ![key] = j] /\ Sound(j)
             /\ j.release = jobs[key].release
             /\ jobs[key].status \in Terminal =>
                   j.status = jobs[key].status /\ j.receipts = jobs[key].receipts
<1>1. PICK i \in Job : i = jobs[key]
  BY CarriedSound
<1>2. Sound(i) /\ i.release \in 1..Len(releases)
  BY <1>1, CarriedSound
<1>3. PICK r : r = i.release
  OBVIOUS
<1>4. r # None /\ Tells(f, r) /\ r \in DOMAIN releases
  BY <1>1, <1>2, <1>3 DEF Carried, ReleaseInv
<1>5. Tells(i.receipts, r) /\ i.allowed = Cardinality(DOMAIN releases[r].anchors)
  BY <1>2, <1>3, <1>4 DEF Sound
<1>6. PICK all : all = Added(i.receipts, f)
  OBVIOUS
<1>7. i.receipts \in Partial /\ all \in Partial /\ Tells(all, r)
  BY <1>4, <1>5, <1>6, AddedPartial, AddedTrue DEF Job
<1>8. PICK events : events = DOMAIN releases[r].anchors
  OBVIOUS
<1>9. events \in SUBSET Clients /\ IsFiniteSet(events)
  <2>1. releases[r] \in Release
    BY <1>4 DEF ReleaseInv
  <2>2. releases[r].anchors \in UNION {[S -> Int] : S \in SUBSET Clients}
    BY <2>1 DEF Release
  <2>3. events \in SUBSET Clients
    BY <1>8, <2>2
  <2> QED BY <2>3, FiniteClients
<1>10. DOMAIN all \subseteq events
  BY <1>7, <1>8 DEF Tells
<1>11. Cardinality(DOMAIN all) = Cardinality(events) => DOMAIN all = events
  BY <1>9, <1>10, FS_Subset
<1>12. PICK status \in Statuses :
         status = IF Cardinality(DOMAIN all) # i.allowed THEN "DELIVERING"
                  ELSE IF Accepted(all) = DOMAIN all THEN "SUCCEEDED" ELSE "PARTIAL"
  BY DEF Statuses, Sendable, Terminal
<1>13. PICK j : j = [i EXCEPT !.receipts = all, !.status = status]
  OBVIOUS
<1>14. /\ j \in Job /\ j.run = i.run /\ j.release = r /\ j.receipts = all
       /\ j.allowed = i.allowed /\ j.status = status
  BY <1>3, <1>7, <1>13 DEF Job
<1>15. status \in Sendable \union Sent /\ (status \in Sent => DOMAIN all = events)
       /\ (status \in Sent => (status = "SUCCEEDED" <=> Accepted(all) = DOMAIN all))
  BY <1>5, <1>8, <1>11, <1>12 DEF Sendable, Sent
<1>16. Sound(j)
  <2>1. j.status \in Sent => Closed(j)
    BY <1>8, <1>14, <1>15 DEF Closed
  <2> QED BY <1>2, <1>3, <1>4, <1>5, <1>7, <1>14, <1>15, <2>1 DEF Sound
<1>17. ASSUME i.status \in Terminal
       PROVE  j.status = i.status /\ j.receipts = i.receipts
  <2>1. i.status \in Sent /\ Closed(i)
    BY <1>2, <1>3, <1>4, <1>17, Apart DEF Sound
  <2>2. DOMAIN i.receipts = events /\ DOMAIN f \subseteq events
    BY <1>3, <1>4, <1>8, <2>1 DEF Closed, Tells
  <2>3. /\ DOMAIN all = DOMAIN i.receipts \union DOMAIN f
        /\ \A c \in DOMAIN i.receipts : all[c] = i.receipts[c]
    BY <1>6 DEF Added
  <2>4. /\ i.receipts = [c \in DOMAIN i.receipts |-> i.receipts[c]]
        /\ all = [c \in DOMAIN all |-> all[c]]
    BY <1>7, PartialFacts
  <2>5. DOMAIN all = DOMAIN i.receipts
    BY <2>2, <2>3
  <2>6. all = i.receipts
    BY <2>3, <2>4, <2>5
  <2>7. Cardinality(DOMAIN all) = i.allowed
    BY <1>5, <1>8, <2>2, <2>6
  <2>8. status = i.status
    BY <1>12, <2>1, <2>6, <2>7 DEF Closed, Sent
  <2> QED BY <1>14, <2>6, <2>8
<1>18. Acknowledged(key, f) = [jobs EXCEPT ![key] = j]
  <2>1. key \in Keys /\ jobs \in [Keys -> Job \union {NoJob}]
    BY DEF Carried, JobInv
  <2>2. Acknowledged(key, f) = [jobs EXCEPT ![key].receipts = all, ![key].status = status]
    BY <1>1, <1>6, <1>12 DEF Acknowledged
  <2>3. [jobs EXCEPT ![key].receipts = all, ![key].status = status] = [jobs EXCEPT ![key] = j]
    BY <1>1, <1>13, <2>1
  <2> QED BY <2>2, <2>3
<1> QED BY <1>1, <1>3, <1>14, <1>16, <1>17, <1>18

LEMMA AckOrphanStep ==
    ASSUME ChurnInv, AckOrphan
    PROVE  ChurnInv' /\ Final
<1>0. WorldInv /\ RunInv /\ ReleaseInv /\ PolicyInv /\ JobInv /\ OrphanInv
  BY DEF ChurnInv
<1>1. UNCHANGED <<host, late>> /\ UNCHANGED <<runVars, releases, tasks>>
      /\ UNCHANGED worldVars /\ UNCHANGED policyVars /\ moves' = moves /\ orphan' = Idle
  BY DEF AckOrphan
<1>2. Grows
  BY <1>0, <1>1, NothingGrows
<1>3. WorldInv' /\ PolicyInv'
  BY <1>0, <1>1 DEF WorldInv, worldVars, PolicyInv, policyVars
<1>4. PICK key, f : key = orphan.job /\ f = orphan.receipts
  OBVIOUS
<1>5. Carried(key, f) /\ f \in Partial
  BY <1>0, <1>4 DEF AckOrphan, OrphanInv, Script
<1>6. jobs[key].status \notin Calculable
  BY <1>0, <1>5, Apart, CarriedSound DEF Sound, Carried
<1>7. CASE Acceptable(key, f)
  <2>1. PICK j \in Job :
             /\ Acknowledged(key, f) = [jobs EXCEPT ![key] = j] /\ Sound(j)
             /\ j.release = jobs[key].release
             /\ jobs[key].status \in Terminal =>
                   j.status = jobs[key].status /\ j.receipts = jobs[key].receipts
    BY <1>0, <1>5, AcknowledgedJob
  <2>2. Becomes(key, j)
    BY <1>4, <1>5, <1>7, <2>1 DEF Becomes, AckOrphan, Carried
  <2>3. Sound(j)'
    BY <1>2, <2>1, SoundStays
  <2> QED BY <1>1, <1>2, <1>3, <1>6, <2>2, <2>3, BesideJob
<1>8. CASE ~Acceptable(key, f)
  <2>1. PICK j : j = jobs[key]
    OBVIOUS
  <2>2. j \in Job /\ Sound(j)
    BY <1>0, <1>5, <2>1, CarriedSound
  <2>3. jobs' = jobs
    BY <1>4, <1>8 DEF AckOrphan
  <2>4. Becomes(key, j)
    <3>1. jobs' = [jobs EXCEPT ![key] = j]
      BY <1>0, <2>1, <2>3 DEF JobInv
    <3> QED BY <1>5, <2>1, <2>2, <3>1 DEF Becomes, Carried
  <2>5. Sound(j)'
    BY <1>2, <2>2, SoundStays
  <2> QED BY <1>1, <1>2, <1>3, <1>6, <2>4, <2>5, BesideJob
<1> QED BY <1>7, <1>8

-----------------------------------------------------------------------------
(* The host.                                                                 *)

LEMMA GotoFacts ==
    ASSUME host \in Script, NEW pc \in Pcs, host' = [host EXCEPT !.pc = pc]
    PROVE  /\ host' \in Script /\ host'.pc = pc /\ host'.job = host.job /\ host'.page = host.page
           /\ host'.receipts = host.receipts /\ host'.pages = host.pages
BY DEF Script

LEMMA PcsAre ==
    /\ {"off", "tick", "calculate", "RUNNING", "SUCCEEDED", "BLOCKED", "choose", "authorize",
        "page", "deliver", "ack", "failing", "orphan"} = Pcs
    /\ Calculating \cap (Working \union {"failing"}) = {}
    /\ Calculating \cap {"deliver", "ack"} = {}
    /\ {"off", "tick", "choose"} \cap (Calculating \union Working \union {"failing"}) = {}
    /\ {"deliver", "ack"} \subseteq Working
BY DEF Pcs, Calculating, Working

(* The host is somewhere else than in the middle of a page.                  *)
Settled ==
    /\ host' \in Script /\ host'.pages < PagesPerRun /\ host'.pc \notin {"deliver", "ack"}
    /\ host'.pc \in Calculating =>
          host'.job \in Keys /\ jobs'[host'.job] # NoJob /\ jobs'[host'.job].status \in Calculable
    /\ host'.pc \in Working \union {"failing"} => host'.job \in Keys /\ jobs'[host'.job] # NoJob

LEMMA HostSettles ==
    ASSUME ChurnInv, Grows, WorldInv', PolicyInv', JobInv', CarriedStays, Settled,
           orphan' = orphan, late' \in {0, late}
    PROVE  ChurnInv'
<1>1. HostInv'
  BY DEF Settled, HostInv
<1>2. OrphanInv'
  BY OrphanStays DEF ChurnInv
<1>3. LateInv'
  BY ChurnAssumption DEF ChurnInv, LateInv, Settled
<1>4. RunInv' /\ ReleaseInv'
  BY DEF Grows
<1> QED BY <1>1, <1>2, <1>3, <1>4 DEF ChurnInv

LEMMA StopSettles ==
    ASSUME Stop PROVE Settled
<1>1. PagesPerRun \in Nat \ {0}
  BY ChurnAssumption
<1>2. Idle \in Script /\ Idle.pc = "off" /\ Idle.pages < PagesPerRun
  BY <1>1, IdleIsIdle
<1> QED BY <1>2, PcsAre DEF Settled, Stop

LEMMA HostWorld ==
    ASSUME ChurnInv, HostOnly
    PROVE  WorldInv' /\ PolicyInv' /\ orphan' = orphan /\ late' = late
BY DEF ChurnInv, HostOnly, WorldInv, worldVars, PolicyInv, policyVars

LEMMA CalmStep ==
    ASSUME ChurnInv, Wake \/ Choose
    PROVE  ChurnInv' /\ Final
<1>0. RunInv /\ ReleaseInv /\ JobInv /\ HostInv /\ WorldInv
  BY DEF ChurnInv
<1>1. HostOnly /\ UNCHANGED <<runVars, releases, tasks>> /\ jobs' = jobs
  BY DEF Wake, Choose
<1>2. Grows
  BY <1>0, <1>1, NothingGrows
<1>3. JobInv' /\ CarriedStays /\ Final
  BY <1>0, <1>1, <1>2, JobsStay
<1>4. Settled
  <2>1. CASE Wake
    <3>1. host' = [host EXCEPT !.pc = "tick"]
      BY <2>1 DEF Wake, Goto
    <3>2. host' \in Script /\ host'.pc = "tick" /\ host'.pages = host.pages
      BY <1>0, <3>1, GotoFacts, PcsAre DEF HostInv
    <3> QED BY <1>0, <3>2, PcsAre DEF Settled, HostInv
  <2>2. CASE Choose
    <3>1. CASE Stop
      BY <3>1, StopSettles
    <3>2. CASE ~Stop
      <4>1. PICK pc \in {"authorize", "page"} :
              /\ host' = [host EXCEPT !.job = Key("daily"), !.pc = pc]
              /\ jobs[Key("daily")].status \in Releasable \union Sendable
        BY <2>2, <3>2 DEF Choose
      <4>2. Key("daily") \in Keys /\ Key("daily") \in ({None} \union Days) \X Kinds
        BY <1>0 DEF WorldInv, Key, Keys, Kinds
      <4>3. host' \in Script /\ host'.pc = pc /\ host'.job = Key("daily") /\ host'.pages = host.pages
        BY <1>0, <4>1, <4>2 DEF HostInv, Script, Pcs
      <4>4. jobs[Key("daily")] # NoJob
        BY <4>1 DEF NoJob, Releasable, Sendable
      <4>5. pc \notin Calculating /\ pc \notin {"deliver", "ack"}
        BY DEF Calculating
      <4> QED BY <1>0, <1>1, <4>2, <4>3, <4>4, <4>5 DEF Settled, HostInv
    <3> QED BY <3>1, <3>2
  <2> QED BY <2>1, <2>2
<1> QED BY <1>1, <1>2, <1>3, <1>4, HostWorld, HostSettles

LEMMA TickStep ==
    ASSUME ChurnInv, Tick
    PROVE  ChurnInv' /\ Final
<1>0. RunInv /\ ReleaseInv /\ JobInv /\ HostInv /\ WorldInv /\ PolicyInv
  BY DEF ChurnInv
<1>1. HostOnly /\ UNCHANGED <<runVars, releases, tasks>>
  BY DEF Tick
<1>2. Grows
  BY <1>0, <1>1, NothingGrows
<1>3. \A kind \in Kinds : Key(kind) \in Keys /\ Key(kind) \in ({None} \union Days) \X Kinds
  BY <1>0 DEF WorldInv, Key, Keys
<1>4. {"daily", "diagnostic"} = Kinds
  BY DEF Kinds
<1>5. ASSUME NEW kind \in Kinds, NEW pc \in {"calculate", "choose"},
             host' = [host EXCEPT !.job = Key(kind), !.pc = pc],
             pc = "calculate" => jobs'[Key(kind)] # NoJob /\ jobs'[Key(kind)].status \in Calculable
      PROVE  Settled
  <2>1. host' \in Script /\ host'.pc = pc /\ host'.job = Key(kind) /\ host'.pages = host.pages
    BY <1>0, <1>3, <1>5 DEF HostInv, Script, Pcs
  <2> QED BY <1>0, <1>3, <1>5, <2>1, PcsAre DEF Settled, HostInv
<1>6. CASE schedule.approved /\ schedule.enabled /\ due
  <2>1. PICK key, j : /\ key = Key("daily")
                      /\ j = IF jobs[key] = NoJob THEN NewJob(schedule.revision) ELSE jobs[key]
    OBVIOUS
  <2>2. /\ jobs' = [jobs EXCEPT ![key] = j]
        /\ host' = [host EXCEPT !.job = Key("daily"),
                                !.pc = IF j.status \in Calculable THEN "calculate" ELSE "choose"]
    BY <1>6, <2>1 DEF Tick
  <2>3. key \in Keys
    BY <1>3, <1>4, <2>1
  <2>4. j \in Job /\ Sound(j)
    <3>1. schedule.revision \in Nat
      BY <1>0 DEF PolicyInv
    <3> QED BY <1>0, <2>1, <2>3, <3>1, NewJobSound DEF JobInv
  <2>5. Sound(j)'
    BY <1>2, <2>4, SoundStays
  <2>6. Becomes(key, j)
    BY <2>1, <2>2, <2>3, <2>4 DEF Becomes
  <2>7. JobInv' /\ CarriedStays /\ Final /\ jobs'[key] = j /\ j # NoJob
    BY <1>0, <1>2, <2>5, <2>6, JobChanges
  <2>8. Settled
    BY <1>4, <1>5, <2>1, <2>2, <2>7
  <2> QED BY <1>1, <1>2, <2>7, <2>8, HostWorld, HostSettles
<1>7. CASE ~(schedule.approved /\ schedule.enabled /\ due)
  <2>1. /\ jobs' = jobs
        /\ host' = [host EXCEPT !.job = Key("diagnostic"),
                      !.pc = IF jobs[Key("diagnostic")].status \in Calculable THEN "calculate" ELSE "choose"]
    BY <1>7 DEF Tick
  <2>2. JobInv' /\ CarriedStays /\ Final
    BY <1>0, <1>2, <2>1, JobsStay
  <2>3. jobs[Key("diagnostic")].status \in Calculable => jobs[Key("diagnostic")] # NoJob
    BY DEF NoJob, Calculable
  <2>4. Settled
    BY <1>4, <1>5, <2>1, <2>3
  <2> QED BY <1>1, <1>2, <2>2, <2>4, HostWorld, HostSettles
<1> QED BY <1>6, <1>7

LEMMA RunBatchStep ==
    ASSUME ChurnInv, RunBatch
    PROVE  ChurnInv' /\ Final
<1>0. RunInv /\ ReleaseInv /\ JobInv /\ HostInv /\ WorldInv
  BY DEF ChurnInv
<1>1. HostOnly /\ UNCHANGED <<jobs, releases, tasks>> /\ host.pc = "calculate"
  BY DEF RunBatch, At
<1>2. RunInv' /\ Len(runs') \in Nat /\ Len(runs) <= Len(runs') /\ Len(runs) \in Nat
      /\ DOMAIN runs = 1..Len(runs) /\ DOMAIN runs' = 1..Len(runs')
  <2>1. checkpoint \in Run /\ runs \in Seq(Run) /\ published \in 0..Len(runs) /\ Len(runs) \in Nat
    BY <1>0 DEF RunInv
  <2>2. NoRun \in Run
    BY DEF NoRun, Run, None
  <2>3. [asOf |-> Yesterday, revision |-> source.revision] \in Run
    <3>1. today - 1 \in Int /\ source.revision \in Nat
      BY <1>0, ChurnAssumption DEF WorldInv, Days
    <3> QED BY <3>1 DEF Run, Yesterday
  <2>4. CASE UNCHANGED runVars
    BY <2>1, <2>4 DEF runVars, RunInv
  <2>5. CASE checkpoint' = NoRun /\ runs' = Append(runs, checkpoint) /\ published' = Len(runs) + 1
    <3>1. runs' \in Seq(Run) /\ Len(runs') = Len(runs) + 1
      BY <2>1, <2>5
    <3> QED BY <2>1, <2>2, <2>5, <3>1 DEF RunInv
  <2>6. CASE checkpoint' \in Run /\ UNCHANGED <<runs, published>>
    BY <2>1, <2>6 DEF RunInv
  <2>7. \/ UNCHANGED runVars
        \/ checkpoint' = NoRun /\ runs' = Append(runs, checkpoint) /\ published' = Len(runs) + 1
        \/ checkpoint' \in Run /\ UNCHANGED <<runs, published>>
    BY <2>2, <2>3 DEF RunBatch
  <2> QED BY <2>4, <2>5, <2>6, <2>7
<1>3. ReleaseInv' /\ Len(releases) \in Nat
  BY <1>0, <1>1, <1>2 DEF ReleaseInv
<1>4. Grows
  BY <1>0, <1>1, <1>2, <1>3 DEF Grows
<1>5. JobInv' /\ CarriedStays /\ Final
  BY <1>0, <1>1, <1>4, JobsStay
<1>6. Settled
  <2>1. PICK pc \in {"SUCCEEDED", "BLOCKED", "RUNNING"} : host' = [host EXCEPT !.pc = pc]
    BY DEF RunBatch, Goto
  <2>2. /\ host' \in Script /\ host'.pc = pc /\ host'.job = host.job /\ host'.pages = host.pages
    BY <1>0, <2>1, GotoFacts, PcsAre DEF HostInv
  <2> QED BY <1>0, <1>1, <2>2, PcsAre DEF Settled, HostInv, Calculating
<1> QED BY <1>1, <1>4, <1>5, <1>6, HostWorld, HostSettles

LEMMA RecordBatchStep ==
    ASSUME ChurnInv, RecordBatch
    PROVE  ChurnInv' /\ Final
<1>0. RunInv /\ ReleaseInv /\ JobInv /\ HostInv /\ WorldInv
  BY DEF ChurnInv
<1>1. HostOnly /\ UNCHANGED <<runVars, releases, tasks>> /\ host.pc \in Calculating
  BY DEF RecordBatch, Calculating
<1>2. Grows
  BY <1>0, <1>1, NothingGrows
<1>3. PICK key, i : key = host.job /\ i = jobs[key]
  OBVIOUS
<1>4. key \in Keys /\ i \in Job /\ Sound(i) /\ i.status \in Calculable
  BY <1>0, <1>1, <1>3 DEF HostInv, JobInv
<1>5. PICK status \in {"AWAITING_EVIDENCE", "DIAGNOSED", "CALCULATING", "BLOCKED"},
           run \in {published, None}, pc \in {"choose", "calculate"} :
         /\ jobs' = Recorded(status, run) /\ host' = [host EXCEPT !.pc = pc]
         /\ pc = "calculate" => status = "CALCULATING"
  BY DEF RecordBatch, Goto
<1>6. status \in Statuses /\ status \notin Sendable \union Sent
  BY <1>5 DEF Statuses, Calculable, Releasable, Terminal, Sendable, Sent
<1>7. run \in 0..Len(runs) /\ run \in Nat
  BY <1>0, <1>5 DEF RunInv, None
<1>8. PICK j : j = [i EXCEPT !.status = status, !.run = run]
  OBVIOUS
<1>9. /\ j \in Job /\ j.run = run /\ j.release = i.release /\ j.receipts = i.receipts
      /\ j.allowed = i.allowed /\ j.status = status
  BY <1>4, <1>6, <1>7, <1>8 DEF Job
<1>10. jobs' = [jobs EXCEPT ![key] = j]
  <2>1. jobs' = [jobs EXCEPT ![key].status = status, ![key].run = run]
    BY <1>3, <1>5 DEF Recorded
  <2>2. jobs \in [Keys -> Job \union {NoJob}]
    BY <1>0 DEF JobInv
  <2> QED BY <1>3, <1>4, <1>8, <2>1, <2>2
<1>11. i.release = None
  BY <1>4, Apart DEF Sound
<1>12. Sound(j)
  BY <1>4, <1>6, <1>7, <1>9, <1>11, JobVariant
<1>13. Sound(j)'
  BY <1>2, <1>9, <1>12, SoundStays
<1>14. Becomes(key, j)
  BY <1>3, <1>4, <1>9, <1>10, Apart DEF Becomes
<1>15. JobInv' /\ CarriedStays /\ Final /\ jobs'[key] = j /\ j # NoJob
  BY <1>0, <1>2, <1>13, <1>14, JobChanges
<1>16. Settled
  <2>1. /\ host' \in Script /\ host'.pc = pc /\ host'.job = key /\ host'.pages = host.pages
    BY <1>0, <1>3, <1>5, GotoFacts, PcsAre DEF HostInv
  <2>2. pc = "calculate" => j.status \in Calculable
    BY <1>5, <1>9 DEF Calculable
  <2> QED BY <1>0, <1>4, <1>15, <2>1, <2>2, PcsAre DEF Settled, HostInv
<1> QED BY <1>1, <1>2, <1>15, <1>16, HostWorld, HostSettles

LEMMA EndCalculationStep ==
    ASSUME ChurnInv, EndCalculation
    PROVE  ChurnInv' /\ Final
<1>0. RunInv /\ ReleaseInv /\ JobInv /\ HostInv /\ WorldInv /\ PolicyInv
  BY DEF ChurnInv
<1>1. UNCHANGED <<jobs, orphan, late>> /\ UNCHANGED <<runVars, releases, tasks>>
      /\ UNCHANGED worldVars /\ UNCHANGED policyVars /\ (moves' = moves \/ Move)
  BY DEF EndCalculation
<1>2. Grows
  BY <1>0, <1>1, NothingGrows
<1>3. JobInv' /\ CarriedStays /\ Final
  BY <1>0, <1>1, <1>2, JobsStay
<1>4. WorldInv' /\ PolicyInv'
  BY <1>0, <1>1, Moves DEF WorldInv, worldVars, PolicyInv, policyVars
<1>5. Settled
  <2>1. CASE Stop
    BY <2>1, StopSettles
  <2>2. CASE host' = [host EXCEPT !.pc = "choose"]
    <3>1. host' \in Script /\ host'.pc = "choose" /\ host'.pages = host.pages
      BY <1>0, <2>2, GotoFacts, PcsAre DEF HostInv
    <3> QED BY <1>0, <3>1, PcsAre DEF Settled, HostInv
  <2> QED BY <2>1, <2>2 DEF EndCalculation, Goto
<1> QED BY <1>1, <1>2, <1>3, <1>4, <1>5, HostSettles

(* A page that cannot go on is a failure of the host's run.                  *)
LEMMA FailingSettles ==
    ASSUME ChurnInv, host.pc \in Working, host' = [host EXCEPT !.pc = "failing"],
           jobs'[host.job] # NoJob
    PROVE  Settled
<1>1. HostInv
  BY DEF ChurnInv
<1>2. host' \in Script /\ host'.pc = "failing" /\ host'.job = host.job /\ host'.pages = host.pages
  BY <1>1, GotoFacts, PcsAre DEF HostInv
<1>3. "failing" \notin Calculating
  BY DEF Calculating
<1> QED BY <1>1, <1>2, <1>3 DEF Settled, HostInv

LEMMA AuthorizeStep ==
    ASSUME ChurnInv, Authorize
    PROVE  ChurnInv' /\ Final
<1>0. RunInv /\ ReleaseInv /\ JobInv /\ HostInv /\ WorldInv /\ PolicyInv
  BY DEF ChurnInv
<1>1. HostOnly /\ UNCHANGED <<runVars, tasks>> /\ host.pc \in Working
  BY DEF Authorize, At, Working
<1>2. PICK key, i : key = host.job /\ i = jobs[key]
  OBVIOUS
<1>3. key \in Keys /\ i \in Job /\ Sound(i)
  BY <1>0, <1>1, <1>2 DEF HostInv, JobInv
<1>4. CASE /\ i.status \in Releasable /\ i.run # None
           /\ releases' = Append(releases, NewRelease(i.run, i.policy))
           /\ jobs' = [jobs EXCEPT ![key] = [i EXCEPT !.status = "RELEASED",
                 !.release = Len(releases) + 1, !.allowed = Cardinality(Ready(runs[i.run]))]]
           /\ host' = [host EXCEPT !.pc = "page"]
  <2>1. i.run \in 1..Len(runs) /\ i.policy \in Nat /\ i.run \in DOMAIN runs
    BY <1>0, <1>3, <1>4 DEF Sound, None, Job, RunInv
  <2>2. PICK x : x = NewRelease(i.run, i.policy)
    OBVIOUS
  <2>3. /\ x \in Release /\ x.run = i.run
        /\ DOMAIN x.anchors = Ready(runs[i.run]) /\ Ready(runs[i.run]) \in SUBSET Clients
    BY <1>0, <2>1, <2>2, NewReleaseFacts
  <2>4. /\ Grows /\ Len(releases') = Len(releases) + 1
        /\ Len(releases) \in Nat /\ releases'[Len(releases) + 1] = x
    BY <1>0, <1>1, <1>4, <2>1, <2>2, <2>3, ReleaseAdded
  <2>5. PICK r, n : r = Len(releases) + 1 /\ n = Cardinality(Ready(runs[i.run]))
    OBVIOUS
  <2>6. r \in Nat /\ r # None /\ n \in Nat
    BY <2>3, <2>4, <2>5, FiniteClients DEF None
  <2>7. PICK j : j = [i EXCEPT !.status = "RELEASED", !.release = r, !.allowed = n]
    OBVIOUS
  <2>8. /\ j \in Job /\ j.run = i.run /\ j.release = r /\ j.receipts = i.receipts
        /\ j.allowed = n /\ j.status = "RELEASED"
    <3>1. "RELEASED" \in Statuses
      BY DEF Statuses, Sendable
    <3> QED BY <1>3, <2>6, <2>7, <3>1 DEF Job
  <2>9. i.release = None /\ i.receipts = <<>>
    BY <1>3, <1>4, Apart DEF Sound
  <2>10. releases'[r].anchors = x.anchors
    BY <2>4, <2>5
  <2>11. Tells(j.receipts, r)'
    BY <2>8, <2>9, NoReceipts DEF Tells
  <2>12. "RELEASED" \in Sendable /\ "RELEASED" \notin Sent
    BY DEF Sendable, Sent
  <2>13. j.run \in 0..Len(runs') /\ j.release \in 0..Len(releases')
    <3>1. Len(runs') = Len(runs) /\ Len(runs) \in Nat
      BY <1>0, <1>1 DEF runVars, RunInv
    <3> QED BY <2>1, <2>4, <2>5, <2>8, <3>1
  <2>14. j.allowed = Cardinality(DOMAIN releases'[r].anchors)
    BY <2>3, <2>5, <2>8, <2>10
  <2>15. Sound(j)'
    BY <2>6, <2>8, <2>11, <2>12, <2>13, <2>14 DEF Sound
  <2>16. Becomes(key, j)
    <3>1. jobs' = [jobs EXCEPT ![key] = j]
      BY <1>4, <2>5, <2>7
    <3>2. jobs[key].status \notin Terminal
      BY <1>2, <1>4, Apart
    <3> QED BY <1>2, <1>3, <2>8, <2>9, <3>1, <3>2 DEF Becomes
  <2>17. JobInv' /\ CarriedStays /\ Final /\ jobs'[key] = j /\ j # NoJob
    BY <1>0, <2>4, <2>15, <2>16, JobChanges
  <2>18. Settled
    <3>1. host' \in Script /\ host'.pc = "page" /\ host'.job = key /\ host'.pages = host.pages
      BY <1>0, <1>2, <1>4, GotoFacts, PcsAre DEF HostInv
    <3>2. "page" \notin Calculating
      BY DEF Calculating
    <3> QED BY <1>0, <1>3, <2>17, <3>1, <3>2 DEF Settled, HostInv
  <2> QED BY <1>1, <2>4, <2>17, <2>18, HostWorld, HostSettles
<1>5. CASE /\ i.status \in Releasable /\ jobs' = [jobs EXCEPT ![key].status = "BLOCKED"]
           /\ UNCHANGED releases /\ host' = [host EXCEPT !.pc = "failing"]
  <2>1. Grows
    BY <1>0, <1>1, <1>5, NothingGrows
  <2>2. PICK j : j = [i EXCEPT !.status = "BLOCKED"]
    OBVIOUS
  <2>3. "BLOCKED" \in Statuses /\ "BLOCKED" \notin Sendable \union Sent
    BY DEF Statuses, Releasable, Sendable, Sent
  <2>4. /\ j \in Job /\ j.run = i.run /\ j.release = i.release /\ j.receipts = i.receipts
        /\ j.allowed = i.allowed /\ j.status = "BLOCKED"
    BY <1>3, <2>2, <2>3 DEF Job
  <2>5. i.release = None
    BY <1>3, <1>5, Apart DEF Sound
  <2>6. Sound(j)
    BY <1>3, <2>3, <2>4, <2>5, JobVariant DEF Sound
  <2>7. Sound(j)'
    BY <2>1, <2>4, <2>6, SoundStays
  <2>8. Becomes(key, j)
    <3>1. jobs' = [jobs EXCEPT ![key] = j]
      BY <1>2, <1>5, <2>2
    <3>2. jobs[key].status \notin Terminal
      BY <1>2, <1>5, Apart
    <3> QED BY <1>2, <1>3, <2>4, <2>5, <3>1, <3>2 DEF Becomes
  <2>9. JobInv' /\ CarriedStays /\ Final /\ jobs'[key] = j /\ j # NoJob
    BY <1>0, <2>1, <2>7, <2>8, JobChanges
  <2>10. Settled
    BY <1>1, <1>2, <1>5, <2>9, FailingSettles
  <2> QED BY <1>1, <2>1, <2>9, <2>10, HostWorld, HostSettles
<1>6. CASE UNCHANGED <<jobs, releases>> /\ host' = [host EXCEPT !.pc = "failing"]
  <2>1. Grows
    BY <1>0, <1>1, <1>6, NothingGrows
  <2>2. JobInv' /\ CarriedStays /\ Final
    BY <1>0, <1>6, <2>1, JobsStay
  <2>3. jobs'[host.job] # NoJob
    BY <1>0, <1>1, <1>6 DEF HostInv
  <2>4. Settled
    BY <1>1, <1>6, <2>3, FailingSettles
  <2> QED BY <1>1, <2>1, <2>2, <2>4, HostWorld, HostSettles
<1>7. \/ /\ i.status \in Releasable /\ i.run # None
         /\ releases' = Append(releases, NewRelease(i.run, i.policy))
         /\ jobs' = [jobs EXCEPT ![key] = [i EXCEPT !.status = "RELEASED",
               !.release = Len(releases) + 1, !.allowed = Cardinality(Ready(runs[i.run]))]]
         /\ host' = [host EXCEPT !.pc = "page"]
      \/ /\ i.status \in Releasable /\ jobs' = [jobs EXCEPT ![key].status = "BLOCKED"]
         /\ UNCHANGED releases /\ host' = [host EXCEPT !.pc = "failing"]
      \/ UNCHANGED <<jobs, releases>> /\ host' = [host EXCEPT !.pc = "failing"]
  BY <1>2 DEF Authorize, Goto
<1> QED BY <1>4, <1>5, <1>6, <1>7

LEMMA FailureStep ==
    ASSUME ChurnInv, RecordFailure
    PROVE  ChurnInv' /\ Final
<1>0. RunInv /\ ReleaseInv /\ JobInv /\ HostInv /\ WorldInv /\ PolicyInv
  BY DEF ChurnInv
<1>1. HostOnly /\ UNCHANGED <<runVars, releases, tasks>> /\ host.pc = "failing" /\ Stop
  BY DEF RecordFailure, At
<1>2. Grows
  BY <1>0, <1>1, NothingGrows
<1>3. PICK key, i : key = host.job /\ i = jobs[key]
  OBVIOUS
<1>4. key \in Keys /\ i \in Job /\ Sound(i)
  BY <1>0, <1>1, <1>3 DEF HostInv, JobInv
<1>5. PICK j : j = Failed(i)
  OBVIOUS
<1>6. jobs' = [jobs EXCEPT ![key] = j]
  BY <1>3, <1>5 DEF RecordFailure
<1>7. /\ j \in Job /\ Sound(j) /\ j.release = i.release
      /\ i.status \in Terminal => j = i
  <2>1. CASE i.status \in Terminal
    BY <1>4, <1>5, <2>1 DEF Failed
  <2>2. CASE i.status \notin Terminal
    <3>1. PICK n, status : /\ n = i.attempts + 1
                           /\ status = IF i.attempts + 1 >= MaxAttempts THEN "FAILED" ELSE i.status
      OBVIOUS
    <3>2. n \in Nat /\ status \in Statuses /\ (status = i.status \/ status = "FAILED")
      BY <1>4, <3>1 DEF Job, Statuses
    <3>3. j = [i EXCEPT !.attempts = n, !.delayed = TRUE, !.status = status]
      BY <1>5, <2>2, <3>1 DEF Failed
    <3>4. /\ j \in Job /\ j.run = i.run /\ j.release = i.release /\ j.receipts = i.receipts
          /\ j.allowed = i.allowed /\ j.status = status
      BY <1>4, <3>2, <3>3 DEF Job
    <3>5. "FAILED" \notin Sendable \union Sent
      BY DEF Sendable, Sent
    <3>6. Sound(j)
      BY <1>4, <3>2, <3>4, <3>5, JobVariant DEF Sound
    <3> QED BY <2>2, <3>4, <3>6
  <2> QED BY <2>1, <2>2
<1>8. Sound(j)'
  BY <1>2, <1>7, SoundStays
<1>9. Becomes(key, j)
  BY <1>3, <1>4, <1>6, <1>7 DEF Becomes
<1>10. JobInv' /\ CarriedStays /\ Final
  BY <1>0, <1>2, <1>8, <1>9, JobChanges
<1> QED BY <1>1, <1>2, <1>10, StopSettles, HostWorld, HostSettles

LEMMA AckStep ==
    ASSUME ChurnInv, Ack
    PROVE  ChurnInv' /\ Final
<1>0. RunInv /\ ReleaseInv /\ JobInv /\ HostInv /\ WorldInv /\ PolicyInv
  BY DEF ChurnInv
<1>1. HostOnly /\ UNCHANGED <<runVars, releases, tasks>> /\ host.pc = "ack" /\ host.pc \in Working
  BY DEF Ack, At, Working
<1>2. Grows
  BY <1>0, <1>1, NothingGrows
<1>3. PICK key, f : key = host.job /\ f = host.receipts
  OBVIOUS
<1>4. Carried(key, f) /\ f \in Partial
  BY <1>0, <1>1, <1>3 DEF HostInv, Script
<1>5. CASE ~Acceptable(key, f)
  <2>1. jobs' = jobs /\ host' = [host EXCEPT !.pc = "failing"]
    BY <1>3, <1>5 DEF Ack, Goto
  <2>2. JobInv' /\ CarriedStays /\ Final
    BY <1>0, <1>2, <2>1, JobsStay
  <2>3. Settled
    BY <1>1, <1>3, <1>4, <2>1, FailingSettles DEF Carried
  <2> QED BY <1>1, <1>2, <2>2, <2>3, HostWorld, HostSettles
<1>6. CASE Acceptable(key, f)
  <2>1. PICK j \in Job :
             /\ Acknowledged(key, f) = [jobs EXCEPT ![key] = j] /\ Sound(j)
             /\ j.release = jobs[key].release
             /\ jobs[key].status \in Terminal =>
                   j.status = jobs[key].status /\ j.receipts = jobs[key].receipts
    BY <1>0, <1>4, AcknowledgedJob
  <2>2. /\ jobs' = [jobs EXCEPT ![key] = j]
        /\ \/ Stop
           \/ /\ host.pages + 1 # PagesPerRun
              /\ host' = [host EXCEPT !.pc = "page", !.page = {}, !.receipts = <<>>,
                                      !.pages = host.pages + 1]
    BY <1>3, <1>6, <2>1 DEF Ack
  <2>3. Sound(j)'
    BY <1>2, <2>1, SoundStays
  <2>4. Becomes(key, j)
    BY <1>4, <2>1, <2>2 DEF Becomes, Carried
  <2>5. JobInv' /\ CarriedStays /\ Final /\ jobs'[key] = j /\ j # NoJob
    BY <1>0, <1>2, <2>3, <2>4, JobChanges
  <2>6. Settled
    <3>1. CASE Stop
      BY <3>1, StopSettles
    <3>2. CASE /\ host.pages + 1 # PagesPerRun
               /\ host' = [host EXCEPT !.pc = "page", !.page = {}, !.receipts = <<>>,
                                       !.pages = host.pages + 1]
      <4>1. PICK pages : pages = host.pages + 1
        OBVIOUS
      <4>2. pages \in 0..PagesPerRun /\ pages < PagesPerRun
        <5>1. host.pages \in 0..PagesPerRun /\ host.pages < PagesPerRun
          BY <1>0 DEF HostInv, Script
        <5> QED BY <3>2, <4>1, <5>1, ChurnAssumption
      <4>3. host' = [host EXCEPT !.pc = "page", !.page = {}, !.receipts = <<>>, !.pages = pages]
        BY <3>2, <4>1
      <4>4. /\ host' \in Script /\ host'.pc = "page" /\ host'.job = key /\ host'.pages = pages
        <5>1. {} \in SUBSET Clients /\ "page" \in Pcs /\ <<>> \in Partial
          BY NoReceipts DEF Pcs
        <5> QED BY <1>0, <1>3, <4>2, <4>3, <5>1 DEF HostInv, Script
      <4>5. "page" \notin Calculating
        BY DEF Calculating
      <4> QED BY <1>4, <2>5, <4>2, <4>4, <4>5 DEF Settled, Carried
    <3> QED BY <2>2, <3>1, <3>2
  <2> QED BY <1>1, <1>2, <2>5, <2>6, HostWorld, HostSettles
<1> QED BY <1>5, <1>6

(* A page of events none of which has a receipt yet, while the release is     *)
(* current: nothing has been made late.                                      *)
LEMMA PageStep ==
    ASSUME ChurnInv, Page
    PROVE  ChurnInv' /\ Final
<1>0. RunInv /\ ReleaseInv /\ JobInv /\ HostInv /\ WorldInv /\ PolicyInv /\ OrphanInv
  BY DEF ChurnInv
<1>1. /\ UNCHANGED <<runVars, releases, tasks>> /\ UNCHANGED <<jobs, orphan, moves>>
      /\ UNCHANGED worldVars /\ UNCHANGED policyVars /\ host.pc \in Working
  BY DEF Page, At, Working
<1>2. Grows
  BY <1>0, <1>1, NothingGrows
<1>3. JobInv' /\ CarriedStays /\ Final
  BY <1>0, <1>1, <1>2, JobsStay
<1>4. WorldInv' /\ PolicyInv'
  BY <1>0, <1>1 DEF WorldInv, worldVars, PolicyInv, policyVars
<1>5. CASE Stop \/ host' = [host EXCEPT !.pc = "failing"]
  <2>1. late' \in {0, late}
    BY DEF Page
  <2>2. Settled
    <3>1. CASE Stop
      BY <3>1, StopSettles
    <3>2. CASE host' = [host EXCEPT !.pc = "failing"]
      <4>1. jobs'[host.job] # NoJob
        BY <1>0, <1>1 DEF HostInv
      <4> QED BY <1>1, <3>2, <4>1, FailingSettles
    <3> QED BY <1>5, <3>1, <3>2
  <2> QED BY <1>1, <1>2, <1>3, <1>4, <2>1, <2>2, HostSettles
<1>6. CASE ~(Stop \/ host' = [host EXCEPT !.pc = "failing"])
  <2>1. PICK key, page : key = host.job /\ page = First(Pending(key), PageSize)
    OBVIOUS
  <2>2. /\ jobs[key].status \in Sendable /\ Servable(key)
        /\ host' = [host EXCEPT !.pc = "deliver", !.page = page, !.receipts = <<>>]
    BY <1>6, <2>1 DEF Page, Goto
  <2>3. late' = 0
    BY <1>6, <2>1, <2>2 DEF Page, Goto, Servable
  <2>4. key \in Keys /\ jobs[key] \in Job /\ Sound(jobs[key]) /\ jobs[key] # NoJob
    BY <1>0, <1>1, <2>1 DEF HostInv, JobInv
  <2>5. PICK r : r = jobs[key].release
    OBVIOUS
  <2>6. r # None /\ r \in DOMAIN releases
    BY <1>0, <2>2, <2>4, <2>5 DEF Sound, None, ReleaseInv
  <2>7. Pending(key) \subseteq DOMAIN releases[r].anchors /\ DOMAIN releases[r].anchors \subseteq Clients
    <3>1. releases[r] \in Release
      BY <1>0, <2>6 DEF ReleaseInv
    <3>2. releases[r].anchors \in UNION {[S -> Int] : S \in SUBSET Clients}
      BY <3>1 DEF Release
    <3>3. DOMAIN releases[r].anchors \subseteq Clients
      BY <3>2
    <3> QED BY <2>5, <3>3 DEF Pending
  <2>8. page \subseteq Pending(key)
    BY <2>1 DEF First
  <2>9. Cardinality(page) <= PageSize
    <3>1. Pending(key) \in SUBSET Clients /\ PageSize \in Nat
      BY <2>7, ChurnAssumption
    <3> QED BY <2>1, <3>1, FirstIsShort
  <2>10. /\ host' \in Script /\ host'.pc = "deliver" /\ host'.job = key /\ host'.page = page
         /\ host'.receipts = <<>> /\ host'.pages = host.pages
    <3>1. page \in SUBSET Clients /\ "deliver" \in Pcs /\ <<>> \in Partial
      BY <2>7, <2>8, NoReceipts DEF Pcs
    <3> QED BY <1>0, <2>1, <2>2, <3>1 DEF HostInv, Script
  <2>11. Carried(key, <<>>)'
    <3>1. Tells(<<>>, r)'
      BY NoReceipts DEF Tells
    <3> QED BY <1>1, <2>4, <2>5, <2>6, <3>1 DEF Carried, Tells
  <2>12. HostInv'
    <3>1. "deliver" \notin Calculating
      BY DEF Calculating
    <3>2. Carried(host.job, host.receipts)'
      BY <2>10, <2>11 DEF Carried, Tells
    <3> QED BY <1>0, <1>1, <2>4, <2>10, <3>1, <3>2 DEF HostInv
  <2>13. LateInv'
    <3>1. Cardinality(DOMAIN host'.receipts) = 0 /\ DOMAIN host'.receipts = {}
      BY <2>10, NoReceipts, FS_EmptySet
    <3>2. page \subseteq DOMAIN releases'[jobs'[key].release].anchors
      BY <1>1, <2>5, <2>7, <2>8
    <3>3. late' \in Nat /\ late' <= PageSize
      BY <2>3, ChurnAssumption
    <3> QED BY <2>3, <2>9, <2>10, <3>1, <3>2, <3>3 DEF LateInv
  <2>14. OrphanInv'
    BY <1>0, <1>1, <1>3, OrphanStays
  <2>15. RunInv' /\ ReleaseInv'
    BY <1>2 DEF Grows
  <2> QED BY <1>3, <1>4, <2>12, <2>13, <2>14, <2>15 DEF ChurnInv
<1> QED BY <1>5, <1>6

(* The receiver decides on the next event of the page.                       *)
LEMMA DeliverStep ==
    ASSUME ChurnInv, DeliverEvent
    PROVE  ChurnInv' /\ Final
<1>0. RunInv /\ ReleaseInv /\ JobInv /\ HostInv /\ WorldInv /\ PolicyInv /\ OrphanInv /\ LateInv
  BY DEF ChurnInv
<1>1. /\ UNCHANGED <<runVars, releases>> /\ UNCHANGED <<jobs, orphan, moves>>
      /\ UNCHANGED worldVars /\ UNCHANGED policyVars
      /\ host.pc = "deliver" /\ host.page # DOMAIN host.receipts
  BY DEF DeliverEvent, At
<1>2. PICK key, f, page : key = host.job /\ f = host.receipts /\ page = host.page
  OBVIOUS
<1>3. /\ Carried(key, f) /\ f \in Partial /\ page \in SUBSET Clients
      /\ Cardinality(page) <= PageSize /\ late <= Cardinality(DOMAIN f) /\ DOMAIN f \subseteq page
      /\ page \subseteq DOMAIN releases[jobs[key].release].anchors
  BY <1>0, <1>1, <1>2 DEF HostInv, LateInv, Script
<1>4. PICK r : r = jobs[key].release
  OBVIOUS
<1>5. r # None /\ r \in 1..Len(releases) /\ Tells(f, r)
  BY <1>0, <1>3, <1>4, CarriedSound DEF Carried
<1>7. PICK c : c = CHOOSE d \in host.page \ DOMAIN host.receipts :
                      \A e \in host.page \ DOMAIN host.receipts : d <= e
  OBVIOUS
<1>8. c \in page /\ c \notin DOMAIN f /\ c \in Clients
  <2>1. page \ DOMAIN f \in SUBSET Nat /\ page \ DOMAIN f # {}
    BY <1>1, <1>2, <1>3, ChurnAssumption DEF Clients
  <2>2. \E d \in page \ DOMAIN f : \A e \in page \ DOMAIN f : d <= e
    BY <2>1, FirstRow
  <2>3. \E d \in host.page \ DOMAIN host.receipts : \A e \in host.page \ DOMAIN host.receipts : d <= e
    BY <1>2, <2>2
  <2>4. c \in host.page \ DOMAIN host.receipts
    BY <1>7, <2>3
  <2> QED BY <1>2, <1>3, <2>4
<1>9. PICK signal : signal = TaskFor(r, c)
  OBVIOUS
<1> DEFINE existing == signal \in DOMAIN tasks
           created  == Accepts(releases[r]) /\ ~existing /\ WithinBudget(signal)
<1>11. PICK after : after = IF created THEN Added(tasks, [s \in {signal} |-> [release |-> r, day |-> today]])
                            ELSE tasks
  OBVIOUS
<1> DEFINE known == signal \in DOMAIN after
<1>13. PICK decision : decision = IF created THEN "TASK_CREATED"
                       ELSE IF Accepts(releases[r]) /\ existing THEN "TASK_EXISTS" ELSE "BLOCKED"
  OBVIOUS
<1>14. PICK x : x = [decision |-> decision, task |-> known,
                     created |-> known /\ CreatedFor(decision, after[signal].release, r)]
  OBVIOUS
<1>15. /\ tasks' = after
       /\ late' = IF created /\ ~(Guarded(key) /\ Current(r)) THEN late + 1 ELSE late
       /\ host' = [host EXCEPT !.receipts = Added(f, [d \in {c} |-> x])]
  <2>1. signal = <<c, releases[r].anchors[c]>>
    BY <1>9 DEF TaskFor
  <2>2. tasks' = after
    <3>1. CASE created
      <4>1. after = Added(tasks, [s \in {signal} |-> [release |-> r, day |-> today]])
        BY <1>11, <3>1
      <4>2. tasks' = Added(tasks, [s \in {signal} |-> [release |-> r, day |-> today]])
        BY <1>2, <1>4, <1>7, <2>1, <3>1 DEF DeliverEvent
      <4> QED BY <4>1, <4>2
    <3>2. CASE ~created
      <4>1. after = tasks
        BY <1>11, <3>2
      <4>2. tasks' = tasks
        BY <1>2, <1>4, <1>7, <2>1, <3>2 DEF DeliverEvent
      <4> QED BY <4>1, <4>2
    <3> QED BY <3>1, <3>2
  <2>3. late' = IF created /\ ~(Guarded(key) /\ Current(r)) THEN late + 1 ELSE late
    BY <1>2, <1>4, <1>7, <2>1 DEF DeliverEvent
  <2>4. host' = [host EXCEPT !.receipts = Added(f, [d \in {c} |-> x])]
    BY <1>2, <1>4, <1>7, <1>11, <1>13, <1>14, <2>1 DEF DeliverEvent
  <2> QED BY <2>2, <2>3, <2>4
<1>16. /\ DOMAIN tasks \subseteq DOMAIN tasks' /\ \A t \in DOMAIN tasks : tasks'[t] = tasks[t]
       /\ created => signal \in DOMAIN tasks'
  BY <1>11, <1>15 DEF Added
<1>17. Grows
  <2>1. RunInv' /\ runs' = runs /\ Len(runs) \in Nat /\ Len(releases) \in Nat /\ ReleaseInv'
    BY <1>0, <1>1 DEF RunInv, ReleaseInv, runVars
  <2> QED BY <1>0, <1>1, <1>16, <2>1 DEF Grows
<1>18. JobInv' /\ CarriedStays /\ Final
  BY <1>0, <1>1, <1>17, JobsStay
<1>19. WorldInv' /\ PolicyInv'
  BY <1>0, <1>1 DEF WorldInv, worldVars, PolicyInv, policyVars
<1>20. x \in Receipts
  <2>1. decision \in Decisions
    BY <1>13 DEF Decisions, Agreed
  <2>2. (known /\ CreatedFor(decision, after[signal].release, r)) \in BOOLEAN
    BY DEF CreatedFor
  <2> QED BY <1>14, <2>1, <2>2 DEF Receipts
<1>21. Said(x, signal, r)'
  <2>1. decision \in Agreed => signal \in DOMAIN tasks'
    BY <1>13, <1>16 DEF Agreed
  <2>2. x.task = known /\ (x.created <=> known /\ tasks'[signal].release = r) /\ x.decision = decision
    BY <1>14, <1>15 DEF CreatedFor
  <2>3. known => signal \in DOMAIN tasks'
    BY <1>15
  <2> QED BY <2>1, <2>2, <2>3 DEF Said, Made
<1>22. PICK new : new = Added(f, [d \in {c} |-> x])
  OBVIOUS
<1>23. /\ DOMAIN new = DOMAIN f \union {c} /\ new[c] = x
       /\ \A d \in DOMAIN f : new[d] = f[d]
       /\ new = [d \in DOMAIN new |-> new[d]]
  BY <1>8, <1>22 DEF Added
<1>24. new \in Partial
  <2>1. DOMAIN f \subseteq Clients /\ \A d \in DOMAIN f : f[d] \in Receipts
    BY <1>3, PartialFacts
  <2>2. DOMAIN new \subseteq Clients /\ \A d \in DOMAIN new : new[d] \in Receipts
    BY <1>8, <1>20, <1>23, <2>1
  <2> QED BY <1>23, <2>2, IntoPartial
<1>25. Tells(new, r)'
  <2>1. Tells(f, r)'
    BY <1>5, <1>17, TellsStays
  <2>2. releases' = releases /\ TaskFor(r, c)' = signal
    BY <1>1, <1>9 DEF TaskFor
  <2>3. Said(new[c], TaskFor(r, c), r)'
    <3>1. Said(x, TaskFor(r, c), r)'
      BY <1>21, <2>2 DEF Said, Made
    <3> QED BY <1>23, <3>1 DEF Said
  <2>4. \A d \in DOMAIN f : Said(new[d], TaskFor(r, d), r)'
    BY <1>23, <2>1 DEF Tells, Said
  <2>5. DOMAIN new \subseteq DOMAIN releases'[r].anchors
    BY <1>3, <1>4, <1>8, <1>23, <2>2
  <2>6. \A d \in DOMAIN new : d \in DOMAIN f \/ d = c
    BY <1>23
  <2> QED BY <2>3, <2>4, <2>5, <2>6 DEF Tells
<1>26. /\ host' \in Script /\ host'.pc = "deliver" /\ host'.job = key /\ host'.page = page
       /\ host'.receipts = new /\ host'.pages = host.pages
  BY <1>0, <1>1, <1>2, <1>15, <1>22, <1>24 DEF HostInv, Script
<1>27. HostInv'
  <2>1. "deliver" \notin Calculating
    BY DEF Calculating
  <2>2. Carried(key, new)'
    BY <1>1, <1>3, <1>4, <1>25 DEF Carried, Tells, TaskFor, Said, Made
  <2>3. Carried(host.job, host.receipts)'
    BY <1>26, <2>2 DEF Carried, Tells, TaskFor, Said, Made
  <2>4. key \in Keys /\ jobs'[key] # NoJob
    BY <1>1, <1>3 DEF Carried
  <2> QED BY <1>0, <1>26, <2>1, <2>3, <2>4 DEF HostInv
<1>28. LateInv'
  <2>1. IsFiniteSet(DOMAIN f) /\ IsFiniteSet(page)
    BY <1>3, FiniteClients, FS_Subset
  <2>2. Cardinality(DOMAIN new) = Cardinality(DOMAIN f) + 1 /\ Cardinality(DOMAIN f) \in Nat
    BY <1>8, <1>23, <2>1, FS_AddElement, FS_CardinalityType
  <2>3. DOMAIN new \subseteq page
    BY <1>3, <1>8, <1>23
  <2>4. Cardinality(DOMAIN new) <= Cardinality(page) /\ Cardinality(page) \in Nat
    BY <2>1, <2>3, FS_Subset, FS_CardinalityType
  <2>5. late' \in Nat /\ late' <= late + 1 /\ late \in Nat
    BY <1>0, <1>15 DEF LateInv
  <2>6. late' <= Cardinality(DOMAIN new) /\ late' <= PageSize
    BY <1>3, <2>2, <2>4, <2>5, ChurnAssumption
  <2>7. page \subseteq DOMAIN releases'[jobs'[key].release].anchors
    BY <1>1, <1>3
  <2> QED BY <1>3, <1>26, <2>3, <2>5, <2>6, <2>7 DEF LateInv
<1>29. OrphanInv'
  BY <1>0, <1>1, <1>18, OrphanStays
<1>30. RunInv' /\ ReleaseInv'
  BY <1>17 DEF Grows
<1> QED BY <1>18, <1>19, <1>27, <1>28, <1>29, <1>30 DEF ChurnInv

LEMMA DeliveredStep ==
    ASSUME ChurnInv, Delivered
    PROVE  ChurnInv' /\ Final
<1>0. RunInv /\ ReleaseInv /\ JobInv /\ HostInv /\ WorldInv /\ OrphanInv /\ LateInv
  BY DEF ChurnInv
<1>1. /\ UNCHANGED <<runVars, releases, tasks>> /\ jobs' = jobs /\ HostOnly
      /\ host.pc = "deliver" /\ host' = [host EXCEPT !.pc = "ack"]
  BY DEF Delivered, At, Goto
<1>2. Grows
  BY <1>0, <1>1, NothingGrows
<1>3. JobInv' /\ CarriedStays /\ Final
  BY <1>0, <1>1, <1>2, JobsStay
<1>4. WorldInv' /\ PolicyInv' /\ orphan' = orphan /\ late' = late
  BY <1>1, HostWorld
<1>5. /\ host' \in Script /\ host'.pc = "ack" /\ host'.job = host.job
      /\ host'.receipts = host.receipts /\ host'.pages = host.pages
  BY <1>0, <1>1, GotoFacts, PcsAre DEF HostInv
<1>6. HostInv'
  <2>1. PICK key, f : key = host.job /\ f = host.receipts
    OBVIOUS
  <2>2. Carried(key, f) /\ key \in Keys /\ f \in Partial
    BY <1>0, <1>1, <2>1 DEF HostInv, Carried, Script
  <2>3. Carried(key, f)'
    BY <1>3, <2>2 DEF CarriedStays
  <2>4. Carried(host.job, host.receipts)'
    BY <1>5, <2>1, <2>3 DEF Carried, Tells, TaskFor, Said, Made
  <2>5. "ack" \notin Calculating
    BY DEF Calculating
  <2>6. host'.job \in Keys /\ jobs'[host'.job] # NoJob
    BY <1>1, <1>5, <2>1, <2>2 DEF Carried
  <2> QED BY <1>0, <1>5, <2>4, <2>5, <2>6 DEF HostInv
<1>7. LateInv'
  BY <1>0, <1>4, <1>5 DEF LateInv
<1>8. OrphanInv'
  BY <1>0, <1>3, <1>4, OrphanStays
<1>9. RunInv' /\ ReleaseInv'
  BY <1>2 DEF Grows
<1> QED BY <1>3, <1>4, <1>6, <1>7, <1>8, <1>9 DEF ChurnInv

(* A host that fails or dies leaves at most one command behind.              *)
LEMMA FailStep ==
    ASSUME ChurnInv, HostFails \/ Crash
    PROVE  ChurnInv' /\ Final
<1>0. RunInv /\ ReleaseInv /\ JobInv /\ HostInv /\ WorldInv /\ PolicyInv /\ OrphanInv /\ LateInv
  BY DEF ChurnInv
<1>1. /\ UNCHANGED <<runVars, releases, tasks>> /\ UNCHANGED <<jobs, late>> /\ UNCHANGED worldVars
      /\ UNCHANGED policyVars /\ Move /\ Abandon
      /\ Stop \/ (host.pc \in Working /\ host' = [host EXCEPT !.pc = "failing"])
  <2>1. CASE HostFails
    BY <2>1 DEF HostFails, Goto
  <2>2. CASE Crash
    BY <2>2 DEF Crash
  <2> QED BY <2>1, <2>2
<1>2. Grows
  BY <1>0, <1>1, NothingGrows
<1>3. JobInv' /\ CarriedStays /\ Final
  BY <1>0, <1>1, <1>2, JobsStay
<1>4. WorldInv' /\ PolicyInv'
  BY <1>0, <1>1, Moves DEF WorldInv, worldVars, PolicyInv, policyVars
<1>5. Settled
  <2>1. host.pc \in Working => jobs'[host.job] # NoJob
    BY <1>0, <1>1 DEF HostInv
  <2> QED BY <1>1, <2>1, StopSettles, FailingSettles
<1>6. HostInv'
  BY <1>5 DEF Settled, HostInv
<1>7. LateInv'
  BY <1>0, <1>1, <1>5 DEF LateInv, Settled
<1>8. OrphanInv'
  <2>1. CASE orphan' = orphan
    BY <1>0, <1>3, <2>1, OrphanStays
  <2>2. CASE host.pc = "ack" /\ orphan' = [host EXCEPT !.pc = "orphan", !.page = {}, !.pages = 0]
    <3>1. PICK key, f : key = host.job /\ f = host.receipts
      OBVIOUS
    <3>2. Carried(key, f) /\ key \in Keys /\ f \in Partial
      BY <1>0, <2>2, <3>1 DEF HostInv, Carried, Script
    <3>3. Carried(key, f)'
      BY <1>3, <3>2 DEF CarriedStays
    <3>4. orphan' \in Script /\ orphan'.job = key /\ orphan'.receipts = f
      <4>1. {} \in SUBSET Clients /\ "orphan" \in Pcs /\ 0 \in 0..PagesPerRun
        BY ChurnAssumption DEF Pcs
      <4> QED BY <1>0, <2>2, <3>1, <4>1 DEF HostInv, Script
    <3>5. Carried(orphan.job, orphan.receipts)'
      BY <3>3, <3>4 DEF Carried, Tells, TaskFor, Said, Made
    <3> QED BY <3>4, <3>5 DEF OrphanInv
  <2> QED BY <1>1, <2>1, <2>2 DEF Abandon, At
<1>9. RunInv' /\ ReleaseInv'
  BY <1>2 DEF Grows
<1> QED BY <1>3, <1>4, <1>6, <1>7, <1>8, <1>9 DEF ChurnInv

-----------------------------------------------------------------------------
LEMMA InitInv == Init => ChurnInv
<1> SUFFICES ASSUME Init PROVE ChurnInv
  OBVIOUS
<1>1. FirstDay \in Days /\ 0 \in 0..MaxMoves
  BY ChurnAssumption DEF Days
<1>2. WorldInv
  <2>1. source \in [revision : Nat, pending : BOOLEAN] /\ bought \in [Clients -> Int]
    BY DEF Init
  <2>2. binding \in [Clients -> [revision : Nat, verified : BOOLEAN]]
    BY DEF Init
  <2> QED BY <1>1, <2>1, <2>2 DEF Init, WorldInv
<1>3. PolicyInv
  BY DEF Init, PolicyInv
<1>4. runs = <<>> /\ releases = <<>> /\ Len(runs) = 0
  BY DEF Init
<1>5. RunInv
  BY <1>4 DEF Init, RunInv, NoRun, Run, None
<1>6. ReleaseInv
  BY <1>4 DEF ReleaseInv
<1>7. JobInv
  BY DEF Init, JobInv, Keys
<1>8. HostInv
  <2>1. host = Idle
    BY DEF Init
  <2>2. "off" \notin Calculating \union Working \union {"failing"} /\ 0 < PagesPerRun
    BY ChurnAssumption DEF Calculating, Working
  <2> QED BY <2>1, <2>2, IdleIsIdle DEF HostInv
<1>9. OrphanInv
  BY IdleIsIdle DEF Init, OrphanInv
<1>10. LateInv
  <2>1. late = 0 /\ host.pc = "off"
    BY IdleIsIdle DEF Init
  <2> QED BY <2>1, ChurnAssumption DEF LateInv
<1> QED BY <1>2, <1>3, <1>5, <1>6, <1>7, <1>8, <1>9, <1>10 DEF ChurnInv

LEMMA StutterInv ==
    ASSUME ChurnInv, UNCHANGED vars
    PROVE  ChurnInv' /\ Final
<1>0. WorldInv /\ RunInv /\ ReleaseInv /\ PolicyInv
  BY DEF ChurnInv
<1>1. UNCHANGED <<jobs, host, orphan, late>> /\ UNCHANGED <<runVars, releases, tasks>>
      /\ UNCHANGED worldVars /\ UNCHANGED policyVars /\ moves' = moves
  BY DEF vars
<1>2. Grows
  BY <1>0, <1>1, NothingGrows
<1>3. WorldInv' /\ PolicyInv'
  BY <1>0, <1>1 DEF WorldInv, worldVars, PolicyInv, policyVars
<1> QED BY <1>1, <1>2, <1>3, Beside

LEMMA StepInv == ChurnInv /\ [Next]_vars => ChurnInv' /\ Final
<1> SUFFICES ASSUME ChurnInv, [Next]_vars PROVE ChurnInv' /\ Final
  OBVIOUS
<1>1. CASE World
  BY <1>1, WorldStep, ExpireStep DEF World
<1>2. CASE Policies
  BY <1>2, PolicyStep, DiagnoseStep, ByHandStep, RetryStep DEF Policies
<1>3. CASE Work
  BY <1>3, TickStep, RunBatchStep, RecordBatchStep, EndCalculationStep, CalmStep, AuthorizeStep, PageStep,
     DeliverStep, DeliveredStep, AckStep, FailureStep DEF Work
<1>4. CASE Wake \/ HostFails \/ Crash \/ AckOrphan \/ DelayPasses
  BY <1>4, CalmStep, FailStep, AckOrphanStep, DelayStep
<1>5. CASE UNCHANGED vars
  BY <1>5, StutterInv
<1> QED BY <1>1, <1>2, <1>3, <1>4, <1>5 DEF Next

(* The invariant holds whatever operators, imports, the calendar, lost answers *)
(* and crashes do in what order.                                             *)
THEOREM ChurnInvariant == Spec => []ChurnInv
<1> QED BY InitInv, StepInv, PTL DEF Spec

(* Values keep their types, and a job names a release exactly while or after  *)
(* it delivers (churn_schedule.attach and acknowledge).                      *)
THEOREM ChurnTypes == Spec => []TypeOK
<1>1. ASSUME ChurnInv PROVE TypeOK
  <2>0. WorldInv /\ RunInv /\ ReleaseInv /\ JobInv /\ HostInv /\ OrphanInv /\ LateInv
    BY <1>1 DEF ChurnInv
  <2>1. ASSUME NEW k \in Days \X Kinds, jobs[k] # NoJob
        PROVE  /\ jobs[k].status \in Statuses /\ jobs[k].attempts \in Nat
               /\ jobs[k].run \in 0..Len(runs) /\ jobs[k].release \in 0..Len(releases)
               /\ jobs[k].status \in Sendable \union {"SUCCEEDED", "PARTIAL"} => jobs[k].release # None
               /\ jobs[k].release = None => jobs[k].receipts = <<>>
               /\ jobs[k].release # None =>
                     IsPartial(jobs[k].receipts, DOMAIN releases[jobs[k].release].anchors, Receipts)
    <3>1. jobs[k] \in Job /\ Sound(jobs[k])
      BY <2>0, <2>1 DEF JobInv, Keys
    <3>2. jobs[k].receipts \in Partial
      BY <3>1 DEF Job
    <3>3. \A c \in DOMAIN jobs[k].receipts : jobs[k].receipts[c] \in Receipts
      BY <3>2, PartialFacts
    <3>4. jobs[k].release # None =>
             IsPartial(jobs[k].receipts, DOMAIN releases[jobs[k].release].anchors, Receipts)
      BY <3>1, <3>3 DEF Sound, Tells, IsPartial
    <3> QED BY <3>1, <3>4 DEF Job, Sound, Sent
  <2>2. ASSUME NEW h \in {host, orphan}
        PROVE  h.pc \in Pcs /\ h.page \subseteq Clients /\ IsPartial(h.receipts, Clients, Receipts)
               /\ h.pages \in 0..PagesPerRun
    <3>1. h \in Script
      BY <2>0, <2>2 DEF HostInv, OrphanInv
    <3>2. h.receipts \in Partial
      BY <3>1 DEF Script
    <3>3. IsPartial(h.receipts, Clients, Receipts)
      BY <3>2, PartialFacts DEF IsPartial
    <3> QED BY <3>1, <3>3 DEF Script
  <2>3. /\ today \in Days /\ due \in BOOLEAN /\ moves \in 0..MaxMoves /\ late \in Nat
        /\ published \in 0..Len(runs)
        /\ \A r \in DOMAIN releases : releases[r].run \in DOMAIN runs
    BY <2>0 DEF WorldInv, RunInv, ReleaseInv, LateInv
  <2> QED BY <2>1, <2>2, <2>3 DEF TypeOK
<1> QED BY <1>1, ChurnInvariant, PTL

(* Whatever stops the automation - a policy, an import, a review, the end of   *)
(* the day or of the proof - at most the page in flight still becomes tasks   *)
(* (churn_schedule.page).                                                    *)
THEOREM OnlyThePageInFlightTheorem == Spec => []OnlyThePageInFlight
<1>1. ChurnInv => OnlyThePageInFlight
  BY DEF ChurnInv, LateInv, OnlyThePageInFlight
<1> QED BY <1>1, ChurnInvariant, PTL

(* The ledger is true at the receiver, and once a job has ended it and its    *)
(* ledger are final (churn_schedule.acknowledge).                            *)
THEOREM LedgerStaysTrueTheorem == Spec => LedgerStaysTrue
<1>1. ASSUME ChurnInv PROVE LedgerIsTrue
  <2>1. SUFFICES ASSUME NEW k \in DOMAIN jobs, jobs[k] # NoJob, jobs[k].release # None
        PROVE  /\ \A c \in DOMAIN jobs[k].receipts :
                     Said(jobs[k].receipts[c], TaskFor(jobs[k].release, c), jobs[k].release)
               /\ jobs[k].status = "SUCCEEDED" =>
                     \A c \in DOMAIN releases[jobs[k].release].anchors :
                         TaskFor(jobs[k].release, c) \in DOMAIN tasks
    BY DEF LedgerIsTrue, Said, Made, TaskFor
  <2>2. jobs[k] \in Job /\ Sound(jobs[k])
    BY <1>1, <2>1 DEF ChurnInv, JobInv
  <2>3. \A c \in DOMAIN jobs[k].receipts :
           Said(jobs[k].receipts[c], TaskFor(jobs[k].release, c), jobs[k].release)
    BY <2>1, <2>2 DEF Sound, Tells
  <2>4. ASSUME jobs[k].status = "SUCCEEDED", NEW c \in DOMAIN releases[jobs[k].release].anchors
        PROVE  TaskFor(jobs[k].release, c) \in DOMAIN tasks
    <3>1. Closed(jobs[k])
      BY <2>1, <2>2, <2>4 DEF Sound, Sent
    <3>2. c \in DOMAIN jobs[k].receipts /\ jobs[k].receipts[c].decision \in Agreed
      BY <2>4, <3>1 DEF Closed, Accepted
    <3> QED BY <2>3, <3>2 DEF Said, Made
  <2> QED BY <2>3, <2>4
<1>2. Final => [\A k \in DOMAIN jobs : jobs[k].status \in Terminal =>
          jobs'[k].status = jobs[k].status
          /\ (jobs[k].status # "DIAGNOSED" => jobs'[k].receipts = jobs[k].receipts)]_vars
  BY DEF Final
<1>3. Spec => TerminalStays
  BY <1>2, InitInv, StepInv, PTL DEF Spec, TerminalStays
<1> QED BY <1>1, <1>3, ChurnInvariant, PTL DEF LedgerStaysTrue
=============================================================================
