--------------------------- MODULE SalesIntakeProofs ---------------------------
(***************************************************************************)
(* What holds of the intake of sales for any files, names on the server and  *)
(* filters, any number of uploads, nightly runs and removals, and however    *)
(* many exceptions and deaths of the backend.                               *)
(***************************************************************************)
EXTENDS SalesIntake, FiniteSetTheorems, TLAPS

-----------------------------------------------------------------------------
(* The inductive invariant, in parts.                                        *)

(* Where a coroutine is, and which locks the code holds there.               *)
Importing  == {"row", "insert", "fail", "cleanup"}
Rebuilding == {"request", "rfm", "source", "current", "history"}
Looking    == {"current", "history"}
Serving    == {"list", "download", "finish", "mark", "ended"}
Places(t)  ==
    {"idle", "lock"} \cup Rebuilding \cup
    (IF t = "removal" THEN {"delete"}
     ELSE IF t = "upload" THEN {"next"} \cup Importing ELSE Serving \cup Importing)

Fps  == {s.fp : s \in Parsed}
Entry == Names \X Listed
Task == [pc : UNION {Places(t) : t \in Tasks}, todo : Seq(Nat) \cup Seq(Entry), batch : Nat,
         name : Names \cup {0}, form : Listed, row : Nat, raised : BOOLEAN, tries : Nat,
         day : Days, served : BOOLEAN, seen : SUBSET Fps]

WorldInv ==
    /\ batches \in Seq(Batch) /\ disk \subseteq DOMAIN batches
    /\ remote \in [Names -> Listed \cup {"future", "gone"}]
    /\ used \in [uploads : Nat, runs : Nat, removals : Nat, mishaps : Nat]
    /\ {announced, nightly, behind} \subseteq BOOLEAN /\ today \in Days

(* The batches a task will still write to.                                   *)
Claimed(t) == ({task[t].batch} \ {0})
                  \cup (IF t = "upload" THEN ToSet(task[t].todo) ELSE {})
Fits(t) ==
    /\ task[t] \in Task /\ task[t].pc \in Places(t)
    /\ task[t].pc = "idle" => task[t] = Idle
    /\ Claimed(t) \subseteq DOMAIN batches
    /\ t # "removal" /\ task[t].pc \in Importing \cup Rebuilding \cup {"finish", "lock"} =>
          task[t].batch # 0
    /\ task[t].raised => used.mishaps # 0
    /\ t = "upload" =>
          /\ task[t].todo \in Seq(Nat) /\ task[t].batch \notin ToSet(task[t].todo)
          /\ \A i, j \in DOMAIN task[t].todo : task[t].todo[i] = task[t].todo[j] => i = j
    /\ t = "removal" => task[t].batch = 0
    /\ t \in Autoloads =>
          /\ task[t].todo \in Seq(Entry)
          /\ task[t].pc \notin {"idle", "list"} => task[t].name \in Names
TaskInv ==
    /\ task \in [Tasks -> Task] /\ \A t \in Tasks : Fits(t)
    /\ \A t, u \in Tasks : t # u => Claimed(t) \cap Claimed(u) = {}

(* The locks are those of the statements between which the code holds them.  *)
LockInv ==
    /\ shared \subseteq Tasks /\ exclusive \subseteq Tasks /\ rfmLock \subseteq Tasks
    /\ runLock \subseteq Autoloads
    /\ \A t \in Tasks :
         /\ t \in shared <=> task[t].pc \in Importing \cup {"delete"}
         /\ t \in rfmLock <=> task[t].pc \in Looking \cup {"source"}
         /\ t \in exclusive <=> task[t].pc \in Looking
    /\ \A t, u \in rfmLock : t = u
    /\ exclusive # {} => shared = {}
    /\ \A t \in Autoloads : ~At(t, "idle") <=> runLock = {t}

(* The first n rows of a content are passed over or stored, under this name  *)
(* or an older one.                                                          *)
Told(c, n) ==
    \A m \in 1..n : \/ Rows[c][m].skip
                    \/ /\ Rows[c][m].sale # {}
                       /\ \A s \in Rows[c][m].sale : Doc(s.fp) \in seenDocs
Adds(b) ==
    /\ b.total = b.added + b.duplicate + b.skipped + b.error
    /\ b.status = "queued" => b.total = 0
    /\ b.status = "completed" =>
          /\ b.total = Len(Rows[b.content]) /\ b.content \in Readable
          /\ b.error = 0 => Told(b.content, Len(Rows[b.content]))
SaleInv ==
    /\ IsFiniteSet(sales)
    /\ \A s \in sales : s[2] \in DOMAIN batches /\ s[1] \in Fps /\ Doc(s[1]) \in seenDocs
    /\ \A s1, s2 \in sales : s1[1] = s2[1] => s1 = s2
    /\ \A i \in DOMAIN batches : Cardinality({s \in sales : s[2] = i}) <= batches[i].added
BatchInv == \A i \in DOMAIN batches : Adds(batches[i])

(* What a task's batch says while the task imports it.                       *)
Counts(t) ==
    LET b == batches[task[t].batch] IN
    /\ t # "removal" /\ task[t].pc = "lock" => b.status = "queued"
    /\ t = "upload" => \A i \in ToSet(task[t].todo) : batches[i].status = "queued"
    /\ task[t].pc \in {"row", "insert"} =>
          /\ b.status = "processing" /\ b.content \in Readable
          /\ task[t].row \in 1..(Len(Rows[b.content]) + 1) /\ b.total = task[t].row - 1
          /\ b.error = 0 => Told(b.content, task[t].row - 1)
    /\ task[t].pc = "insert" => task[t].row <= Len(Rows[b.content])
    /\ t \in Autoloads /\ task[t].batch # 0 => b.content = Remote[task[t].name]
CountInv == \A t \in Tasks : Counts(t)

(* While nothing fails, a file is kept by the task that will import it.      *)
Keeps(t, i) ==
    \/ task[t].batch = i /\ task[t].pc \in Importing \cup {"lock"}
    \/ t = "upload" /\ i \in ToSet(task[t].todo)
DiskInv == used.mishaps = 0 => \A i \in disk : \E t \in Tasks : Keeps(t, i)

AnnouncedInv == ~announced => \E i \in DOMAIN batches : batches[i].status = "processing"

IntakeInv ==
    WorldInv /\ TaskInv /\ LockInv /\ SaleInv /\ BatchInv /\ CountInv /\ DiskInv /\ AnnouncedInv

-----------------------------------------------------------------------------
(* Coroutines: what a step of one leaves of the others.                      *)

Alone(t) ==
    /\ task' \in [Tasks -> Task]
    /\ \A u \in Tasks \ {t} :
         /\ task'[u].pc = task[u].pc /\ task'[u].todo = task[u].todo
         /\ task'[u].batch = task[u].batch /\ task'[u].name = task[u].name
         /\ task'[u].row = task[u].row /\ task'[u].raised = task[u].raised
         /\ task[u].pc = "idle" => task'[u] = task[u]

LEMMA AloneExcept ==
    ASSUME task \in [Tasks -> Task], NEW t \in Tasks, NEW k \in Task,
           task' = [task EXCEPT ![t] = k]
    PROVE  Alone(t) /\ task'[t] = k
BY DEF Alone

LEMMA IdleFacts == Idle \in Task /\ Idle.pc = "idle" /\ Idle.batch = 0 /\ Idle.todo = <<>>
                   /\ Idle.raised = FALSE /\ Idle.name = 0
<1>1. Idle.pc \in UNION {Places(t) : t \in Tasks}
  <2>1. "upload" \in Tasks /\ "idle" \in Places("upload")
    BY DEF Tasks, Places
  <2> QED BY <2>1 DEF Idle
<1>2. 1 \in Days
  BY IntakeAssumption DEF Days
<1>3. <<>> \in Seq(Nat)
  OBVIOUS
<1> QED BY <1>1, <1>2, <1>3 DEF Idle, Task, Listed

LEMMA ToldStays ==
    ASSUME NEW c, NEW n, seenDocs \subseteq seenDocs', Told(c, n)
    PROVE  Told(c, n)'
BY DEF Told

(* The batches that others work on stay as they are.                         *)
LEMMA OthersStay ==
    ASSUME TaskInv, CountInv, NEW t \in Tasks, Alone(t), Fits(t)', Counts(t)',
           \A i \in DOMAIN batches : i \in DOMAIN batches'
                                     /\ (i \notin Claimed(t) => batches'[i] = batches[i]),
           seenDocs \subseteq seenDocs', used.mishaps # 0 => used'.mishaps # 0,
           \A i \in Claimed(t)' : i \in Claimed(t) \/ i \notin DOMAIN batches
    PROVE  TaskInv' /\ CountInv'
<1>1. ASSUME NEW u \in Tasks, u # t PROVE Claimed(u)' = Claimed(u)
  BY <1>1 DEF Alone, Claimed
<1>2. ASSUME NEW u \in Tasks, u # t PROVE Fits(u)'
  <2>1. Fits(u) /\ task'[u] \in Task
    BY <1>2 DEF TaskInv, Alone
  <2>2. Claimed(u)' \subseteq DOMAIN batches'
    BY <1>1, <1>2, <2>1 DEF Fits
  <2> QED BY <1>2, <2>1, <2>2 DEF Fits, Alone
<1>3. ASSUME NEW u \in Tasks, NEW v \in Tasks, u # v PROVE Claimed(u)' \cap Claimed(v)' = {}
  <2>1. \A w \in Tasks : Claimed(w) \subseteq DOMAIN batches
    BY DEF TaskInv, Fits
  <2>2. Claimed(u) \cap Claimed(v) = {}
    BY <1>3 DEF TaskInv
  <2>3. CASE u = t
    BY <1>1, <1>3, <2>1, <2>2, <2>3
  <2>4. CASE v = t
    BY <1>1, <1>3, <2>1, <2>2, <2>4
  <2>5. CASE u # t /\ v # t
    BY <1>1, <2>2, <2>5
  <2> QED BY <2>3, <2>4, <2>5
<1>4. TaskInv'
  BY <1>2, <1>3 DEF TaskInv, Alone
<1>5. ASSUME NEW u \in Tasks, u # t PROVE Counts(u)'
  <2>1. Fits(u) /\ Counts(u)
    BY DEF TaskInv, CountInv
  <2>2. \A i \in Claimed(u) : batches'[i] = batches[i]
    BY <1>5, <2>1 DEF TaskInv, Fits
  <2>3. /\ task'[u].pc = task[u].pc /\ task'[u].todo = task[u].todo
        /\ task'[u].batch = task[u].batch /\ task'[u].name = task[u].name
        /\ task'[u].row = task[u].row
    BY <1>5 DEF Alone
  <2>4. task[u].batch # 0 => batches'[task[u].batch] = batches[task[u].batch]
    BY <2>2 DEF Claimed
  <2>5. u = "upload" => \A i \in ToSet(task[u].todo) : batches'[i] = batches[i]
    BY <2>2 DEF Claimed
  <2>6. u # "removal" /\ task[u].pc \in Importing \cup {"lock"} => task[u].batch # 0
    BY <2>1 DEF Fits, Tasks
  <2>7. task[u].pc \in {"row", "insert"} => u # "removal"
    BY <2>1 DEF Fits, Places, Rebuilding
  <2>8. \A c, n : Told(c, n) => Told(c, n)'
    BY ToldStays
  <2>9. CASE task[u].batch = 0
    BY <2>1, <2>3, <2>5, <2>6, <2>7, <2>9 DEF Counts, Importing
  <2>10. CASE task[u].batch # 0
    <3>1. PICK b, n : /\ b = batches[task[u].batch] /\ b = batches'[task'[u].batch]
                      /\ n = task[u].row - 1 /\ n = task'[u].row - 1
      BY <2>3, <2>4, <2>10
    <3>2. /\ u # "removal" /\ task[u].pc = "lock" => b.status = "queued"
          /\ task[u].pc = "insert" => task[u].row <= Len(Rows[b.content])
          /\ u \in Autoloads => b.content = Remote[task[u].name]
      BY <2>1, <2>10, <3>1 DEF Counts
    <3>3. task[u].pc \in {"row", "insert"} =>
            /\ b.status = "processing" /\ b.content \in Readable
            /\ task[u].row \in 1..(Len(Rows[b.content]) + 1) /\ b.total = n
            /\ b.error = 0 => Told(b.content, n)'
      BY <2>1, <2>8, <3>1 DEF Counts
    <3>4. u = "upload" => \A i \in ToSet(task'[u].todo) : batches'[i].status = "queued"
      BY <2>1, <2>3, <2>5 DEF Counts
    <3> QED BY <2>3, <3>1, <3>2, <3>3, <3>4 DEF Counts, Told
  <2> QED BY <2>9, <2>10
<1>6. CountInv'
  BY <1>5 DEF CountInv
<1> QED BY <1>4, <1>6

-----------------------------------------------------------------------------
(* Locks                                                                     *)

LEMMA LocksStay ==
    ASSUME LockInv, NEW t \in Tasks, Alone(t), UNCHANGED <<locks, runLock>>,
           task'[t].pc \in Importing \cup {"delete"} <=> task[t].pc \in Importing \cup {"delete"},
           task'[t].pc \in Looking \cup {"source"} <=> task[t].pc \in Looking \cup {"source"},
           task'[t].pc \in Looking <=> task[t].pc \in Looking,
           t \in Autoloads => (task'[t].pc = "idle" <=> task[t].pc = "idle")
    PROVE  LockInv'
<1>1. \A u \in Tasks \ {t} : task'[u].pc = task[u].pc
  BY DEF Alone
<1>2. Autoloads \subseteq Tasks
  BY DEF Tasks
<1> QED BY <1>1, <1>2 DEF LockInv, locks, At

LEMMA LocksTake ==
    ASSUME LockInv, NEW t \in Tasks, Alone(t), UNCHANGED <<exclusive, rfmLock, runLock>>,
           shared' = shared \cup {t}, exclusive = {}, task[t].pc \in {"lock", "idle"},
           task'[t].pc \in Importing \cup {"delete"},
           t \in Autoloads => task[t].pc # "idle"
    PROVE  LockInv'
<1>1. \A u \in Tasks \ {t} : task'[u].pc = task[u].pc
  BY DEF Alone
<1>2. Autoloads \subseteq Tasks
  BY DEF Tasks
<1> QED BY <1>1, <1>2 DEF LockInv, At, Looking, Importing

LEMMA LocksGive ==
    ASSUME LockInv, NEW t \in Tasks, Alone(t), runLock' = runLock,
           shared' = shared \ {t}, exclusive' = exclusive \ {t}, rfmLock' = rfmLock \ {t},
           task'[t].pc \notin Importing \cup Looking \cup {"delete", "source"},
           t \in Autoloads => (task'[t].pc = "idle" <=> task[t].pc = "idle")
    PROVE  LockInv'
<1>1. \A u \in Tasks \ {t} : task'[u].pc = task[u].pc
  BY DEF Alone
<1>2. Autoloads \subseteq Tasks
  BY DEF Tasks
<1>3. exclusive' # {} => shared' = {}
  BY DEF LockInv
<1> QED BY <1>1, <1>2, <1>3 DEF LockInv, At

-----------------------------------------------------------------------------
(* Batches and sales                                                         *)

LEMMA BatchChanges ==
    ASSUME batches \in Seq(Batch), NEW i \in DOMAIN batches, NEW b \in Batch,
           batches' = [batches EXCEPT ![i] = b]
    PROVE  /\ batches' \in Seq(Batch) /\ DOMAIN batches' = DOMAIN batches /\ batches'[i] = b
           /\ \A j \in DOMAIN batches \ {i} : batches'[j] = batches[j]
OBVIOUS

LEMMA BatchesGrow ==
    ASSUME batches \in Seq(Batch), NEW s \in Seq(Batch), batches' = batches \o s
    PROVE  /\ batches' \in Seq(Batch) /\ DOMAIN batches \subseteq DOMAIN batches'
           /\ Len(batches') = Len(batches) + Len(s)
           /\ \A i \in DOMAIN batches : batches'[i] = batches[i]
           /\ \A i \in DOMAIN s : Len(batches) + i \in DOMAIN batches' /\ batches'[Len(batches) + i] = s[i]
           /\ \A j \in DOMAIN batches' \ DOMAIN batches :
                \E i \in DOMAIN s : j = Len(batches) + i /\ batches'[j] = s[i]
<1>1. /\ batches' \in Seq(Batch) /\ Len(batches') = Len(batches) + Len(s)
      /\ Len(batches) \in Nat /\ Len(s) \in Nat
      /\ DOMAIN batches = 1..Len(batches) /\ DOMAIN s = 1..Len(s)
      /\ DOMAIN batches' = 1..Len(batches')
  OBVIOUS
<1>2. \A i \in 1..Len(batches') :
        batches'[i] = IF i <= Len(batches) THEN batches[i] ELSE s[i - Len(batches)]
  BY <1>1
<1>3. \A i \in DOMAIN batches : i \in DOMAIN batches' /\ batches'[i] = batches[i]
  BY <1>1, <1>2
<1>4. ASSUME NEW i \in DOMAIN s
      PROVE  Len(batches) + i \in DOMAIN batches' /\ batches'[Len(batches) + i] = s[i]
  BY <1>1, <1>2
<1>5. ASSUME NEW j \in DOMAIN batches' \ DOMAIN batches
      PROVE  \E i \in DOMAIN s : j = Len(batches) + i /\ batches'[j] = s[i]
  <2>1. j - Len(batches) \in DOMAIN s /\ j = Len(batches) + (j - Len(batches))
    BY <1>1
  <2> QED BY <1>4, <2>1
<1> QED BY <1>1, <1>3, <1>4, <1>5

LEMMA AddsStay ==
    ASSUME NEW b, Adds(b), seenDocs \subseteq seenDocs'
    PROVE  Adds(b)'
BY ToldStays DEF Adds

LEMMA BatchesStay ==
    ASSUME BatchInv, seenDocs \subseteq seenDocs',
           \A i \in DOMAIN batches' : \/ i \in DOMAIN batches /\ batches'[i] = batches[i]
                                      \/ \E b \in Batch : b = batches'[i] /\ Adds(b)'
    PROVE  BatchInv'
<1>1. ASSUME NEW i \in DOMAIN batches' PROVE \E b : b = batches'[i] /\ Adds(b)'
  <2>1. CASE i \in DOMAIN batches /\ batches'[i] = batches[i]
    <3>1. PICK b : b = batches[i]
      OBVIOUS
    <3>2. Adds(b)'
      BY <2>1, <3>1, AddsStay DEF BatchInv
    <3> QED BY <2>1, <3>1, <3>2
  <2> QED BY <2>1
<1>2. ASSUME NEW i \in DOMAIN batches' PROVE Adds(batches[i])'
  <2>1. PICK b : b = batches'[i] /\ Adds(b)'
    BY <1>1
  <2> QED BY <2>1 DEF Adds, Told
<1> QED BY <1>2 DEF BatchInv

LEMMA SalesStay ==
    ASSUME SaleInv, batches \in Seq(Batch), batches' \in Seq(Batch), sales' \subseteq sales,
           seenDocs \subseteq seenDocs', DOMAIN batches \subseteq DOMAIN batches',
           \A i \in DOMAIN batches : batches'[i].added >= batches[i].added
    PROVE  SaleInv'
<1>1. IsFiniteSet(sales')
  BY FS_Subset DEF SaleInv
<1>2. ASSUME NEW i \in DOMAIN batches'
      PROVE  Cardinality({s \in sales' : s[2] = i}) <= batches'[i].added
  <2>1. batches'[i].added \in Nat
    <3>1. batches'[i] \in Batch
      OBVIOUS
    <3> QED BY <3>1 DEF Batch
  <2>2. CASE i \in DOMAIN batches
    <3> DEFINE Of == {s \in sales : s[2] = i}
               New == {s \in sales' : s[2] = i}
    <3>1. New \subseteq Of /\ IsFiniteSet(Of) /\ IsFiniteSet(New)
      BY <1>1, FS_Subset DEF SaleInv
    <3>2. Cardinality(New) <= Cardinality(Of) /\ Cardinality(New) \in Nat /\ Cardinality(Of) \in Nat
      BY <3>1, FS_Subset, FS_CardinalityType
    <3>3. Cardinality(Of) <= batches[i].added /\ batches[i].added \in Nat
      <4>1. batches[i] \in Batch
        BY <2>2
      <4> QED BY <2>2, <4>1 DEF SaleInv, Batch
    <3> HIDE DEF Of, New
    <3>4. Cardinality(New) <= batches'[i].added
      BY <2>1, <2>2, <3>2, <3>3
    <3> QED BY <3>4 DEF New
  <2>3. CASE i \notin DOMAIN batches
    <3>1. {s \in sales' : s[2] = i} = {}
      BY <2>3 DEF SaleInv
    <3>2. Cardinality({s \in sales' : s[2] = i}) = 0
      BY <3>1, FS_EmptySet
    <3> QED BY <2>1, <3>2
  <2> QED BY <2>2, <2>3
<1> QED BY <1>1, <1>2 DEF SaleInv

LEMMA AnnouncedStays ==
    ASSUME AnnouncedInv,
           announced' \/ /\ announced' = announced
                         /\ \A i \in DOMAIN batches : batches[i].status = "processing" =>
                              i \in DOMAIN batches' /\ batches'[i].status = "processing"
    PROVE  AnnouncedInv'
BY DEF AnnouncedInv

LEMMA DiskStays ==
    ASSUME DiskInv, NEW t \in Tasks, Alone(t), used'.mishaps = 0 => used.mishaps = 0,
           used'.mishaps = 0 => \A i \in disk' : \/ i \in disk /\ (Keeps(t, i) => Keeps(t, i)')
                                                 \/ Keeps(t, i)'
    PROVE  DiskInv'
<1>1. \A u \in Tasks \ {t} : \A i : Keeps(u, i) => Keeps(u, i)'
  BY DEF Alone, Keeps
<1> QED BY <1>1 DEF DiskInv

(* A step that leaves the tables alone.                                      *)
LEMMA TaskStep ==
    ASSUME IntakeInv, NEW t \in Tasks, Alone(t), UNCHANGED <<batches, sales, announced, seenDocs>>,
           WorldInv', LockInv', Fits(t)', Counts(t)', Claimed(t)' \subseteq Claimed(t),
           used.mishaps # 0 => used'.mishaps # 0,
           used'.mishaps = 0 => \A i \in disk' : i \in disk /\ (Keeps(t, i) => Keeps(t, i)')
    PROVE  IntakeInv'
<1>1. TaskInv' /\ CountInv'
  BY OthersStay DEF IntakeInv
<1>2. SaleInv' /\ BatchInv' /\ AnnouncedInv'
  BY DEF IntakeInv, SaleInv, BatchInv, Adds, Told, AnnouncedInv
<1>3. DiskInv'
  BY DiskStays DEF IntakeInv
<1> QED BY <1>1, <1>2, <1>3 DEF IntakeInv

(* What counts exceptions.                                                   *)
LEMMA FaultCounts ==
    ASSUME used \in [uploads : Nat, runs : Nat, removals : Nat, mishaps : Nat]
    PROVE  /\ Fault => /\ used'.mishaps # 0
                       /\ used' \in [uploads : Nat, runs : Nat, removals : Nat, mishaps : Nat]
           /\ \A what \in {"uploads", "runs", "removals"} : \A limit :
                Use(what, limit) => used'.mishaps = used.mishaps
                  /\ used' \in [uploads : Nat, runs : Nat, removals : Nat, mishaps : Nat]
BY DEF Fault, Use

-----------------------------------------------------------------------------
(* A coroutine goes on.                                                      *)

(* Two states of a task that differ in their place at most.                  *)
Alike(k, n) ==
    /\ n.todo = k.todo /\ n.batch = k.batch /\ n.name = k.name /\ n.form = k.form
    /\ n.row = k.row /\ n.raised = k.raised

LEMMA PlaceOf ==
    ASSUME NEW t \in Tasks, NEW l \in Places(t)
    PROVE  l \in UNION {Places(u) : u \in Tasks}
OBVIOUS

LEMMA GotoFacts ==
    ASSUME TaskInv, NEW t \in Tasks, NEW l \in Places(t), Goto(t, l)
    PROVE  Alone(t) /\ task'[t].pc = l /\ Alike(task[t], task'[t]) /\ task'[t] \in Task
<1>1. PICK k \in Task : k = task[t]
  BY DEF TaskInv
<1>2. PICK n : n = [k EXCEPT !.pc = l]
  OBVIOUS
<1>3. n \in Task /\ n.pc = l /\ Alike(k, n)
  BY <1>2, PlaceOf DEF Task, Alike
<1>4. task' = [task EXCEPT ![t] = n]
  BY <1>1, <1>2 DEF Goto
<1>5. task \in [Tasks -> Task]
  BY DEF TaskInv
<1> QED BY <1>1, <1>3, <1>4, <1>5, AloneExcept

LEMMA RaiseFacts ==
    ASSUME TaskInv, NEW t \in Tasks, NEW l \in Places(t), Raise(t, l)
    PROVE  /\ Alone(t) /\ task'[t].pc = l /\ task'[t] \in Task /\ task'[t].todo = task[t].todo
           /\ task'[t].batch = task[t].batch /\ task'[t].name = task[t].name
<1>1. PICK k \in Task : k = task[t]
  BY DEF TaskInv
<1>2. PICK n : n = [k EXCEPT !.pc = l, !.raised = TRUE]
  OBVIOUS
<1>3. /\ n \in Task /\ n.pc = l /\ n.todo = k.todo /\ n.batch = k.batch /\ n.name = k.name
  BY <1>2, PlaceOf DEF Task
<1>4. task' = [task EXCEPT ![t] = n]
  BY <1>1, <1>2 DEF Raise
<1>5. task \in [Tasks -> Task]
  BY DEF TaskInv
<1> QED BY <1>1, <1>3, <1>4, <1>5, AloneExcept

(* The task of an upload or of a night keeps its batch from the lock on.     *)
LEMMA FitsOn ==
    ASSUME TaskInv, NEW t \in Tasks, Alone(t), task'[t] \in Task, task'[t].pc \in Places(t),
           task'[t].pc # "idle",
           task'[t].todo = task[t].todo, task'[t].batch = task[t].batch,
           task'[t].name = task[t].name, task'[t].raised => used'.mishaps # 0,
           DOMAIN batches \subseteq DOMAIN batches',
           t # "removal" /\ task'[t].pc \in Importing \cup Rebuilding \cup {"finish", "lock"} =>
               task[t].batch # 0,
           t \in Autoloads => task'[t].pc = "list" \/ task[t].name \in Names
    PROVE  Fits(t)' /\ Claimed(t)' = Claimed(t)
<1>1. Claimed(t)' = Claimed(t) /\ Fits(t)
  BY DEF Claimed, TaskInv
<1>3. t \in Autoloads => t # "removal"
  BY IntakeAssumption
<1> QED BY <1>1, <1>3 DEF Fits

(* Where nothing of a batch is said.                                         *)
Elsewhere(t) ==
    task[t].pc \notin {"row", "insert"} /\ (task[t].pc = "lock" => t = "removal")
LEMMA CountsElsewhere ==
    ASSUME CountInv, TaskInv, NEW t \in Tasks, Elsewhere(t)', batches' \in Seq(Batch),
           t = "upload" => ToSet(task'[t].todo) \subseteq ToSet(task[t].todo),
           \A i \in Claimed(t) : batches'[i].content = batches[i].content
                               /\ (i # task[t].batch => batches'[i] = batches[i]),
           t \in Autoloads /\ task'[t].batch # 0 =>
               task'[t].batch = task[t].batch /\ task'[t].name = task[t].name
    PROVE  Counts(t)'
<1>1. Counts(t) /\ Fits(t)
  BY DEF CountInv, TaskInv
<1>2. t = "upload" => \A i \in ToSet(task'[t].todo) : batches'[i].status = "queued"
  BY <1>1 DEF Counts, Fits, Claimed
<1>3. t \in Autoloads /\ task'[t].batch # 0 =>
        batches'[task'[t].batch].content = Remote[task'[t].name]
  BY <1>1 DEF Counts, Claimed
<1> QED BY <1>2, <1>3 DEF Counts, Elsewhere

-----------------------------------------------------------------------------
(* Starts and what happens around the tasks                                  *)

LEMMA IntakeParts ==
    ASSUME IntakeInv
    PROVE  /\ WorldInv /\ TaskInv /\ LockInv /\ SaleInv /\ BatchInv /\ CountInv /\ DiskInv
           /\ AnnouncedInv
BY DEF IntakeInv

LEMMA TasksAre ==
    /\ "upload" \in Tasks /\ "removal" \in Tasks /\ Autoloads \subseteq Tasks
    /\ "upload" \notin Autoloads /\ "removal" \notin Autoloads
    /\ \A t \in Tasks : t \in Autoloads \/ t = "upload" \/ t = "removal"
BY IntakeAssumption DEF Tasks

LEMMA StartRemovalStep == ASSUME IntakeInv, StartRemoval PROVE IntakeInv'
<1>0. WorldInv /\ TaskInv /\ LockInv /\ CountInv /\ DiskInv
  BY DEF IntakeInv
<1> DEFINE t == "removal"
<1>1. /\ t \in Tasks /\ Goto(t, "lock") /\ task[t].pc = "idle" /\ Use("removals", MaxRemovals)
      /\ UNCHANGED <<batches, sales, disk, announced, seenDocs, remote, shared, exclusive,
                     rfmLock, runLock, nightly, snapshot, today, behind>>
  BY TasksAre DEF StartRemoval, At, store, locks
<1>2. "lock" \in Places(t)
  BY DEF Places
<1>3. Alone(t) /\ task'[t].pc = "lock" /\ Alike(task[t], task'[t]) /\ task'[t] \in Task
  BY <1>0, <1>1, <1>2, GotoFacts
<1>4. used'.mishaps = used.mishaps /\ WorldInv'
  BY <1>0, <1>1, FaultCounts DEF WorldInv
<1>5. Fits(t)' /\ Claimed(t)' = Claimed(t)
  <2>1. Fits(t)
    BY <1>0, <1>1 DEF TaskInv
  <2> QED BY <1>0, <1>1, <1>2, <1>3, <1>4, <2>1, TasksAre, FitsOn DEF Alike, Fits
<1>6. Counts(t)'
  BY <1>0, <1>1, <1>3, CountsElsewhere, TasksAre DEF Elsewhere, Alike, WorldInv
<1>7. LockInv'
  BY <1>0, <1>1, <1>3, LocksStay, TasksAre DEF Importing, Looking, locks
<1>8. \A i \in disk' : i \in disk /\ (Keeps(t, i) => Keeps(t, i)')
  BY <1>1 DEF Keeps, Importing
<1> QED BY <1>1, <1>3, <1>4, <1>5, <1>6, <1>7, <1>8, TaskStep

LEMMA StartRunStep == ASSUME IntakeInv, NEW t \in Autoloads, StartRun(t) PROVE IntakeInv'
<1>0. WorldInv /\ TaskInv /\ LockInv /\ CountInv /\ DiskInv /\ t \in Tasks
  BY TasksAre DEF IntakeInv
<1>1. /\ Goto(t, "list") /\ task[t].pc = "idle" /\ Use("runs", MaxRuns)
      /\ runLock = {} /\ runLock' = {t}
      /\ UNCHANGED <<batches, sales, disk, announced, seenDocs, remote, shared, exclusive,
                     rfmLock, nightly, snapshot, today, behind>>
  BY DEF StartRun, At, store
<1>2. "list" \in Places(t)
  BY TasksAre DEF Places, Serving
<1>3. Alone(t) /\ task'[t].pc = "list" /\ Alike(task[t], task'[t]) /\ task'[t] \in Task
  BY <1>0, <1>1, <1>2, GotoFacts
<1>4. used'.mishaps = used.mishaps /\ WorldInv'
  BY <1>0, <1>1, FaultCounts DEF WorldInv
<1>5. Fits(t)' /\ Claimed(t)' = Claimed(t)
  <2>1. Fits(t)
    BY <1>0 DEF TaskInv
  <2>2. "list" \notin Importing \cup Rebuilding \cup {"finish", "lock"}
    BY DEF Importing, Rebuilding
  <2> QED BY <1>0, <1>1, <1>2, <1>3, <1>4, <2>1, <2>2, FitsOn DEF Alike, Fits
<1>6. Counts(t)'
  BY <1>0, <1>1, <1>3, CountsElsewhere, TasksAre DEF Elsewhere, Alike, WorldInv
<1>7. LockInv'
  <2>1. \A u \in Tasks \ {t} : task'[u].pc = task[u].pc
    BY <1>3 DEF Alone
  <2>2. \A u \in Autoloads : task[u].pc = "idle"
    BY <1>0, <1>1 DEF LockInv, At
  <2> QED BY <1>0, <1>1, <1>3, <2>1, <2>2, TasksAre DEF LockInv, At, Importing, Looking
<1>8. \A i \in disk' : i \in disk /\ (Keeps(t, i) => Keeps(t, i)')
  BY <1>1, TasksAre DEF Keeps, Importing
<1> QED BY <1>0, <1>1, <1>3, <1>4, <1>5, <1>6, <1>7, <1>8, TaskStep

LEMMA ExportStep == ASSUME IntakeInv, NEW n \in Names, Export(n) PROVE IntakeInv'
<1>1. UNCHANGED <<batches, sales, disk, announced, seenDocs, task, shared, exclusive, rfmLock,
                  runLock, nightly, snapshot, today, used, behind>>
  BY DEF Export, store, locks
<1>2. WorldInv'
  <2>1. remote' \in [Names -> Listed \cup {"future", "gone"}]
    BY DEF Export, IntakeInv, WorldInv, Listed
  <2> QED BY <1>1, <2>1 DEF IntakeInv, WorldInv
<1>3. TaskInv'
  BY <1>1 DEF IntakeInv, TaskInv, Fits, Claimed
<1>4. CountInv'
  BY <1>1 DEF IntakeInv, CountInv, Counts, Told
<1>5. LockInv' /\ SaleInv' /\ BatchInv' /\ DiskInv' /\ AnnouncedInv'
  BY <1>1 DEF IntakeInv, LockInv, At, SaleInv, BatchInv, Adds, Told, DiskInv, Keeps, AnnouncedInv
<1> QED BY <1>2, <1>3, <1>4, <1>5 DEF IntakeInv

(* The same when nothing happens.                                            *)
LEMMA StutterStep == ASSUME IntakeInv, UNCHANGED vars PROVE IntakeInv'
<1>1. UNCHANGED <<batches, sales, disk, announced, seenDocs, task, shared, exclusive, rfmLock,
                  runLock, nightly, snapshot, today, used, behind, remote>>
  BY DEF vars
<1>2. WorldInv'
  BY <1>1 DEF IntakeInv, WorldInv
<1>3. TaskInv'
  BY <1>1 DEF IntakeInv, TaskInv, Fits, Claimed
<1>4. CountInv'
  BY <1>1 DEF IntakeInv, CountInv, Counts, Told
<1>5. LockInv' /\ SaleInv' /\ BatchInv' /\ DiskInv' /\ AnnouncedInv'
  BY <1>1 DEF IntakeInv, LockInv, At, SaleInv, BatchInv, Adds, Told, DiskInv, Keeps, AnnouncedInv
<1> QED BY <1>2, <1>3, <1>4, <1>5 DEF IntakeInv

(* The backend dies: tasks and locks are gone, the tables stay.              *)
LEMMA CrashStep == ASSUME IntakeInv, Crash PROVE IntakeInv'
<1>1. /\ task' = [t \in Tasks |-> Idle] /\ Fault
      /\ shared' = {} /\ exclusive' = {} /\ rfmLock' = {} /\ runLock' = {}
      /\ nightly' = TRUE /\ behind' = TRUE
      /\ UNCHANGED <<batches, sales, disk, announced, seenDocs, remote, snapshot, today>>
  BY DEF Crash, Fault, store
<1>2. WorldInv' /\ used'.mishaps # 0
  BY <1>1, FaultCounts DEF IntakeInv, WorldInv
<1>3. ASSUME NEW t \in Tasks PROVE task'[t] = Idle /\ Claimed(t)' = {} /\ "idle" \in Places(t)
  BY <1>1, IdleFacts DEF Claimed, ToSet, Places
<1>4. TaskInv'
  <2>1. task' \in [Tasks -> Task]
    BY <1>1, IdleFacts
  <2>2. "idle" \notin Importing \cup Rebuilding \cup {"finish", "lock"} /\ <<>> \in Seq(Nat) /\ <<>> \in Seq(Entry)
        /\ ToSet(<<>>) = {}
    BY DEF Importing, Rebuilding, ToSet
  <2>3. ASSUME NEW t \in Tasks PROVE Fits(t)'
    <3>1. /\ task'[t] \in Task /\ task'[t].pc = "idle" /\ task'[t] = Idle /\ task'[t].batch = 0
          /\ task'[t].todo = <<>> /\ task'[t].raised = FALSE /\ Claimed(t)' \subseteq DOMAIN batches'
      BY <1>3, IdleFacts
    <3>2. DOMAIN task'[t].todo = {}
      BY <3>1
    <3>3. 0 \notin ToSet(task'[t].todo)
      BY <2>2, <3>1
    <3> QED BY <1>3, <2>2, <3>1, <3>2, <3>3 DEF Fits
  <2> QED BY <1>3, <2>1, <2>3 DEF TaskInv
<1>5. CountInv'
  <2>1. ASSUME NEW t \in Tasks PROVE Counts(t)'
    BY <1>3, IdleFacts DEF Counts, ToSet
  <2> QED BY <2>1 DEF CountInv
<1>6. LockInv'
  BY <1>1, <1>3, IdleFacts, TasksAre DEF LockInv, At, Importing, Looking
<1>7. SaleInv' /\ BatchInv' /\ AnnouncedInv'
  BY <1>1 DEF IntakeInv, SaleInv, BatchInv, Adds, Told, AnnouncedInv
<1> QED BY <1>2, <1>4, <1>5, <1>6, <1>7 DEF IntakeInv, DiskInv

LEMMA NewBatchFacts ==
    ASSUME NEW c \in DOMAIN Files
    PROVE  /\ NewBatch(c) \in Batch /\ NewBatch(c).status = "queued" /\ Adds(NewBatch(c))
           /\ Adds(NewBatch(c))' /\ NewBatch(c).content = c
BY DEF NewBatch, Batch, Adds

LEMMA UploadStep == ASSUME IntakeInv, Upload PROVE IntakeInv'
<1>0. WorldInv /\ TaskInv /\ LockInv /\ CountInv /\ DiskInv /\ batches \in Seq(Batch)
  BY DEF IntakeInv, WorldInv
<1> DEFINE t == "upload"
<1>1. PICK n, ids, s : /\ n = Len(batches) /\ ids = [i \in DOMAIN Uploaded |-> Len(batches) + i]
                       /\ s = [i \in DOMAIN Uploaded |-> NewBatch(Uploaded[i])]
  OBVIOUS
<1>2. /\ task[t].pc = "idle" /\ Use("uploads", MaxUploads)
      /\ batches' = batches \o s /\ disk' = disk \cup ToSet(ids)
      /\ task' = [task EXCEPT ![t].pc = "next", ![t].todo = ids]
      /\ UNCHANGED <<sales, announced, seenDocs, remote, shared, exclusive,
                     rfmLock, runLock, nightly, snapshot, today, behind>>
  BY <1>1 DEF Upload, At, locks
<1>3. task[t] = Idle /\ t \in Tasks /\ Claimed(t) = {}
  BY <1>0, <1>2, TasksAre, IdleFacts DEF TaskInv, Fits, Claimed, ToSet
<1>4. /\ n \in Nat /\ ids \in Seq(Nat) /\ DOMAIN ids = DOMAIN Uploaded
      /\ \A i \in DOMAIN ids : ids[i] = n + i /\ i \in Nat \ {0}
  <2>1. n \in Nat /\ DOMAIN Uploaded = 1..Len(Uploaded) /\ Len(Uploaded) \in Nat
    BY <1>0, <1>1, IntakeAssumption
  <2>2. ids \in [1..Len(Uploaded) -> Nat]
    BY <1>1, <2>1
  <2>3. ids \in Seq(Nat)
    BY <2>1, <2>2
  <2> QED BY <1>1, <2>1, <2>3
<1>5. s \in Seq(Batch) /\ DOMAIN s = DOMAIN ids /\ \A i \in DOMAIN s :
        s[i].status = "queued" /\ \E b \in Batch : b = s[i] /\ Adds(b)'
  <2>1. DOMAIN Uploaded = 1..Len(Uploaded) /\ Len(Uploaded) \in Nat
        /\ \A i \in DOMAIN Uploaded : Uploaded[i] \in DOMAIN Files
    BY IntakeAssumption
  <2>2. \A i \in DOMAIN Uploaded :
          /\ s[i] \in Batch /\ s[i].status = "queued" /\ \E b \in Batch : b = s[i] /\ Adds(b)'
    BY <1>1, <2>1, NewBatchFacts
  <2>3. s \in [1..Len(Uploaded) -> Batch]
    BY <1>1, <2>1, <2>2
  <2>4. s \in Seq(Batch)
    BY <2>1, <2>3
  <2> QED BY <1>1, <1>4, <2>2, <2>4
<1>6. /\ batches' \in Seq(Batch) /\ DOMAIN batches \subseteq DOMAIN batches'
      /\ \A i \in DOMAIN batches : batches'[i] = batches[i]
      /\ \A i \in DOMAIN ids : ids[i] \in DOMAIN batches' /\ batches'[ids[i]] = s[i]
      /\ \A j \in DOMAIN batches' \ DOMAIN batches :
           \E i \in DOMAIN s : batches'[j] = s[i]
  <2>1. /\ batches' \in Seq(Batch) /\ DOMAIN batches \subseteq DOMAIN batches'
        /\ \A i \in DOMAIN batches : batches'[i] = batches[i]
        /\ \A i \in DOMAIN s : n + i \in DOMAIN batches' /\ batches'[n + i] = s[i]
        /\ \A j \in DOMAIN batches' \ DOMAIN batches :
             \E i \in DOMAIN s : j = n + i /\ batches'[j] = s[i]
    <3>1. /\ batches' \in Seq(Batch) /\ DOMAIN batches \subseteq DOMAIN batches'
          /\ \A i \in DOMAIN batches : batches'[i] = batches[i]
          /\ \A i \in DOMAIN s : Len(batches) + i \in DOMAIN batches' /\ batches'[Len(batches) + i] = s[i]
          /\ \A j \in DOMAIN batches' \ DOMAIN batches :
               \E i \in DOMAIN s : j = Len(batches) + i /\ batches'[j] = s[i]
      BY <1>0, <1>2, <1>5, BatchesGrow, Zenon
    <3> QED BY <1>1, <3>1, Zenon
  <2> QED BY <1>4, <1>5, <2>1
<1>7. ToSet(ids) \subseteq DOMAIN batches' \ DOMAIN batches /\ 0 \notin ToSet(ids)
      /\ \A j \in ToSet(ids) : batches'[j].status = "queued"
  <2>1. DOMAIN batches = 1..n
    BY <1>0, <1>1
  <2> QED BY <1>4, <1>5, <1>6, <2>1 DEF ToSet
<1>8. PICK k : k = [Idle EXCEPT !.pc = "next", !.todo = ids]
  OBVIOUS
<1>9. /\ k \in Task /\ k.pc = "next" /\ k.todo = ids /\ k.batch = 0 /\ k.raised = FALSE
      /\ "next" \in Places(t)
  <2>1. "next" \in Places(t)
    BY DEF Places
  <2>2. Idle \in Task
    BY IdleFacts
  <2>3. "next" \in UNION {Places(u) : u \in Tasks}
    BY <1>3, <2>1
  <2> QED BY <1>4, <1>8, <2>1, <2>2, <2>3, IdleFacts DEF Task
<1>10. Alone(t) /\ task'[t] = k
  <2>1. task' = [task EXCEPT ![t] = k] /\ task \in [Tasks -> Task]
    BY <1>0, <1>2, <1>3, <1>8 DEF TaskInv
  <2> QED BY <1>3, <1>9, <2>1, AloneExcept
<1>11. Claimed(t)' = ToSet(ids)
  BY <1>9, <1>10 DEF Claimed
<1>12. Fits(t)'
  <2>1. "next" \notin Importing \cup Rebuilding \cup {"finish", "lock", "idle"}
    BY DEF Importing, Rebuilding
  <2>2. \A i, j \in DOMAIN ids : ids[i] = ids[j] => i = j
    BY <1>4
  <2> QED BY <1>4, <1>7, <1>9, <1>10, <1>11, <2>1, <2>2, TasksAre DEF Fits
<1>13. Counts(t)'
  BY <1>7, <1>9, <1>10, TasksAre DEF Counts
<1>14. used'.mishaps = used.mishaps /\ WorldInv'
  <2>1. disk' \subseteq DOMAIN batches'
    BY <1>0, <1>2, <1>6, <1>7 DEF WorldInv
  <2> QED BY <1>0, <1>2, <1>6, <2>1, FaultCounts DEF WorldInv
<1>15. TaskInv' /\ CountInv'
  BY <1>0, <1>2, <1>3, <1>6, <1>7, <1>10, <1>11, <1>12, <1>13, <1>14, OthersStay
<1>16. LockInv'
  BY <1>0, <1>2, <1>3, <1>9, <1>10, LocksStay, TasksAre DEF Importing, Looking, locks
<1>17. SaleInv'
  <2>1. \A i \in DOMAIN batches : batches[i].added >= batches[i].added
    <3>1. \A i \in DOMAIN batches : batches[i] \in Batch
      BY <1>0
    <3> QED BY <3>1 DEF Batch
  <2> QED BY <1>0, <1>2, <1>6, <2>1, SalesStay DEF IntakeInv
<1>18. BatchInv'
  BY <1>2, <1>5, <1>6, BatchesStay DEF IntakeInv
<1>19. AnnouncedInv'
  BY <1>2, <1>6, AnnouncedStays DEF IntakeInv
<1>20. DiskInv'
  <2>1. \A i \in disk' : \/ i \in disk /\ (Keeps(t, i) => Keeps(t, i)')
                         \/ Keeps(t, i)'
    BY <1>2, <1>3, <1>9, <1>10, IdleFacts DEF Keeps, Importing, ToSet
  <2> QED BY <1>0, <1>3, <1>10, <1>14, <2>1, DiskStays
<1> QED BY <1>14, <1>15, <1>16, <1>17, <1>18, <1>19, <1>20 DEF IntakeInv

LEMMA NextUploadStep == ASSUME IntakeInv, NextUpload PROVE IntakeInv'
<1>0. WorldInv /\ TaskInv /\ LockInv /\ CountInv /\ DiskInv /\ batches \in Seq(Batch)
  BY DEF IntakeInv, WorldInv
<1> DEFINE t == "upload"
<1>1. PICK todo : todo = task[t].todo
  OBVIOUS
<1>2. PICK k : k = IF todo = <<>> THEN Idle
                   ELSE [Idle EXCEPT !.pc = "lock", !.batch = Head(todo), !.todo = Tail(todo)]
  OBVIOUS
<1>3. /\ task[t].pc = "next" /\ task' = [task EXCEPT ![t] = k]
      /\ UNCHANGED <<batches, sales, disk, announced, seenDocs, remote, shared, exclusive,
                     rfmLock, runLock, nightly, snapshot, today, used, behind>>
  BY <1>1, <1>2 DEF NextUpload, At, locks, store
<1>4. /\ todo \in Seq(Nat) /\ Fits(t) /\ t \in Tasks /\ Counts(t)
      /\ ToSet(todo) \subseteq DOMAIN batches /\ ToSet(todo) \subseteq Claimed(t)
      /\ \A i, j \in DOMAIN todo : todo[i] = todo[j] => i = j
  BY <1>0, <1>1, TasksAre DEF TaskInv, Fits, Claimed, CountInv
<1>5. WorldInv'
  BY <1>0, <1>3 DEF WorldInv
<1>6. CASE todo = <<>>
  <2>1. k = Idle /\ k \in Task /\ k.pc = "idle" /\ k.batch = 0 /\ k.todo = <<>> /\ k.raised = FALSE
    BY <1>2, <1>6, IdleFacts
  <2>2. Alone(t) /\ task'[t] = k
    BY <1>0, <1>3, <1>4, <2>1, AloneExcept DEF TaskInv
  <2>3. Claimed(t)' = {} /\ ToSet(<<>>) = {}
    BY <2>1, <2>2 DEF Claimed, ToSet
  <2>4. Fits(t)'
    <3>1. "idle" \notin Importing \cup Rebuilding \cup {"finish", "lock"} /\ "idle" \in Places(t)
      BY DEF Importing, Rebuilding, Places
    <3>2. <<>> \in Seq(Nat) /\ DOMAIN <<>> = {}
      OBVIOUS
    <3> QED BY <2>1, <2>2, <2>3, <3>1, <3>2, TasksAre DEF Fits
  <2>5. Counts(t)'
    BY <2>1, <2>2, <2>3, TasksAre DEF Counts
  <2>6. LockInv'
    BY <1>0, <1>3, <1>4, <2>1, <2>2, LocksStay, TasksAre DEF Importing, Looking, locks
  <2>7. \A i \in disk' : i \in disk /\ (Keeps(t, i) => Keeps(t, i)')
    BY <1>1, <1>3, <1>6, <2>3 DEF Keeps, Importing
  <2> QED BY <1>3, <1>4, <1>5, <2>2, <2>3, <2>4, <2>5, <2>6, <2>7, TaskStep
<1>7. CASE todo # <<>>
  <2>1. PICK h, rest : h = Head(todo) /\ rest = Tail(todo)
    OBVIOUS
  <2>2. /\ h = todo[1] /\ 1 \in DOMAIN todo /\ rest \in Seq(Nat)
        /\ \A i \in DOMAIN rest : i + 1 \in DOMAIN todo /\ rest[i] = todo[i + 1] /\ i \in Nat \ {0}
        /\ \A i \in DOMAIN todo : i = 1 \/ (i - 1 \in DOMAIN rest /\ todo[i] = rest[i - 1])
    <3>1. /\ Len(todo) \in Nat /\ Len(todo) > 0 /\ DOMAIN todo = 1..Len(todo)
          /\ rest \in Seq(Nat) /\ Len(rest) = Len(todo) - 1 /\ DOMAIN rest = 1..Len(rest)
          /\ h = todo[1]
      BY <1>4, <1>7, <2>1
    <3>2. \A i \in 1..Len(rest) : rest[i] = todo[i + 1]
      BY <1>4, <1>7, <2>1, <3>1
    <3> QED BY <3>1, <3>2
  <2>3. /\ h \in ToSet(todo) /\ h # 0 /\ h \in Nat /\ ToSet(rest) \subseteq ToSet(todo)
        /\ ToSet(todo) = ToSet(rest) \cup {h} /\ h \notin ToSet(rest)
    <3>1. h \in ToSet(todo) /\ ToSet(rest) \subseteq ToSet(todo) /\ ToSet(todo) = ToSet(rest) \cup {h}
      BY <2>2 DEF ToSet
    <3>2. h # 0 /\ h \in Nat
      <4>1. h \in DOMAIN batches /\ DOMAIN batches = 1..Len(batches) /\ Len(batches) \in Nat
        BY <1>0, <1>4, <3>1
      <4> QED BY <4>1
    <3>3. \A i \in DOMAIN rest : rest[i] # h
      <4>1. ASSUME NEW i \in DOMAIN rest, rest[i] = h PROVE FALSE
        <5>1. i + 1 \in DOMAIN todo /\ 1 \in DOMAIN todo /\ todo[i + 1] = todo[1] /\ i \in Nat \ {0}
          BY <2>2, <4>1
        <5>2. i + 1 = 1
          BY <1>4, <5>1
        <5> QED BY <5>1, <5>2
      <4> QED BY <4>1
    <3> QED BY <3>1, <3>2, <3>3 DEF ToSet
  <2>4. k = [Idle EXCEPT !.pc = "lock", !.batch = h, !.todo = rest]
    BY <1>2, <1>7, <2>1
  <2>5. /\ k \in Task /\ k.pc = "lock" /\ k.batch = h /\ k.todo = rest /\ k.raised = FALSE
        /\ "lock" \in Places(t)
    <3>1. "lock" \in Places(t) /\ "lock" \in UNION {Places(u) : u \in Tasks}
      BY <1>4 DEF Places
    <3> QED BY <2>2, <2>3, <2>4, <3>1, IdleFacts DEF Task
  <2>6. Alone(t) /\ task'[t] = k
    BY <1>0, <1>3, <1>4, <2>5, AloneExcept DEF TaskInv
  <2>7. Claimed(t)' = ToSet(todo)
    BY <2>3, <2>5, <2>6 DEF Claimed
  <2>8. Fits(t)'
    <3>1. "lock" # "idle"
      OBVIOUS
    <3>2. \A i, j \in DOMAIN rest : rest[i] = rest[j] => i = j
      <4>1. ASSUME NEW i \in DOMAIN rest, NEW j \in DOMAIN rest, rest[i] = rest[j] PROVE i = j
        <5>1. /\ i + 1 \in DOMAIN todo /\ j + 1 \in DOMAIN todo /\ todo[i + 1] = todo[j + 1]
              /\ i \in Nat /\ j \in Nat
          BY <2>2, <4>1
        <5>2. i + 1 = j + 1
          BY <1>4, <5>1
        <5> QED BY <5>1, <5>2
      <4> QED BY <4>1
    <3> QED BY <1>3, <1>4, <2>2, <2>3, <2>5, <2>6, <2>7, <3>2, TasksAre DEF Fits
  <2>9. Counts(t)'
    BY <1>1, <1>3, <1>4, <2>3, <2>5, <2>6, TasksAre DEF Counts
  <2>10. LockInv'
    BY <1>0, <1>3, <1>4, <2>5, <2>6, LocksStay, TasksAre DEF Importing, Looking, locks
  <2>11. \A i \in disk' : i \in disk /\ (Keeps(t, i) => Keeps(t, i)')
    BY <1>1, <1>3, <2>3, <2>5, <2>6 DEF Keeps, Importing
  <2>12. Claimed(t)' \subseteq Claimed(t)
    BY <1>4, <2>7
  <2> QED BY <1>3, <1>4, <1>5, <2>6, <2>8, <2>9, <2>10, <2>11, <2>12, TaskStep
<1> QED BY <1>6, <1>7

-----------------------------------------------------------------------------
(* Imports                                                                   *)

(* A step that writes no batch but its own.                                  *)
LEMMA OwnStep ==
    ASSUME IntakeInv, NEW t \in Tasks, Alone(t), seenDocs \subseteq seenDocs',
           \/ batches' = batches
           \/ \E b \in Batch : /\ batches' = [batches EXCEPT ![task[t].batch] = b]
                               /\ task[t].batch \in DOMAIN batches /\ Adds(b)',
           WorldInv', LockInv', SaleInv', AnnouncedInv', Fits(t)', Counts(t)',
           Claimed(t)' \subseteq Claimed(t), used.mishaps # 0 => used'.mishaps # 0,
           used'.mishaps = 0 => \A i \in disk' : i \in disk /\ (Keeps(t, i) => Keeps(t, i)')
    PROVE  IntakeInv'
<1>1. /\ DOMAIN batches' = DOMAIN batches
      /\ \A i \in DOMAIN batches : \/ batches'[i] = batches[i]
                                   \/ i = task[t].batch /\ \E b \in Batch : b = batches'[i] /\ Adds(b)'
  <2>1. CASE batches' = batches
    BY <2>1
  <2>2. ASSUME NEW b \in Batch, batches' = [batches EXCEPT ![task[t].batch] = b],
               task[t].batch \in DOMAIN batches, Adds(b)'
        PROVE  <1>1
    BY <2>2, BatchChanges DEF IntakeInv, WorldInv
  <2> QED BY <2>1, <2>2
<1>2. 0 \notin DOMAIN batches
  BY DEF IntakeInv, WorldInv
<1>3. \A i \in DOMAIN batches : i \in DOMAIN batches' /\ (i \notin Claimed(t) => batches'[i] = batches[i])
  BY <1>1, <1>2 DEF Claimed
<1>4. TaskInv' /\ CountInv'
  BY <1>3, OthersStay DEF IntakeInv
<1>5. BatchInv'
  BY <1>1, BatchesStay DEF IntakeInv
<1>6. DiskInv'
  BY DiskStays DEF IntakeInv
<1> QED BY <1>4, <1>5, <1>6 DEF IntakeInv

LEMMA Importer ==
    ASSUME IntakeInv, NEW t \in Tasks, NEW i, i = task[t].batch,
           task[t].pc \in Importing \/ (task[t].pc = "lock" /\ t # "removal")
    PROVE  /\ i \in DOMAIN batches /\ batches[i] \in Batch /\ i # 0 /\ t # "removal" /\ i \in Claimed(t)
           /\ t = "upload" => i \notin ToSet(task[t].todo)
           /\ Importing \subseteq Places(t) /\ Fits(t) /\ Counts(t) /\ batches \in Seq(Batch)
           /\ t \in Autoloads => task[t].name \in Names
<1>1. Fits(t) /\ Counts(t) /\ batches \in Seq(Batch)
  BY DEF IntakeInv, TaskInv, CountInv, WorldInv
<1>2. t # "removal"
  BY <1>1 DEF Fits, Places, Importing, Rebuilding
<1>3. t = "upload" \/ t \in Autoloads
  BY <1>2, TasksAre
<1>4. i # 0
  BY <1>1, <1>2, <1>3 DEF Fits
<1>5. i \in Claimed(t) /\ i \in DOMAIN batches
  BY <1>1, <1>4 DEF Claimed, Fits
<1>6. batches[i] \in Batch
  BY <1>1, <1>5
<1>7. t \in Autoloads => task[t].name \in Names
  BY <1>1 DEF Fits, Importing
<1> QED BY <1>1, <1>2, <1>4, <1>5, <1>6, <1>7 DEF Fits, Places

LEMMA ImportOn ==
    ASSUME IntakeInv, NEW t \in Tasks, Alone(t), task[t].pc \in Importing, task'[t].pc \in Importing,
           task'[t] \in Task, task'[t].todo = task[t].todo, task'[t].batch = task[t].batch,
           task'[t].name = task[t].name, task'[t].raised => used'.mishaps # 0,
           DOMAIN batches \subseteq DOMAIN batches', UNCHANGED <<locks, runLock, disk>>
    PROVE  /\ Fits(t)' /\ Claimed(t)' = Claimed(t) /\ LockInv'
           /\ \A i \in disk' : i \in disk /\ (Keeps(t, i) => Keeps(t, i)')
<1>1. TaskInv /\ LockInv
  BY DEF IntakeInv
<1>2. PICK i : i = task[t].batch
  OBVIOUS
<1>3. i # 0 /\ t # "removal" /\ Importing \subseteq Places(t) /\ (t \in Autoloads => task[t].name \in Names)
  BY <1>2, Importer
<1>4. "idle" \notin Importing
  BY DEF Importing
<1>5. Fits(t)' /\ Claimed(t)' = Claimed(t)
  BY <1>1, <1>2, <1>3, <1>4, FitsOn
<1>6. LockInv'
  <2>1. Importing \cap (Looking \cup {"source", "idle"}) = {}
    BY DEF Importing, Looking
  <2> QED BY <1>1, <2>1, LocksStay
<1>7. \A j \in disk' : j \in disk /\ (Keeps(t, j) => Keeps(t, j)')
  BY DEF Keeps
<1> QED BY <1>5, <1>6, <1>7

Outcomes == {"added", "duplicate", "skipped", "error"}

(* What counting a row does to its batch.                                    *)
LEMMA Counted ==
    ASSUME IntakeInv, NEW t \in Tasks, NEW i, i = task[t].batch, task[t].pc \in {"row", "insert"},
           NEW outcome \in Outcomes, Count(t, outcome)
    PROVE  \E b \in Batch :
             /\ batches' = [batches EXCEPT ![i] = b]
             /\ b.content = batches[i].content /\ b.status = batches[i].status
             /\ b.total = batches[i].total + 1
             /\ b.total = b.added + b.duplicate + b.skipped + b.error
             /\ b.added = IF outcome = "added" THEN batches[i].added + 1 ELSE batches[i].added
             /\ b.error = IF outcome = "error" THEN batches[i].error + 1 ELSE batches[i].error
<1>1. i \in DOMAIN batches /\ batches[i] \in Batch /\ batches \in Seq(Batch)
  BY Importer DEF Importing
<1>2. PICK k \in Batch : k = batches[i]
  BY <1>1
<1>3. k.total = k.added + k.duplicate + k.skipped + k.error
  BY <1>1, <1>2 DEF IntakeInv, BatchInv, Adds
<1> PICK m \in Nat : m = k.total + 1
  BY DEF Batch
<1>4. batches' = [batches EXCEPT ![i].total = @ + 1, ![i][outcome] = @ + 1]
  BY DEF Count
<1>5. CASE outcome = "added"
  <2>0. PICK c \in Nat : c = k.added + 1
    BY DEF Batch
  <2>1. PICK b : b = [k EXCEPT !.total = m, !.added = c]
    OBVIOUS
  <2>2. batches' = [batches EXCEPT ![i] = b]
    BY <1>1, <1>2, <1>4, <1>5, <2>0, <2>1 DEF Batch
  <2>3. b \in Batch /\ b.content = k.content /\ b.status = k.status /\ b.total = m
        /\ b.added = c /\ b.error = k.error /\ b.duplicate = k.duplicate /\ b.skipped = k.skipped
    BY <2>1 DEF Batch
  <2>4. b.total = b.added + b.duplicate + b.skipped + b.error
    BY <1>3, <2>0, <2>3 DEF Batch
  <2> QED BY <1>2, <1>5, <2>0, <2>2, <2>3, <2>4
<1>6. CASE outcome = "duplicate"
  <2>0. PICK c \in Nat : c = k.duplicate + 1
    BY DEF Batch
  <2>1. PICK b : b = [k EXCEPT !.total = m, !.duplicate = c]
    OBVIOUS
  <2>2. batches' = [batches EXCEPT ![i] = b]
    BY <1>1, <1>2, <1>4, <1>6, <2>0, <2>1 DEF Batch
  <2>3. b \in Batch /\ b.content = k.content /\ b.status = k.status /\ b.total = m
        /\ b.added = k.added /\ b.error = k.error /\ b.duplicate = c /\ b.skipped = k.skipped
    BY <2>1 DEF Batch
  <2>4. b.total = b.added + b.duplicate + b.skipped + b.error
    BY <1>3, <2>0, <2>3 DEF Batch
  <2> QED BY <1>2, <1>6, <2>0, <2>2, <2>3, <2>4
<1>7. CASE outcome = "skipped"
  <2>0. PICK c \in Nat : c = k.skipped + 1
    BY DEF Batch
  <2>1. PICK b : b = [k EXCEPT !.total = m, !.skipped = c]
    OBVIOUS
  <2>2. batches' = [batches EXCEPT ![i] = b]
    BY <1>1, <1>2, <1>4, <1>7, <2>0, <2>1 DEF Batch
  <2>3. b \in Batch /\ b.content = k.content /\ b.status = k.status /\ b.total = m
        /\ b.added = k.added /\ b.error = k.error /\ b.duplicate = k.duplicate /\ b.skipped = c
    BY <2>1 DEF Batch
  <2>4. b.total = b.added + b.duplicate + b.skipped + b.error
    BY <1>3, <2>0, <2>3 DEF Batch
  <2> QED BY <1>2, <1>7, <2>0, <2>2, <2>3, <2>4
<1>8. CASE outcome = "error"
  <2>0. PICK c \in Nat : c = k.error + 1
    BY DEF Batch
  <2>1. PICK b : b = [k EXCEPT !.total = m, !.error = c]
    OBVIOUS
  <2>2. batches' = [batches EXCEPT ![i] = b]
    BY <1>1, <1>2, <1>4, <1>8, <2>0, <2>1 DEF Batch
  <2>3. b \in Batch /\ b.content = k.content /\ b.status = k.status /\ b.total = m
        /\ b.added = k.added /\ b.error = c /\ b.duplicate = k.duplicate /\ b.skipped = k.skipped
    BY <2>1 DEF Batch
  <2>4. b.total = b.added + b.duplicate + b.skipped + b.error
    BY <1>3, <2>0, <2>3 DEF Batch
  <2> QED BY <1>2, <1>8, <2>0, <2>2, <2>3, <2>4
<1> QED BY <1>5, <1>6, <1>7, <1>8 DEF Outcomes

(* ... and to its task.                                                      *)
LEMMA NextRow ==
    ASSUME IntakeInv, NEW t \in Tasks, task[t].pc \in {"row", "insert"}, NEW outcome, Count(t, outcome)
    PROVE  /\ Alone(t) /\ task'[t] \in Task /\ task'[t].pc = "row" /\ task'[t].row = task[t].row + 1
           /\ task'[t].todo = task[t].todo /\ task'[t].batch = task[t].batch
           /\ task'[t].name = task[t].name /\ task'[t].raised = task[t].raised
<1>1. PICK k \in Task : k = task[t]
  BY DEF IntakeInv, TaskInv
<1> PICK r \in Nat : r = k.row + 1
  BY DEF Task
<1>2. PICK n : n = [k EXCEPT !.pc = "row", !.row = r]
  OBVIOUS
<1>3. "row" \in Places(t)
  BY Importer DEF Importing
<1>4. /\ n \in Task /\ n.pc = "row" /\ n.row = r /\ n.todo = k.todo /\ n.batch = k.batch
      /\ n.name = k.name /\ n.raised = k.raised
  BY <1>2, <1>3, PlaceOf DEF Task
<1>5. task' = [task EXCEPT ![t].pc = "row", ![t].row = @ + 1] /\ task \in [Tasks -> Task]
  BY DEF Count, IntakeInv, TaskInv
<1>6. task' = [task EXCEPT ![t] = n]
  BY <1>1, <1>2, <1>5 DEF Task
<1> QED BY <1>1, <1>4, <1>5, <1>6, AloneExcept

(* A row passed over or stored, by now or after this step.                   *)
Tells(r) == \/ r.skip
            \/ r.sale # {} /\ \A s \in r.sale : Doc(s.fp) \in seenDocs

LEMMA ToldMore ==
    ASSUME NEW c, NEW p \in Nat, Told(c, p), Tells(Rows[c][p + 1])', seenDocs \subseteq seenDocs'
    PROVE  Told(c, p + 1)'
<1>1. ASSUME NEW m \in 1..(p + 1) PROVE Tells(Rows[c][m])'
  <2>1. CASE m = p + 1
    BY <2>1
  <2>2. CASE m # p + 1
    <3>1. m \in 1..p
      BY <2>2
    <3> QED BY <3>1 DEF Told, Tells
  <2> QED BY <2>1, <2>2
<1> QED BY <1>1 DEF Told, Tells

LEMMA CountStep ==
    ASSUME IntakeInv, NEW t \in Tasks, NEW i, i = task[t].batch, NEW c, c = batches[i].content,
           task[t].pc \in {"row", "insert"}, task[t].row <= Len(Rows[c]),
           NEW r, r = Rows[c][task[t].row],
           NEW outcome \in Outcomes, Count(t, outcome), SaleInv',
           outcome # "error" => Tells(r)', seenDocs \subseteq seenDocs',
           UNCHANGED <<disk, remote, locks, runLock, nightly, snapshot, today, behind>>,
           announced' \in BOOLEAN, used.mishaps # 0 => used'.mishaps # 0,
           used' \in [uploads : Nat, runs : Nat, removals : Nat, mishaps : Nat]
    PROVE  IntakeInv'
<1>0. WorldInv /\ TaskInv /\ task[t].pc \in Importing
  BY DEF IntakeInv, Importing
<1>1. /\ i \in DOMAIN batches /\ batches[i] \in Batch /\ i # 0 /\ t # "removal" /\ i \in Claimed(t)
      /\ t = "upload" => i \notin ToSet(task[t].todo)
      /\ Importing \subseteq Places(t) /\ Fits(t) /\ Counts(t) /\ batches \in Seq(Batch)
  BY <1>0, Importer
<1>2. PICK b \in Batch :
             /\ batches' = [batches EXCEPT ![i] = b]
             /\ b.content = batches[i].content /\ b.status = batches[i].status
             /\ b.total = batches[i].total + 1
             /\ b.total = b.added + b.duplicate + b.skipped + b.error
             /\ b.added = IF outcome = "added" THEN batches[i].added + 1 ELSE batches[i].added
             /\ b.error = IF outcome = "error" THEN batches[i].error + 1 ELSE batches[i].error
  BY Counted
<1>3. /\ Alone(t) /\ task'[t] \in Task /\ task'[t].pc = "row" /\ task'[t].row = task[t].row + 1
      /\ task'[t].todo = task[t].todo /\ task'[t].batch = task[t].batch
      /\ task'[t].name = task[t].name /\ task'[t].raised = task[t].raised
  BY NextRow
<1>4. /\ batches' \in Seq(Batch) /\ DOMAIN batches' = DOMAIN batches /\ batches'[i] = b
      /\ \A j \in DOMAIN batches \ {i} : batches'[j] = batches[j]
  BY <1>1, <1>2, BatchChanges
<1>5. /\ Fits(t)' /\ Claimed(t)' = Claimed(t) /\ LockInv'
      /\ \A j \in disk' : j \in disk /\ (Keeps(t, j) => Keeps(t, j)')
  <2>1. task'[t].raised => used'.mishaps # 0
    BY <1>1, <1>3 DEF Fits
  <2>2. "row" \in Importing
    BY DEF Importing
  <2> QED BY <1>0, <1>3, <1>4, <2>1, <2>2, ImportOn
<1>6. PICK p : p = task[t].row - 1
  OBVIOUS
<1>7. /\ batches[i].status = "processing" /\ c \in Readable /\ task[t].row \in 1..(Len(Rows[c]) + 1)
      /\ batches[i].total = p /\ (batches[i].error = 0 => Told(c, p))
  BY <1>1, <1>6 DEF Counts
<1>8. Rows[c] \in Seq(ToSet(Rows[c])) /\ Len(Rows[c]) \in Nat
  <2>1. c \in DOMAIN Files
    BY <1>7 DEF Readable
  <2>2. Rows[c] \in Seq(ToSet(Rows[c]))
    BY <2>1, FilesAssumption
  <2> QED BY <2>2
<1>9. /\ p \in Nat /\ p + 1 = task[t].row /\ p + 1 = task'[t].row - 1 /\ b.total = p + 1
      /\ task'[t].row \in 1..(Len(Rows[c]) + 1)
  <2>0. PICK m \in Nat : m = Len(Rows[c])
    BY <1>8
  <2>1. PICK n \in Nat : n = task[t].row /\ n >= 1 /\ n <= m
    BY <1>7, <2>0
  <2>2. p = n - 1 /\ task'[t].row = n + 1 /\ b.total = p + 1
    BY <1>2, <1>3, <1>6, <1>7, <2>1
  <2>3. n + 1 \in 1..(m + 1) /\ n - 1 \in Nat /\ (n - 1) + 1 = n /\ (n + 1) - 1 = n
    BY <2>1
  <2> QED BY <2>0, <2>1, <2>2, <2>3
<1>10. b.error = 0 => Told(c, p + 1)'
  <2>1. batches[i].error \in Nat
    BY <1>1 DEF Batch
  <2>2. ASSUME b.error = 0 PROVE Told(c, p + 1)'
    <3>1. outcome # "error" /\ batches[i].error = 0
      BY <1>2, <2>1, <2>2
    <3>2. r = Rows[c][p + 1]
      BY <1>9
    <3> QED BY <1>7, <1>9, <3>1, <3>2, ToldMore
  <2> QED BY <2>2
<1>11. Counts(t)'
  <2>1. PICK q : q = p + 1 /\ q = task'[t].row - 1
    BY <1>9
  <2>2. b.error = 0 => Told(c, q)'
    BY <1>10, <2>1
  <2>3. t = "upload" => \A j \in ToSet(task'[t].todo) : batches'[j].status = "queued"
    BY <1>1, <1>3, <1>4 DEF Counts, Claimed, Fits
  <2>4. t \in Autoloads => batches'[task'[t].batch].content = Remote[task'[t].name]
    BY <1>1, <1>2, <1>3, <1>4 DEF Counts
  <2>5. b.status = "processing" /\ b.content = c /\ batches'[task'[t].batch] = b
    BY <1>2, <1>3, <1>4, <1>7
  <2>6. task'[t].row \in 1..(Len(Rows[b.content]) + 1) /\ b.total = task'[t].row - 1
    BY <1>9, <2>5
  <2>7. b.error = 0 => \A m \in 1..(task'[t].row - 1) :
                         \/ Rows[b.content][m].skip
                         \/ /\ Rows[b.content][m].sale # {}
                            /\ \A s \in Rows[b.content][m].sale : Doc(s.fp) \in seenDocs'
    BY <2>1, <2>2, <2>5, ZenonT(60) DEF Told
  <2>8. task'[t].pc # "lock" /\ task'[t].pc # "insert"
    BY <1>3
  <2> QED BY <1>7, <2>3, <2>4, <2>5, <2>6, <2>7, <2>8, ZenonT(60) DEF Counts, Told
<1>12. Adds(b)'
  BY <1>2, <1>7 DEF Adds
<1>13. WorldInv'
  BY <1>0, <1>4 DEF WorldInv
<1>14. AnnouncedInv'
  BY <1>1, <1>2, <1>4, <1>7 DEF AnnouncedInv
<1> QED BY <1>1, <1>2, <1>3, <1>5, <1>11, <1>12, <1>13, <1>14, OwnStep

(* What the parser makes of a row.                                           *)
Wellformed(r) ==
    /\ r.skip \in BOOLEAN /\ (r.skip => r.sale = {})
    /\ \A s1, s2 \in r.sale : s1 = s2
    /\ \A s \in r.sale : s.fp \in Fps /\ \A fp \in s.fps : Doc(fp) = Doc(s.fp)

LEMMA RowFacts ==
    ASSUME IntakeInv, NEW t \in Tasks, NEW i, i = task[t].batch, NEW c, c = batches[i].content,
           task[t].pc \in {"row", "insert"}, task[t].row <= Len(Rows[c]),
           NEW r, r = Rows[c][task[t].row]
    PROVE  c \in DOMAIN Files /\ Wellformed(r) /\ batches[i].status = "processing"
<1>1. Counts(t)
  BY DEF IntakeInv, CountInv
<1>2. c \in Readable /\ task[t].row \in 1..(Len(Rows[c]) + 1) /\ batches[i].status = "processing"
  BY <1>1 DEF Counts
<1>3. c \in DOMAIN Files
  BY <1>2 DEF Readable
<1>4. Rows[c] \in Seq(ToSet(Rows[c]))
  BY <1>3, FilesAssumption
<1>5. Len(Rows[c]) \in Nat /\ DOMAIN Rows[c] = 1..Len(Rows[c])
  BY <1>4
<1>6. task[t].row \in DOMAIN Rows[c]
  BY <1>2, <1>5
<1>7. r \in ToSet(Rows[c])
  BY <1>6 DEF ToSet
<1>8. \A s \in r.sale : s \in Parsed
  BY <1>3, <1>7 DEF Parsed
<1>9. \A s \in r.sale : s.fp \in Fps
  BY <1>8 DEF Fps
<1>10. \A q \in ToSet(Rows[c]) :
         /\ q.skip \in BOOLEAN /\ (q.skip => q.sale = {})
         /\ \A s1, s2 \in q.sale : s1 = s2
         /\ \A s \in q.sale : \A fp \in s.fps : Doc(fp) = Doc(s.fp)
  BY <1>3, FilesAssumption, Zenon
<1>11. /\ r.skip \in BOOLEAN /\ (r.skip => r.sale = {})
       /\ \A s1, s2 \in r.sale : s1 = s2
       /\ \A s \in r.sale : \A fp \in s.fps : Doc(fp) = Doc(s.fp)
  BY <1>7, <1>10, Zenon
<1>12. Wellformed(r)
  BY <1>9, <1>11, Zenon DEF Wellformed
<1> QED BY <1>2, <1>3, <1>12

(* The batch of a task that goes on stays what it was.                       *)
LEMMA ToInsert ==
    ASSUME IntakeInv, NEW t \in Tasks, task[t].pc = "row", task'[t].pc = "insert",
           task[t].row <= Len(Rows[batches[task[t].batch].content]),
           Alike(task[t], task'[t]), UNCHANGED <<batches, seenDocs>>
    PROVE  Counts(t)'
<1>1. Counts(t) /\ task'[t].todo = task[t].todo /\ task'[t].batch = task[t].batch
      /\ task'[t].name = task[t].name /\ task'[t].row = task[t].row
      /\ batches' = batches /\ seenDocs' = seenDocs
  BY DEF IntakeInv, CountInv, Alike
<1>2. task'[t].pc # "lock" /\ task[t].pc \in {"row", "insert"}
  OBVIOUS
<1> QED BY <1>1, <1>2, ZenonT(60) DEF Counts, Told

LEMMA RowStep == ASSUME IntakeInv, NEW t \in Tasks, Row(t) PROVE IntakeInv'
<1>0. WorldInv /\ TaskInv /\ LockInv /\ SaleInv /\ CountInv /\ AnnouncedInv
  BY DEF IntakeInv
<1>1. PICK i, c, r : i = task[t].batch /\ c = batches[i].content /\ r = Rows[c][task[t].row]
  OBVIOUS
<1>2. /\ task[t].pc = "row" /\ task[t].row <= Len(Rows[c])
      /\ UNCHANGED <<sales, disk, announced, seenDocs, remote, locks, runLock, nightly,
                     snapshot, today, behind>>
  BY <1>1 DEF Row, At, Content
<1>3. r = Current(t) /\ "row" \in Importing /\ "insert" \in Importing /\ "fail" \in Importing
  BY <1>1 DEF Current, Content, Importing
<1>4. /\ c \in DOMAIN Files /\ r.skip \in BOOLEAN /\ (r.skip => r.sale = {})
      /\ \A s1, s2 \in r.sale : s1 = s2
      /\ \A s \in r.sale : \A fp \in s.fps : Doc(fp) = Doc(s.fp)
  <2>1. task[t].pc \in {"row", "insert"}
    BY <1>2
  <2>2. i = task[t].batch /\ c = batches[i].content /\ task[t].row <= Len(Rows[c])
        /\ r = Rows[c][task[t].row]
    BY <1>1, <1>2
  <2>3. c \in DOMAIN Files /\ Wellformed(r)
    BY <2>1, <2>2, RowFacts
  <2> QED BY <2>3, Zenon DEF Wellformed
<1>5. ASSUME NEW outcome \in Outcomes, Count(t, outcome), used.mishaps # 0 => used'.mishaps # 0,
             used' \in [uploads : Nat, runs : Nat, removals : Nat, mishaps : Nat],
             outcome # "error" => outcome = RowOutcome(t), outcome # "added"
      PROVE  IntakeInv'
  <2>1. PICK b \in Batch :
             /\ batches' = [batches EXCEPT ![i] = b]
             /\ b.added = IF outcome = "added" THEN batches[i].added + 1 ELSE batches[i].added
    BY <1>1, <1>2, <1>5, Counted
  <2>2. i \in DOMAIN batches /\ batches \in Seq(Batch)
    BY <1>1, <1>2, <1>3, Importer
  <2>3. SaleInv'
    <3>1. /\ batches' \in Seq(Batch) /\ DOMAIN batches' = DOMAIN batches
          /\ \A j \in DOMAIN batches : batches'[j].added = batches[j].added
      BY <1>5, <2>1, <2>2, BatchChanges
    <3>2. \A j \in DOMAIN batches : batches[j].added \in Nat
      <4>1. \A j \in DOMAIN batches : batches[j] \in Batch
        BY <2>2
      <4> QED BY <4>1 DEF Batch
    <3>3. \A j \in DOMAIN batches : batches'[j].added >= batches[j].added
      BY <3>1, <3>2
    <3> QED BY <1>0, <1>2, <2>2, <3>1, <3>3, SalesStay
  <2>4. outcome # "error" => Tells(r)'
    <3>1. ASSUME outcome # "error" PROVE r.skip \/ \E s \in r.sale : Stored(s.fps)
      <4>1. outcome = IF r.skip THEN "skipped"
                      ELSE IF r.sale = {} THEN "error"
                      ELSE IF \E s \in r.sale : Stored(s.fps) THEN "duplicate" ELSE "new"
        BY <1>3, <1>5, <3>1, Zenon DEF RowOutcome
      <4>2. outcome # "new"
        BY DEF Outcomes
      <4> DEFINE known == \E s \in r.sale : Stored(s.fps)
      <4> HIDE DEF known
      <4>3. outcome = IF r.skip THEN "skipped"
                      ELSE IF r.sale = {} THEN "error" ELSE IF known THEN "duplicate" ELSE "new"
        BY <4>1 DEF known
      <4>4. r.skip \/ known
        BY <1>4, <3>1, <4>2, <4>3
      <4> QED BY <4>4 DEF known
    <3>2. ASSUME NEW s \in r.sale, Stored(s.fps) PROVE Tells(r)'
      <4>1. PICK x \in sales : x[1] \in s.fps
        BY <3>2 DEF Stored
      <4>2. Doc(x[1]) \in seenDocs /\ Doc(x[1]) = Doc(s.fp)
        BY <1>0, <1>4, <4>1 DEF SaleInv
      <4>3. \A s1 \in r.sale : Doc(s1.fp) \in seenDocs'
        BY <1>2, <1>4, <4>2
      <4>4. r.sale # {}
        OBVIOUS
      <4> QED BY <4>3, <4>4 DEF Tells
    <3> QED BY <3>1, <3>2 DEF Tells
  <2>5. announced' \in BOOLEAN
    BY <1>0, <1>2 DEF WorldInv
  <2> QED BY <1>1, <1>2, <1>5, <2>3, <2>4, <2>5, CountStep
<1>6. ASSUME NEW l \in {"insert", "fail"}, Goto(t, l), batches' = batches, used.mishaps # 0 => used'.mishaps # 0,
             used' \in [uploads : Nat, runs : Nat, removals : Nat, mishaps : Nat]
      PROVE  IntakeInv'
  <2>1. l \in Places(t)
    BY <1>1, <1>2, <1>3, <1>6, Importer
  <2>2. Alone(t) /\ task'[t].pc = l /\ Alike(task[t], task'[t]) /\ task'[t] \in Task
    BY <1>0, <1>6, <2>1, GotoFacts
  <2>3. /\ Fits(t)' /\ Claimed(t)' = Claimed(t) /\ LockInv'
        /\ \A j \in disk' : j \in disk /\ (Keeps(t, j) => Keeps(t, j)')
    <3>1. task'[t].raised => used'.mishaps # 0
      BY <1>0, <1>6, <2>2 DEF TaskInv, Fits, Alike
    <3> QED BY <1>2, <1>3, <1>6, <2>2, <3>1, ImportOn DEF Alike
  <2>4. WorldInv'
    BY <1>0, <1>2, <1>6 DEF WorldInv
  <2>5. Counts(t)'
    <3>1. CASE l = "insert"
      BY <1>1, <1>2, <1>6, <2>2, <3>1, ToInsert
    <3>2. CASE l = "fail"
      <4>1. batches' \in Seq(Batch) /\ Elsewhere(t)'
        BY <1>0, <1>6, <2>2, <3>2 DEF WorldInv, Elsewhere
      <4> QED BY <1>0, <1>6, <2>2, <4>1, CountsElsewhere DEF Alike
    <3> QED BY <1>6, <3>1, <3>2
  <2> QED BY <1>2, <1>6, <2>2, <2>3, <2>4, <2>5, TaskStep
<1>7. used \in [uploads : Nat, runs : Nat, removals : Nat, mishaps : Nat]
  BY <1>0 DEF WorldInv
<1>8. CASE RowOutcome(t) = "new" /\ Goto(t, "insert") /\ UNCHANGED batches /\ UNCHANGED used
  BY <1>6, <1>7, <1>8
<1>9. CASE RowOutcome(t) # "new" /\ Count(t, RowOutcome(t)) /\ UNCHANGED used
  <2>1. RowOutcome(t) \in Outcomes /\ RowOutcome(t) # "added"
    BY <1>9 DEF RowOutcome, Outcomes
  <2>2. PICK outcome : outcome = RowOutcome(t)
    OBVIOUS
  <2> QED BY <1>5, <1>7, <1>9, <2>1, <2>2
<1>10. CASE Fault /\ Count(t, "error")
  <2>1. "error" \in Outcomes
    BY DEF Outcomes
  <2> QED BY <1>5, <1>7, <1>10, <2>1, FaultCounts
<1>11. CASE Fault /\ Goto(t, "fail") /\ UNCHANGED batches
  BY <1>6, <1>7, <1>11, FaultCounts
<1> QED BY <1>8, <1>9, <1>10, <1>11 DEF Row

(* A row that ends in an error leaves the sales as they are.                 *)
LEMMA ErrorStep ==
    ASSUME IntakeInv, NEW t \in Tasks, NEW i, i = task[t].batch, NEW c, c = batches[i].content,
           task[t].pc = "insert", task[t].row <= Len(Rows[c]), Count(t, "error"),
           UNCHANGED <<sales, seenDocs, announced, disk, remote, locks, runLock, nightly,
                       snapshot, today, behind>>,
           used.mishaps # 0 => used'.mishaps # 0,
           used' \in [uploads : Nat, runs : Nat, removals : Nat, mishaps : Nat]
    PROVE  IntakeInv'
<1>1. "error" \in Outcomes /\ task[t].pc \in {"row", "insert"} /\ SaleInv /\ announced \in BOOLEAN
  BY DEF Outcomes, IntakeInv, WorldInv
<1>2. PICK b \in Batch : /\ batches' = [batches EXCEPT ![i] = b]
                         /\ b.added = batches[i].added
  <2>1. PICK b \in Batch :
             /\ batches' = [batches EXCEPT ![i] = b]
             /\ b.content = batches[i].content /\ b.status = batches[i].status
             /\ b.total = batches[i].total + 1
             /\ b.total = b.added + b.duplicate + b.skipped + b.error
             /\ b.added = IF "error" = "added" THEN batches[i].added + 1 ELSE batches[i].added
             /\ b.error = IF "error" = "error" THEN batches[i].error + 1 ELSE batches[i].error
    BY <1>1, Counted
  <2> QED BY <2>1
<1>3. i \in DOMAIN batches /\ batches \in Seq(Batch)
  BY Importer DEF Importing
<1>4. /\ batches' \in Seq(Batch) /\ DOMAIN batches' = DOMAIN batches
      /\ \A j \in DOMAIN batches : batches'[j].added = batches[j].added
  BY <1>2, <1>3, BatchChanges
<1>5. \A j \in DOMAIN batches : batches[j].added \in Nat
  <2>1. \A j \in DOMAIN batches : batches[j] \in Batch
    BY <1>3
  <2> QED BY <2>1 DEF Batch
<1>6. SaleInv'
  <2>1. \A j \in DOMAIN batches : batches'[j].added >= batches[j].added
    BY <1>4, <1>5
  <2> QED BY <1>1, <1>3, <1>4, <2>1, SalesStay
<1>7. PICK r : r = Rows[c][task[t].row]
  OBVIOUS
<1> QED BY <1>1, <1>6, <1>7, CountStep

(* A sale more, which its batch counts.                                      *)
LEMMA SaleMore ==
    ASSUME SaleInv, batches \in Seq(Batch), NEW i \in DOMAIN batches, NEW b \in Batch,
           batches' = [batches EXCEPT ![i] = b], b.added = batches[i].added + 1,
           NEW fp \in Fps, ~Stored({fp}), sales' = sales \cup {<<fp, i>>},
           seenDocs' = seenDocs \cup {Doc(fp)}
    PROVE  SaleInv'
<1>1. /\ DOMAIN batches' = DOMAIN batches /\ batches'[i] = b
      /\ \A j \in DOMAIN batches \ {i} : batches'[j] = batches[j]
  BY BatchChanges
<1>2. IsFiniteSet(sales) /\ IsFiniteSet(sales')
  BY FS_AddElement DEF SaleInv
<1>3. \A s \in sales' : s[2] \in DOMAIN batches' /\ s[1] \in Fps /\ Doc(s[1]) \in seenDocs'
  BY <1>1 DEF SaleInv
<1>4. \A s1, s2 \in sales' : s1[1] = s2[1] => s1 = s2
  <2>1. \A s \in sales : s[1] # fp
    BY DEF Stored
  <2> QED BY <2>1 DEF SaleInv
<1>5. ASSUME NEW j \in DOMAIN batches'
      PROVE  Cardinality({s \in sales' : s[2] = j}) <= batches'[j].added
  <2> DEFINE Of  == {s \in sales : s[2] = j}
             New == {s \in sales' : s[2] = j}
  <2>1. batches[j] \in Batch /\ Cardinality(Of) <= batches[j].added
    BY <1>1 DEF SaleInv
  <2>2. batches[j].added \in Nat
    BY <2>1 DEF Batch
  <2>3. IsFiniteSet(Of) /\ Cardinality(Of) \in Nat
    BY <1>2, FS_Subset, FS_CardinalityType
  <2>4. CASE j # i
    <3>1. New = Of
      BY <2>4
    <3> QED BY <1>1, <2>1, <2>4, <3>1
  <2>5. CASE j = i
    <3>1. New = Of \cup {<<fp, i>>}
      BY <2>5
    <3> HIDE DEF Of, New
    <3>2. Cardinality(New) = Cardinality(Of) \/ Cardinality(New) = Cardinality(Of) + 1
      BY <2>3, <3>1, FS_AddElement
    <3>3. batches'[j].added = batches[j].added + 1
      BY <1>1, <2>5
    <3>4. Cardinality(New) <= batches'[j].added
      BY <2>1, <2>2, <2>3, <3>2, <3>3
    <3> QED BY <3>4 DEF New
  <2> QED BY <2>4, <2>5
<1> QED BY <1>2, <1>3, <1>4, <1>5 DEF SaleInv

LEMMA InsertStep == ASSUME IntakeInv, NEW t \in Tasks, Insert(t) PROVE IntakeInv'
<1>0. WorldInv /\ SaleInv /\ used \in [uploads : Nat, runs : Nat, removals : Nat, mishaps : Nat]
  BY DEF IntakeInv, WorldInv
<1>1. PICK i, c, r : i = task[t].batch /\ c = batches[i].content /\ r = Rows[c][task[t].row]
  OBVIOUS
<1>2. /\ task[t].pc = "insert" /\ task[t].pc \in {"row", "insert"}
      /\ UNCHANGED <<disk, remote, locks, runLock, nightly, snapshot, today, behind>>
  BY DEF Insert, At
<1>3. task[t].row <= Len(Rows[c])
  BY <1>1, <1>2 DEF IntakeInv, CountInv, Counts
<1>4. Wellformed(r) /\ r = Current(t)
  BY <1>1, <1>2, <1>3, RowFacts DEF Current, Content
<1>5. PICK s \in r.sale :
         \/ /\ Stored({s.fp}) /\ Count(t, "error")
            /\ UNCHANGED <<sales, announced, seenDocs, used>>
         \/ /\ ~Stored({s.fp}) /\ Count(t, "added")
            /\ sales' = sales \cup {<<s.fp, i>>}
            /\ seenDocs' = seenDocs \cup {Doc(s.fp)}
            /\ announced' = FALSE /\ UNCHANGED used
         \/ /\ Fault /\ Count(t, "error") /\ UNCHANGED <<sales, announced, seenDocs>>
  BY <1>1, <1>4, Zenon DEF Insert
<1>6. CASE Count(t, "error") /\ UNCHANGED <<sales, announced, seenDocs, used>>
  BY <1>0, <1>1, <1>2, <1>3, <1>6, ErrorStep
<1>7. CASE Fault /\ Count(t, "error") /\ UNCHANGED <<sales, announced, seenDocs>>
  BY <1>0, <1>1, <1>2, <1>3, <1>7, ErrorStep, FaultCounts
<1>8. CASE /\ ~Stored({s.fp}) /\ Count(t, "added")
           /\ sales' = sales \cup {<<s.fp, i>>}
           /\ seenDocs' = seenDocs \cup {Doc(s.fp)}
           /\ announced' = FALSE /\ UNCHANGED used
  <2>1. i \in DOMAIN batches /\ batches \in Seq(Batch)
    BY <1>1, <1>2, Importer DEF Importing
  <2>2. "added" \in Outcomes
    BY DEF Outcomes
  <2>3. PICK b \in Batch :
             /\ batches' = [batches EXCEPT ![i] = b]
             /\ b.content = batches[i].content /\ b.status = batches[i].status
             /\ b.total = batches[i].total + 1
             /\ b.total = b.added + b.duplicate + b.skipped + b.error
             /\ b.added = IF "added" = "added" THEN batches[i].added + 1 ELSE batches[i].added
             /\ b.error = IF "added" = "error" THEN batches[i].error + 1 ELSE batches[i].error
    BY <1>1, <1>2, <1>8, <2>2, Counted
  <2>4. SaleInv'
    <3>1. PICK fp : fp = s.fp
      OBVIOUS
    <3>2. fp \in Fps
      BY <1>4, <1>5, <3>1 DEF Wellformed
    <3> QED BY <1>0, <1>8, <2>1, <2>3, <3>1, <3>2, SaleMore
  <2>5. Tells(r)'
    <3>1. \A s1 \in r.sale : Doc(s1.fp) \in seenDocs'
      BY <1>4, <1>5, <1>8 DEF Wellformed
    <3> QED BY <1>5, <3>1 DEF Tells
  <2>6. seenDocs \subseteq seenDocs' /\ announced' \in BOOLEAN
    BY <1>8
  <2> QED BY <1>0, <1>1, <1>2, <1>3, <1>8, <2>2, <2>4, <2>5, <2>6, CountStep
<1> QED BY <1>5, <1>6, <1>7, <1>8

(* Two states of a batch with the same counters.                             *)
SameCounts(k, b) ==
    /\ b.content = k.content /\ b.total = k.total /\ b.added = k.added /\ b.error = k.error
    /\ b.duplicate = k.duplicate /\ b.skipped = k.skipped

LEMMA StatusSet ==
    ASSUME batches \in Seq(Batch), NEW i \in DOMAIN batches,
           NEW status \in {"processing", "completed", "failed"},
           batches' = [batches EXCEPT ![i].status = status]
    PROVE  \E b \in Batch : /\ batches' = [batches EXCEPT ![i] = b]
                            /\ b.status = status /\ SameCounts(batches[i], b)
<1>1. PICK k \in Batch : k = batches[i]
  OBVIOUS
<1>2. PICK b : b = [k EXCEPT !.status = status]
  OBVIOUS
<1>3. b \in Batch /\ b.status = status /\ SameCounts(k, b)
  BY <1>2 DEF Batch, SameCounts
<1>4. batches' = [batches EXCEPT ![i] = b]
  BY <1>1, <1>2
<1> QED BY <1>1, <1>3, <1>4

LEMMA PathCleared ==
    ASSUME batches \in Seq(Batch), NEW i \in DOMAIN batches,
           batches' = [batches EXCEPT ![i].path = FALSE]
    PROVE  \E b \in Batch : /\ batches' = [batches EXCEPT ![i] = b]
                            /\ b.status = batches[i].status /\ SameCounts(batches[i], b)
<1>1. PICK k \in Batch : k = batches[i]
  OBVIOUS
<1>2. PICK b : b = [k EXCEPT !.path = FALSE]
  OBVIOUS
<1>3. b \in Batch /\ b.status = k.status /\ SameCounts(k, b)
  BY <1>2 DEF Batch, SameCounts
<1>4. batches' = [batches EXCEPT ![i] = b]
  BY <1>1, <1>2
<1> QED BY <1>1, <1>3, <1>4

(* What writing a batch without counting leaves alone.                       *)
LEMMA Recorded ==
    ASSUME IntakeInv, NEW i \in DOMAIN batches, NEW b \in Batch,
           batches' = [batches EXCEPT ![i] = b], SameCounts(batches[i], b),
           UNCHANGED <<sales, seenDocs>>
    PROVE  /\ SaleInv' /\ batches' \in Seq(Batch) /\ DOMAIN batches' = DOMAIN batches
           /\ batches'[i] = b /\ \A j \in DOMAIN batches \ {i} : batches'[j] = batches[j]
           /\ \A j \in DOMAIN batches : batches'[j].content = batches[j].content
<1>1. batches \in Seq(Batch) /\ SaleInv
  BY DEF IntakeInv, WorldInv
<1>2. /\ batches' \in Seq(Batch) /\ DOMAIN batches' = DOMAIN batches /\ batches'[i] = b
      /\ \A j \in DOMAIN batches \ {i} : batches'[j] = batches[j]
  BY <1>1, BatchChanges
<1>3. \A j \in DOMAIN batches : /\ batches'[j].content = batches[j].content
                                /\ batches'[j].added = batches[j].added
  BY <1>2 DEF SameCounts
<1>4. \A j \in DOMAIN batches : batches[j].added \in Nat
  <2>1. \A j \in DOMAIN batches : batches[j] \in Batch
    BY <1>1
  <2> QED BY <2>1 DEF Batch
<1>5. \A j \in DOMAIN batches : batches'[j].added >= batches[j].added
  BY <1>3, <1>4
<1>6. SaleInv'
  BY <1>1, <1>2, <1>5, SalesStay
<1> QED BY <1>2, <1>3, <1>6

(* An import ends or fails: its task goes where no row is counted.           *)
LEMMA LeaveRows ==
    ASSUME IntakeInv, NEW t \in Tasks, NEW i, i = task[t].batch, task[t].pc \in Importing,
           Alone(t), task'[t] \in Task, task'[t].pc \in {"fail", "cleanup"},
           task'[t].todo = task[t].todo, task'[t].batch = i,
           task'[t].name = task[t].name, task'[t].raised => used'.mishaps # 0,
           \/ batches' = batches /\ announced' = announced
           \/ /\ announced' = TRUE /\ \E b \in Batch :
                    /\ batches' = [batches EXCEPT ![i] = b] /\ SameCounts(batches[i], b) /\ Adds(b)',
           UNCHANGED <<sales, disk, seenDocs, remote, locks, runLock, nightly, snapshot, today>>,
           used.mishaps # 0 => used'.mishaps # 0, behind' \in BOOLEAN,
           used' \in [uploads : Nat, runs : Nat, removals : Nat, mishaps : Nat]
    PROVE  IntakeInv'
<1>0. WorldInv /\ TaskInv /\ LockInv /\ SaleInv /\ CountInv /\ AnnouncedInv /\ BatchInv
  BY DEF IntakeInv
<1>1. /\ i \in DOMAIN batches /\ batches[i] \in Batch /\ i # 0 /\ i \in Claimed(t)
      /\ Importing \subseteq Places(t) /\ batches \in Seq(Batch)
  BY Importer
<1>2. /\ SaleInv' /\ batches' \in Seq(Batch) /\ DOMAIN batches' = DOMAIN batches
      /\ \A j \in DOMAIN batches \ {i} : batches'[j] = batches[j]
      /\ \A j \in DOMAIN batches : batches'[j].content = batches[j].content
  <2>1. CASE batches' = batches
    BY <1>0, <1>1, <2>1 DEF SaleInv
  <2>2. ASSUME NEW b \in Batch, batches' = [batches EXCEPT ![i] = b], SameCounts(batches[i], b)
        PROVE  <1>2
    BY <1>1, <2>2, Recorded
  <2> QED BY <2>1, <2>2
<1>3. /\ Fits(t)' /\ Claimed(t)' = Claimed(t) /\ LockInv'
      /\ \A j \in disk' : j \in disk /\ (Keeps(t, j) => Keeps(t, j)')
  <2>1. task'[t].pc \in Importing
    BY DEF Importing
  <2> QED BY <1>2, <2>1, ImportOn
<1>4. Counts(t)'
  <2>1. Elsewhere(t)'
    BY DEF Elsewhere
  <2>2. \A j \in Claimed(t) : batches'[j].content = batches[j].content
                              /\ (j # task[t].batch => batches'[j] = batches[j])
    <3>1. Claimed(t) \subseteq DOMAIN batches
      BY <1>0 DEF TaskInv, Fits
    <3> QED BY <1>2, <3>1
  <2> QED BY <1>0, <1>2, <2>1, <2>2, CountsElsewhere
<1>5. WorldInv'
  <2>1. announced' \in BOOLEAN
    BY <1>0 DEF WorldInv
  <2> QED BY <1>0, <1>2, <2>1 DEF WorldInv
<1>6. AnnouncedInv'
  BY <1>0, AnnouncedStays
<1>7. seenDocs \subseteq seenDocs' /\ Claimed(t)' \subseteq Claimed(t)
      /\ (used'.mishaps = 0 => \A j \in disk' : j \in disk /\ (Keeps(t, j) => Keeps(t, j)'))
  BY <1>3
<1>8. \/ batches' = batches
      \/ \E b \in Batch : /\ batches' = [batches EXCEPT ![task[t].batch] = b]
                          /\ task[t].batch \in DOMAIN batches /\ Adds(b)'
  BY <1>1
<1> QED BY <1>2, <1>3, <1>4, <1>5, <1>6, <1>7, <1>8, OwnStep

LEMMA CompleteStep == ASSUME IntakeInv, NEW t \in Tasks, Complete(t) PROVE IntakeInv'
<1>0. WorldInv /\ TaskInv /\ used \in [uploads : Nat, runs : Nat, removals : Nat, mishaps : Nat]
      /\ behind \in BOOLEAN
  BY DEF IntakeInv, WorldInv
<1>1. PICK i, c : i = task[t].batch /\ c = batches[i].content
  OBVIOUS
<1>2. /\ task[t].pc = "row" /\ task[t].row > Len(Rows[c]) /\ task[t].pc \in Importing
      /\ UNCHANGED <<sales, disk, seenDocs, remote, locks, runLock, nightly, snapshot, today, behind>>
  BY <1>1 DEF Complete, At, Content, Importing
<1>3. /\ i \in DOMAIN batches /\ batches[i] \in Batch /\ Importing \subseteq Places(t) /\ Fits(t)
      /\ batches \in Seq(Batch) /\ Counts(t)
  BY <1>1, <1>2, Importer
<1>4. ASSUME NEW l \in {"fail", "cleanup"}, Goto(t, l)
      PROVE  /\ Alone(t) /\ task'[t] \in Task /\ task'[t].pc \in {"fail", "cleanup"}
             /\ task'[t].todo = task[t].todo /\ task'[t].batch = i
             /\ task'[t].name = task[t].name /\ (task'[t].raised => used.mishaps # 0)
  <2>1. l \in Places(t)
    BY <1>3, <1>4 DEF Importing
  <2> QED BY <1>0, <1>1, <1>3, <1>4, <2>1, GotoFacts DEF Alike, Fits
<1>5. CASE Fault /\ Goto(t, "fail") /\ UNCHANGED <<batches, announced>>
  BY <1>0, <1>1, <1>2, <1>4, <1>5, LeaveRows, FaultCounts
<1>6. CASE /\ batches' = [batches EXCEPT ![task[t].batch].status = "completed"]
           /\ announced' = TRUE /\ Goto(t, "cleanup") /\ UNCHANGED used
  <2>1. PICK b \in Batch : /\ batches' = [batches EXCEPT ![i] = b]
                           /\ b.status = "completed" /\ SameCounts(batches[i], b)
    BY <1>1, <1>3, <1>6, StatusSet
  <2>2. /\ c \in Readable /\ task[t].row \in 1..(Len(Rows[c]) + 1) /\ batches[i].total = task[t].row - 1
        /\ (batches[i].error = 0 => Told(c, task[t].row - 1))
    BY <1>1, <1>2, <1>3 DEF Counts
  <2>3. PICK m \in Nat : m = Len(Rows[c])
    <3>1. c \in DOMAIN Files
      BY <2>2 DEF Readable
    <3>2. Rows[c] \in Seq(ToSet(Rows[c]))
      BY <3>1, FilesAssumption
    <3> QED BY <3>2
  <2>4. task[t].row - 1 = m
    BY <1>2, <2>2, <2>3
  <2>5. batches[i].total = m /\ (batches[i].error = 0 => Told(c, m))
    BY <2>2, <2>4
  <2>6. Told(c, m) => Told(c, m)'
    BY <1>2, ToldStays
  <2>7. batches[i].total = batches[i].added + batches[i].duplicate + batches[i].skipped + batches[i].error
    BY <1>3 DEF IntakeInv, BatchInv, Adds
  <2>8. b.error = 0 => Told(c, m)'
    BY <2>1, <2>5, <2>6 DEF SameCounts
  <2>9. b.total = b.added + b.duplicate + b.skipped + b.error /\ b.total = m /\ b.content = c
    BY <1>1, <2>1, <2>5, <2>7 DEF SameCounts
  <2>10. Adds(b)'
    BY <2>1, <2>2, <2>3, <2>8, <2>9, ZenonT(60) DEF Adds, Told
  <2> QED BY <1>0, <1>1, <1>2, <1>4, <1>6, <2>1, <2>10, LeaveRows
<1> QED BY <1>5, <1>6 DEF Complete

LEMMA FailStep == ASSUME IntakeInv, NEW t \in Tasks, Fail(t) PROVE IntakeInv'
<1>0. WorldInv /\ TaskInv /\ used \in [uploads : Nat, runs : Nat, removals : Nat, mishaps : Nat]
  BY DEF IntakeInv, WorldInv
<1>1. PICK i : i = task[t].batch
  OBVIOUS
<1>2. /\ task[t].pc = "fail" /\ task[t].pc \in Importing /\ behind' = TRUE
      /\ UNCHANGED <<sales, disk, seenDocs, remote, locks, runLock, nightly, snapshot, today>>
  BY DEF Fail, At, Importing
<1>3. /\ i \in DOMAIN batches /\ batches[i] \in Batch /\ Importing \subseteq Places(t) /\ Fits(t)
      /\ batches \in Seq(Batch) /\ "cleanup" \in Places(t)
  BY <1>1, <1>2, Importer DEF Importing
<1>4. CASE Fault /\ Raise(t, "cleanup") /\ UNCHANGED <<batches, announced>>
  <2>1. /\ Alone(t) /\ task'[t].pc = "cleanup" /\ task'[t] \in Task /\ task'[t].todo = task[t].todo
        /\ task'[t].batch = i /\ task'[t].name = task[t].name
    BY <1>0, <1>1, <1>3, <1>4, RaiseFacts
  <2> QED BY <1>0, <1>1, <1>2, <1>4, <2>1, LeaveRows, FaultCounts
<1>5. CASE /\ batches' = [batches EXCEPT ![task[t].batch].status = "failed"]
           /\ announced' = TRUE /\ Goto(t, "cleanup") /\ UNCHANGED used
  <2>1. PICK b \in Batch : /\ batches' = [batches EXCEPT ![i] = b]
                           /\ b.status = "failed" /\ SameCounts(batches[i], b)
    BY <1>1, <1>3, <1>5, StatusSet
  <2>2. batches[i].total = batches[i].added + batches[i].duplicate + batches[i].skipped + batches[i].error
    BY <1>3 DEF IntakeInv, BatchInv, Adds
  <2>3. Adds(b)'
    BY <2>1, <2>2 DEF Adds, SameCounts
  <2>4. /\ Alone(t) /\ task'[t].pc = "cleanup" /\ task'[t] \in Task /\ task'[t].todo = task[t].todo
        /\ task'[t].batch = i /\ task'[t].name = task[t].name /\ (task'[t].raised => used.mishaps # 0)
    BY <1>0, <1>1, <1>3, <1>5, GotoFacts DEF Alike, Fits
  <2> QED BY <1>0, <1>1, <1>2, <1>5, <2>1, <2>3, <2>4, LeaveRows
<1> QED BY <1>4, <1>5 DEF Fail

LEMMA BeginStep == ASSUME IntakeInv, NEW t \in Tasks, Begin(t) PROVE IntakeInv'
<1>0. /\ WorldInv /\ TaskInv /\ LockInv /\ SaleInv /\ CountInv /\ AnnouncedInv /\ BatchInv
      /\ used \in [uploads : Nat, runs : Nat, removals : Nat, mishaps : Nat]
  BY DEF IntakeInv, WorldInv
<1>1. PICK i, c : i = task[t].batch /\ c = batches[i].content
  OBVIOUS
<1>2. /\ task[t].pc = "lock" /\ t # "removal" /\ exclusive = {} /\ shared' = shared \cup {t}
      /\ UNCHANGED <<sales, disk, announced, seenDocs, remote, exclusive, rfmLock, runLock,
                     nightly, snapshot, today, behind>>
  BY DEF Begin, At
<1>3. /\ i \in DOMAIN batches /\ batches[i] \in Batch /\ i # 0 /\ i \in Claimed(t)
      /\ t = "upload" => i \notin ToSet(task[t].todo)
      /\ Importing \subseteq Places(t) /\ Fits(t) /\ Counts(t) /\ batches \in Seq(Batch)
      /\ t \in Autoloads => task[t].name \in Names
  BY <1>1, <1>2, Importer
<1>4. ASSUME Alone(t), task'[t] \in Task, task'[t].pc \in Importing, task'[t].todo = task[t].todo,
             task'[t].batch = i, task'[t].name = task[t].name, task'[t].raised => used'.mishaps # 0,
             DOMAIN batches \subseteq DOMAIN batches'
      PROVE  /\ Fits(t)' /\ Claimed(t)' = Claimed(t) /\ LockInv'
             /\ \A j \in disk' : j \in disk /\ (Keeps(t, j) => Keeps(t, j)')
  <2>1. "idle" \notin Importing
    BY DEF Importing
  <2>2. Fits(t)' /\ Claimed(t)' = Claimed(t)
    BY <1>0, <1>1, <1>3, <1>4, <2>1, FitsOn
  <2>3. LockInv'
    <3>1. UNCHANGED <<exclusive, rfmLock, runLock>> /\ task[t].pc \in {"lock", "idle"}
          /\ (t \in Autoloads => task[t].pc # "idle") /\ task'[t].pc \in Importing \cup {"delete"}
      BY <1>2, <1>4
    <3> QED BY <1>0, <1>2, <1>4, <3>1, LocksTake
  <2>4. \A j \in disk' : j \in disk /\ (Keeps(t, j) => Keeps(t, j)')
    BY <1>1, <1>2, <1>4 DEF Keeps
  <2> QED BY <2>2, <2>3, <2>4
<1>5. CASE Fault /\ Raise(t, "cleanup") /\ UNCHANGED batches
  <2>1. /\ Alone(t) /\ task'[t].pc = "cleanup" /\ task'[t] \in Task /\ task'[t].todo = task[t].todo
        /\ task'[t].batch = i /\ task'[t].name = task[t].name /\ task'[t].pc \in Importing
    BY <1>0, <1>1, <1>3, <1>5, RaiseFacts DEF Importing
  <2>2. /\ Fits(t)' /\ Claimed(t)' = Claimed(t) /\ LockInv'
        /\ \A j \in disk' : j \in disk /\ (Keeps(t, j) => Keeps(t, j)')
    BY <1>0, <1>4, <1>5, <2>1, FaultCounts
  <2>3. Counts(t)'
    <3>1. Elsewhere(t)'
      BY <2>1 DEF Elsewhere
    <3> QED BY <1>0, <1>1, <1>5, <2>1, <3>1, CountsElsewhere DEF WorldInv
  <2>4. WorldInv'
    BY <1>0, <1>2, <1>5, FaultCounts DEF WorldInv
  <2> QED BY <1>0, <1>2, <1>5, <2>1, <2>2, <2>3, <2>4, TaskStep, FaultCounts
<1>6. CASE /\ batches' = [batches EXCEPT ![task[t].batch].status = "processing"]
           /\ task' = IF Content(t) \in Readable
                      THEN [task EXCEPT ![t].pc = "row", ![t].row = 1]
                      ELSE [task EXCEPT ![t].pc = "fail"]
           /\ UNCHANGED used
  <2>1. PICK b \in Batch : /\ batches' = [batches EXCEPT ![i] = b]
                           /\ b.status = "processing" /\ SameCounts(batches[i], b)
    BY <1>1, <1>3, <1>6, StatusSet
  <2>2. /\ SaleInv' /\ batches' \in Seq(Batch) /\ DOMAIN batches' = DOMAIN batches
        /\ batches'[i] = b /\ \A j \in DOMAIN batches \ {i} : batches'[j] = batches[j]
        /\ \A j \in DOMAIN batches : batches'[j].content = batches[j].content
    BY <1>2, <1>3, <2>1, Recorded
  <2>3. batches[i].status = "queued" /\ batches[i].total = 0
        /\ batches[i].total = batches[i].added + batches[i].duplicate + batches[i].skipped + batches[i].error
    BY <1>0, <1>1, <1>2, <1>3 DEF Counts, BatchInv, Adds
  <2>4. Adds(b)'
    BY <2>1, <2>3 DEF Adds, SameCounts
  <2>5. PICK n \in Task :
          /\ task' = [task EXCEPT ![t] = n] /\ n.todo = task[t].todo /\ n.batch = i
          /\ n.name = task[t].name /\ n.raised = task[t].raised
          /\ \/ n.pc = "row" /\ n.row = 1 /\ c \in Readable
             \/ n.pc = "fail"
    <3>1. PICK k \in Task : k = task[t]
      BY <1>0 DEF TaskInv
    <3>2. {"row", "fail"} \subseteq UNION {Places(u) : u \in Tasks}
      BY <1>3 DEF Importing
    <3>3. CASE c \in Readable
      <4>1. PICK n : n = [k EXCEPT !.pc = "row", !.row = 1]
        OBVIOUS
      <4>2. /\ n \in Task /\ n.pc = "row" /\ n.todo = k.todo /\ n.batch = k.batch
            /\ n.name = k.name /\ n.raised = k.raised /\ n.row = 1
        BY <3>2, <4>1 DEF Task
      <4>3. task' = [task EXCEPT ![t] = n]
        BY <1>0, <1>1, <1>6, <3>1, <3>3, <4>1 DEF Content, TaskInv
      <4> QED BY <1>1, <3>1, <3>3, <4>2, <4>3
    <3>4. CASE c \notin Readable
      <4>1. PICK n : n = [k EXCEPT !.pc = "fail"]
        OBVIOUS
      <4>2. /\ n \in Task /\ n.pc = "fail" /\ n.todo = k.todo /\ n.batch = k.batch
            /\ n.name = k.name /\ n.raised = k.raised
        BY <3>2, <4>1 DEF Task
      <4>3. task' = [task EXCEPT ![t] = n]
        BY <1>0, <1>1, <1>6, <3>1, <3>4, <4>1 DEF Content, TaskInv
      <4> QED BY <1>1, <3>1, <4>2, <4>3
    <3> QED BY <3>3, <3>4
  <2>6. Alone(t) /\ task'[t] = n
    BY <1>0, <2>5, AloneExcept DEF TaskInv
  <2>7. /\ Fits(t)' /\ Claimed(t)' = Claimed(t) /\ LockInv'
        /\ \A j \in disk' : j \in disk /\ (Keeps(t, j) => Keeps(t, j)')
    <3>1. task'[t].pc \in Importing
      BY <2>5, <2>6 DEF Importing
    <3>2. task'[t].raised => used'.mishaps # 0
      BY <1>3, <1>6, <2>5, <2>6 DEF Fits
    <3> QED BY <1>4, <2>2, <2>5, <2>6, <3>1, <3>2
  <2>8. Counts(t)'
    <3>1. CASE n.pc = "fail"
      <4>1. Elsewhere(t)'
        BY <2>5, <2>6, <3>1 DEF Elsewhere
      <4>2. \A j \in Claimed(t) : batches'[j].content = batches[j].content
                                  /\ (j # task[t].batch => batches'[j] = batches[j])
        BY <1>1, <1>3, <2>2 DEF Fits
      <4> QED BY <1>0, <1>1, <2>2, <2>5, <2>6, <4>1, <4>2, CountsElsewhere
    <3>2. CASE n.pc = "row" /\ n.row = 1 /\ c \in Readable
      <4>1. b.status = "processing" /\ b.content = c /\ b.total = 0 /\ batches'[task'[t].batch] = b
        BY <1>1, <2>1, <2>2, <2>3, <2>5, <2>6 DEF SameCounts
      <4>2. Len(Rows[c]) \in Nat
        <5>1. c \in DOMAIN Files
          BY <3>2 DEF Readable
        <5>2. Rows[c] \in Seq(ToSet(Rows[c]))
          BY <5>1, FilesAssumption
        <5> QED BY <5>2
      <4>3. /\ task'[t].pc = "row" /\ task'[t].row \in 1..(Len(Rows[c]) + 1)
            /\ b.total = task'[t].row - 1
        BY <2>5, <2>6, <3>2, <4>1, <4>2
      <4>4. \A m \in 1..(task'[t].row - 1) : FALSE
        BY <2>6, <3>2
      <4>5. t = "upload" => \A j \in ToSet(task'[t].todo) : batches'[j].status = "queued"
        <5>1. t = "upload" => \A j \in ToSet(task[t].todo) :
                j \in DOMAIN batches \ {i} /\ batches[j].status = "queued"
          BY <1>3 DEF Counts, Fits, Claimed
        <5> QED BY <2>2, <2>5, <2>6, <5>1
      <4>6. t \in Autoloads => b.content = Remote[task'[t].name]
        BY <1>1, <1>3, <2>5, <2>6, <4>1 DEF Counts
      <4> QED BY <3>2, <4>1, <4>3, <4>4, <4>5, <4>6, ZenonT(60) DEF Counts, Told
    <3> QED BY <2>5, <3>1, <3>2
  <2>9. WorldInv'
    BY <1>0, <1>2, <1>6, <2>2 DEF WorldInv
  <2>10. AnnouncedInv'
    <3>1. \A j \in DOMAIN batches : batches[j].status = "processing" =>
            j \in DOMAIN batches' /\ batches'[j].status = "processing"
      BY <2>2, <2>3
    <3> QED BY <1>0, <1>2, <3>1, AnnouncedStays
  <2>11. \/ batches' = batches
         \/ \E x \in Batch : /\ batches' = [batches EXCEPT ![task[t].batch] = x]
                             /\ task[t].batch \in DOMAIN batches /\ Adds(x)'
    BY <1>1, <1>3, <2>1, <2>4
  <2> QED BY <1>2, <1>6, <2>2, <2>6, <2>7, <2>8, <2>9, <2>10, <2>11, OwnStep
<1> QED BY <1>2, <1>5, <1>6, Zenon DEF Begin

-----------------------------------------------------------------------------
(* Ends of an import and of a rebuild                                        *)

(* Where a task goes on after its import, or after the rebuild.              *)
Onward(t) == {"request", AfterImport(t)} \cup (IF t \in Autoloads THEN {"mark"} ELSE {})

LEMMA OnwardFacts ==
    ASSUME NEW t \in Tasks, NEW l \in Onward(t) \cup {"idle"}
    PROVE  /\ l \in Places(t)
           /\ l \notin Importing \cup Looking \cup {"delete", "source", "list", "lock", "row", "insert"}
           /\ l = "finish" => t \in Autoloads
           /\ l \in Onward(t) /\ t # "removal" => l # "idle"
<1>1. t \in Autoloads => t # "upload" /\ t # "removal"
  BY IntakeAssumption
<1>2. l \in {"request", "idle", "next", "finish", "mark"}
      /\ (l = "next" => t = "upload") /\ (l \in {"finish", "mark"} => t \in Autoloads)
  BY <1>1 DEF Onward, AfterImport
<1>3. l \in Places(t)
  BY <1>1, <1>2 DEF Places, Rebuilding, Serving
<1>4. l \in Onward(t) /\ t # "removal" => l # "idle"
  BY <1>1, TasksAre DEF Onward, AfterImport
<1> QED BY <1>2, <1>3, <1>4 DEF Importing, Looking

LEMMA ResumeFacts ==
    ASSUME TaskInv, NEW t \in Tasks, NEW l \in Onward(t) \cup {"idle"}
    PROVE  \E n \in Task :
             /\ n = Resume(t, l) /\ n.pc = l /\ n.raised = FALSE
             /\ l # "idle" => n.todo = task[t].todo /\ n.batch = task[t].batch /\ n.name = task[t].name
             /\ l = "idle" => n = Idle
<1>0. PICK n : n = Resume(t, l)
  OBVIOUS
<1>1. CASE l = "idle"
  BY <1>0, <1>1, IdleFacts DEF Resume
<1>2. CASE l # "idle"
  <2>1. PICK k \in Task : k = task[t]
    BY DEF TaskInv
  <2>2. n = [k EXCEPT !.pc = l, !.raised = FALSE, !.row = 0, !.tries = 0,
                      !.day = 1, !.served = FALSE, !.seen = {}]
    BY <1>0, <1>2, <2>1 DEF Resume
  <2>3. l \in UNION {Places(u) : u \in Tasks} /\ 1 \in Days
    BY OnwardFacts, IdleFacts, IntakeAssumption DEF Days
  <2>4. /\ n \in Task /\ n.pc = l /\ n.raised = FALSE /\ n.todo = k.todo /\ n.batch = k.batch
        /\ n.name = k.name
    <3>1. n = [pc |-> l, todo |-> k.todo, batch |-> k.batch, name |-> k.name, form |-> k.form,
               row |-> 0, raised |-> FALSE, tries |-> 0, day |-> 1, served |-> FALSE, seen |-> {}]
      BY <2>2 DEF Task
    <3>2. k.todo \in Seq(Nat) \cup Seq(Entry) /\ k.batch \in Nat /\ k.name \in Names \cup {0}
          /\ k.form \in Listed
      BY DEF Task
    <3> QED BY <2>3, <3>1, <3>2 DEF Task
  <2> QED BY <1>0, <1>2, <2>1, <2>4
<1> QED BY <1>1, <1>2

(* A task that has resumed so fits, whatever became of the batches.          *)
LEMMA ResumeFits ==
    ASSUME TaskInv, CountInv, NEW t \in Tasks, NEW l \in Onward(t) \cup {"idle"}, Alone(t),
           task'[t] = Resume(t, l), task[t].pc \notin {"idle", "list"},
           t # "removal" => task[t].batch # 0,
           batches' \in Seq(Batch), DOMAIN batches \subseteq DOMAIN batches',
           \A i \in Claimed(t) : batches'[i].content = batches[i].content
                               /\ (i # task[t].batch => batches'[i] = batches[i])
    PROVE  /\ Fits(t)' /\ Claimed(t)' \subseteq Claimed(t) /\ Counts(t)'
           /\ l # "idle" => Claimed(t)' = Claimed(t)
<1>1. PICK n \in Task :
        /\ n = Resume(t, l) /\ n.pc = l /\ n.raised = FALSE
        /\ l # "idle" => n.todo = task[t].todo /\ n.batch = task[t].batch /\ n.name = task[t].name
        /\ l = "idle" => n = Idle
  BY ResumeFacts
<1>2. n \in Task
  OBVIOUS
<1>3. /\ l \in Places(t)
      /\ l \notin Importing \cup Looking \cup {"delete", "source", "list", "lock", "row", "insert"}
      /\ l = "finish" => t \in Autoloads
  BY OnwardFacts
<1>4. Fits(t)
  BY DEF TaskInv
<1>5. CASE l = "idle"
  <2>1. /\ task'[t] = Idle /\ Idle \in Task /\ Idle.pc = "idle" /\ Idle.batch = 0 /\ Idle.todo = <<>>
        /\ Idle.raised = FALSE
    BY <1>1, <1>2, <1>5, IdleFacts
  <2>2. Claimed(t)' = {} /\ ToSet(<<>>) = {} /\ DOMAIN <<>> = {} /\ <<>> \in Seq(Nat) /\ <<>> \in Seq(Entry)
    BY <2>1 DEF Claimed, ToSet
  <2>3. Fits(t)'
    BY <1>3, <1>5, <2>1, <2>2 DEF Fits, Importing, Rebuilding
  <2>4. Counts(t)'
    BY <2>1, <2>2 DEF Counts
  <2> QED BY <1>5, <2>2, <2>3, <2>4
<1>6. CASE l # "idle"
  <2>1. /\ task'[t] \in Task /\ task'[t].pc = l /\ task'[t].raised = FALSE
        /\ task'[t].todo = task[t].todo /\ task'[t].batch = task[t].batch /\ task'[t].name = task[t].name
    BY <1>1, <1>2, <1>6
  <2>2. Fits(t)' /\ Claimed(t)' = Claimed(t)
    <3>2. t \in Autoloads => task'[t].pc = "list" \/ task[t].name \in Names
      BY <1>4 DEF Fits
    <3> QED BY <1>3, <1>6, <2>1, <3>2, FitsOn
  <2>3. Elsewhere(t)'
    BY <1>3, <2>1 DEF Elsewhere
  <2>4. Counts(t)'
    BY <2>1, <2>3, CountsElsewhere
  <2> QED BY <2>2, <2>4
<1> QED BY <1>5, <1>6

LEMMA CleanUpStep == ASSUME IntakeInv, NEW t \in Tasks, CleanUp(t) PROVE IntakeInv'
<1>0. /\ WorldInv /\ TaskInv /\ LockInv /\ SaleInv /\ CountInv /\ AnnouncedInv /\ BatchInv
      /\ used \in [uploads : Nat, runs : Nat, removals : Nat, mishaps : Nat]
  BY DEF IntakeInv, WorldInv
<1>1. PICK i : i = task[t].batch
  OBVIOUS
<1>2. /\ task[t].pc = "cleanup" /\ task[t].pc \in Importing /\ shared' = shared \ {t}
      /\ UNCHANGED <<sales, seenDocs, remote, exclusive, rfmLock, runLock, nightly, snapshot, today>>
  BY DEF CleanUp, At, Importing
<1>3. /\ i \in DOMAIN batches /\ batches[i] \in Batch /\ i # 0 /\ i \in Claimed(t) /\ t # "removal"
      /\ Fits(t) /\ batches \in Seq(Batch)
  BY <1>1, <1>2, Importer
<1>4. ASSUME NEW l \in Onward(t) \cup {"idle"}, task' = [task EXCEPT ![t] = Resume(t, l)],
             l = "idle" => t = "upload" /\ used'.mishaps # 0,
             \/ batches' = batches
             \/ batches' = [batches EXCEPT ![i].path = FALSE],
             announced' = announced \/ announced' = TRUE, behind' \in BOOLEAN,
             used.mishaps # 0 => used'.mishaps # 0,
             used' \in [uploads : Nat, runs : Nat, removals : Nat, mishaps : Nat],
             disk' \subseteq disk, used'.mishaps = 0 => i \notin disk'
      PROVE  IntakeInv'
  <2>1. \/ batches' = batches
        \/ \E b \in Batch : /\ batches' = [batches EXCEPT ![i] = b] /\ b.status = batches[i].status
                            /\ SameCounts(batches[i], b) /\ Adds(b)'
    <3>1. CASE batches' = [batches EXCEPT ![i].path = FALSE]
      <4>1. PICK b \in Batch : /\ batches' = [batches EXCEPT ![i] = b]
                               /\ b.status = batches[i].status /\ SameCounts(batches[i], b)
        BY <1>3, <3>1, PathCleared
      <4>2. PICK k : k = batches[i]
        OBVIOUS
      <4>3. Adds(k)'
        BY <1>0, <1>2, <1>3, <4>2, AddsStay DEF BatchInv
      <4>4. Adds(b)'
        BY <4>1, <4>2, <4>3, ZenonT(60) DEF Adds, SameCounts, Told
      <4> QED BY <4>1, <4>4
    <3> QED BY <1>4, <3>1
  <2>2. /\ SaleInv' /\ batches' \in Seq(Batch) /\ DOMAIN batches' = DOMAIN batches
        /\ \A j \in DOMAIN batches \ {i} : batches'[j] = batches[j]
        /\ \A j \in DOMAIN batches : /\ batches'[j].content = batches[j].content
                                     /\ batches'[j].status = batches[j].status
    <3>1. CASE batches' = batches
      BY <1>0, <1>2, <1>3, <3>1 DEF SaleInv
    <3>2. ASSUME NEW b \in Batch, batches' = [batches EXCEPT ![i] = b], b.status = batches[i].status,
                 SameCounts(batches[i], b)
          PROVE  <2>2
      BY <1>2, <1>3, <3>2, Recorded
    <3> QED BY <2>1, <3>1, <3>2
  <2>3. PICK n \in Task :
          /\ n = Resume(t, l) /\ n.pc = l /\ n.raised = FALSE
          /\ l # "idle" => n.todo = task[t].todo /\ n.batch = task[t].batch /\ n.name = task[t].name
          /\ l = "idle" => n = Idle
    BY <1>0, <1>4, ResumeFacts
  <2>4. /\ n \in Task /\ n.pc = l
        /\ l # "idle" => n.todo = task[t].todo /\ n.batch = task[t].batch /\ n.name = task[t].name
    BY <2>3
  <2>5. Alone(t) /\ task'[t] = n
    BY <1>0, <1>4, <2>3, <2>4, AloneExcept DEF TaskInv
  <2>6. /\ Fits(t)' /\ Claimed(t)' \subseteq Claimed(t) /\ Counts(t)'
    <3>1. \A j \in Claimed(t) : batches'[j].content = batches[j].content
                                /\ (j # task[t].batch => batches'[j] = batches[j])
      BY <1>1, <1>3, <2>2 DEF Fits
    <3>2. task[t].pc \notin {"idle", "list"} /\ task'[t] = Resume(t, l) /\ task[t].batch # 0
      BY <1>1, <1>2, <1>3, <2>3, <2>5
    <3>3. l \in Onward(t) \cup {"idle"}
      BY <1>4
    <3> QED BY <1>0, <2>2, <2>5, <3>1, <3>2, <3>3, ResumeFits
  <2>7. LockInv'
    <3>1. l \notin Importing \cup Looking \cup {"delete", "source"}
      BY <1>4, OnwardFacts
    <3>2. t \in Autoloads => l # "idle"
      BY <1>4, TasksAre
    <3>3. t \notin exclusive /\ t \notin rfmLock
      BY <1>0, <1>2 DEF LockInv, Looking
    <3>4. exclusive' = exclusive \ {t} /\ rfmLock' = rfmLock \ {t} /\ runLock' = runLock
      BY <1>2, <3>3
    <3>5. task'[t].pc = l /\ task[t].pc # "idle"
      BY <1>2, <2>4, <2>5
    <3> QED BY <1>0, <1>2, <2>5, <3>1, <3>2, <3>4, <3>5, LocksGive
  <2>8. WorldInv'
    <3>1. announced' \in BOOLEAN
      BY <1>0, <1>4 DEF WorldInv
    <3> QED BY <1>0, <1>2, <1>4, <2>2, <3>1 DEF WorldInv
  <2>9. AnnouncedInv'
    BY <1>0, <1>4, <2>2, AnnouncedStays
  <2>10. used'.mishaps = 0 => \A j \in disk' : j \in disk /\ (Keeps(t, j) => Keeps(t, j)')
    <3>1. ASSUME used'.mishaps = 0, NEW j \in disk', Keeps(t, j) PROVE Keeps(t, j)'
      <4>1. j # i /\ l # "idle"
        BY <1>4, <3>1
      <4> QED BY <1>1, <2>4, <2>5, <3>1, <4>1 DEF Keeps
    <3> QED BY <1>4, <3>1
  <2>11. \/ batches' = batches
         \/ \E b \in Batch : /\ batches' = [batches EXCEPT ![task[t].batch] = b]
                             /\ task[t].batch \in DOMAIN batches /\ Adds(b)'
    BY <1>1, <1>3, <2>1
  <2> QED BY <1>2, <1>4, <2>2, <2>5, <2>6, <2>7, <2>8, <2>9, <2>10, <2>11, OwnStep
<1>5. Aborted(t) => \E l \in Onward(t) \cup {"idle"} : /\ task' = [task EXCEPT ![t] = Resume(t, l)]
                                                       /\ l = "idle" => t = "upload"
  <2>1. CASE t \in Autoloads
    <3>1. Aborted(t) => task' = [task EXCEPT ![t] = Resume(t, "mark")]
      BY <2>1 DEF Aborted
    <3>2. "mark" \in Onward(t)
      BY <2>1 DEF Onward
    <3> QED BY <3>1, <3>2
  <2>2. CASE t \notin Autoloads
    <3>1. Aborted(t) => task' = [task EXCEPT ![t] = Resume(t, "idle")]
      BY <2>2 DEF Aborted
    <3> QED BY <1>3, <2>2, <3>1, TasksAre
  <2> QED BY <2>1, <2>2
<1>6. CASE /\ Fault /\ Aborted(t) /\ announced' = TRUE /\ behind' = TRUE
           /\ UNCHANGED <<disk, batches>>
  BY <1>0, <1>4, <1>5, <1>6, FaultCounts
<1>7. ASSUME disk' = disk \ {i}, batches' = [batches EXCEPT ![i].path = FALSE], UNCHANGED behind,
             task[t].raised, Aborted(t),
             (announced' = TRUE /\ UNCHANGED used) \/ (Fault /\ UNCHANGED announced)
      PROVE  IntakeInv'
  <2>1. used.mishaps # 0 /\ behind' \in BOOLEAN
    BY <1>0, <1>3, <1>7 DEF Fits, WorldInv
  <2>2. used'.mishaps # 0 /\ used' \in [uploads : Nat, runs : Nat, removals : Nat, mishaps : Nat]
    BY <1>0, <1>7, <2>1, FaultCounts
  <2> QED BY <1>4, <1>5, <1>7, <2>1, <2>2
<1>8. ASSUME disk' = disk \ {i}, batches' = [batches EXCEPT ![i].path = FALSE], UNCHANGED behind,
             UNCHANGED <<announced, used>>,
             task' = [task EXCEPT ![t] = Resume(t,
                IF batches[task[t].batch].status = "completed" THEN "request"
                ELSE AfterImport(t))]
      PROVE  IntakeInv'
  <2>1. PICK l \in Onward(t) : task' = [task EXCEPT ![t] = Resume(t, l)]
    BY <1>8 DEF Onward
  <2>2. l # "idle" /\ behind' \in BOOLEAN
    BY <1>0, <1>3, <1>8, OnwardFacts DEF WorldInv
  <2> QED BY <1>0, <1>4, <1>8, <2>1, <2>2
<1>9. \/ /\ disk' = disk \ {i} /\ batches' = [batches EXCEPT ![i].path = FALSE] /\ UNCHANGED behind
         /\ \/ /\ task[t].raised /\ Aborted(t)
               /\ (announced' = TRUE /\ UNCHANGED used) \/ (Fault /\ UNCHANGED announced)
            \/ /\ UNCHANGED <<announced, used>>
               /\ task' = [task EXCEPT ![t] = Resume(t,
                     IF batches[task[t].batch].status = "completed" THEN "request"
                     ELSE AfterImport(t))]
      \/ /\ Fault /\ Aborted(t) /\ announced' = TRUE /\ behind' = TRUE
         /\ UNCHANGED <<disk, batches>>
  BY <1>1, Zenon DEF CleanUp
<1> QED BY <1>6, <1>7, <1>8, <1>9, Zenon

-----------------------------------------------------------------------------
(* Removals and rebuilds                                                     *)

LEMMA LockRemovalStep == ASSUME IntakeInv, LockRemoval PROVE IntakeInv'
<1>0. WorldInv /\ TaskInv /\ LockInv /\ CountInv
  BY DEF IntakeInv
<1> DEFINE t == "removal"
<1>1. /\ t \in Tasks /\ Goto(t, "delete") /\ task[t].pc = "lock" /\ exclusive = {}
      /\ shared' = shared \cup {t}
      /\ UNCHANGED <<batches, sales, disk, announced, seenDocs, remote, exclusive,
                     rfmLock, runLock, nightly, snapshot, today, used, behind>>
  BY TasksAre DEF LockRemoval, At, store
<1>2. "delete" \in Places(t)
  BY DEF Places
<1>3. Alone(t) /\ task'[t].pc = "delete" /\ Alike(task[t], task'[t]) /\ task'[t] \in Task
  BY <1>0, <1>1, <1>2, GotoFacts
<1>4. WorldInv'
  BY <1>0, <1>1 DEF WorldInv
<1>5. Fits(t)' /\ Claimed(t)' = Claimed(t)
  <2>1. Fits(t)
    BY <1>0, <1>1 DEF TaskInv
  <2> QED BY <1>0, <1>1, <1>2, <1>3, <2>1, TasksAre, FitsOn DEF Alike, Fits
<1>6. Counts(t)'
  BY <1>0, <1>1, <1>3, CountsElsewhere, TasksAre DEF Elsewhere, Alike, WorldInv
<1>7. LockInv'
  BY <1>0, <1>1, <1>3, LocksTake, TasksAre
<1>8. \A i \in disk' : i \in disk /\ (Keeps(t, i) => Keeps(t, i)')
  <2>1. Fits(t)
    BY <1>0, <1>1 DEF TaskInv
  <2>2. 0 \notin disk /\ task[t].batch = 0
    BY <1>0, <2>1 DEF WorldInv, Fits
  <2> QED BY <1>1, <2>2 DEF Keeps
<1> QED BY <1>1, <1>3, <1>4, <1>5, <1>6, <1>7, <1>8, TaskStep

LEMMA DeleteStep == ASSUME IntakeInv, Delete PROVE IntakeInv'
<1>0. WorldInv /\ TaskInv /\ LockInv /\ CountInv /\ SaleInv /\ AnnouncedInv /\ batches \in Seq(Batch)
      /\ used \in [uploads : Nat, runs : Nat, removals : Nat, mishaps : Nat]
  BY DEF IntakeInv, WorldInv
<1> DEFINE t == "removal"
<1>1. /\ t \in Tasks /\ task[t].pc = "delete" /\ shared' = shared \ {t}
      /\ UNCHANGED <<batches, disk, seenDocs, remote, exclusive,
                     rfmLock, runLock, nightly, snapshot, today, behind>>
  BY TasksAre DEF Delete, At
<1>2. ASSUME NEW l \in {"request", "idle"}, Alone(t), task'[t] \in Task, task'[t].pc = l,
             Fits(t)', Claimed(t)' \subseteq Claimed(t), Counts(t)',
             sales' \subseteq sales, announced' = TRUE \/ announced' = announced,
             used.mishaps # 0 => used'.mishaps # 0,
             used' \in [uploads : Nat, runs : Nat, removals : Nat, mishaps : Nat]
      PROVE  IntakeInv'
  <2>1. WorldInv'
    <3>1. announced' \in BOOLEAN
      BY <1>0, <1>2 DEF WorldInv
    <3> QED BY <1>0, <1>1, <1>2, <3>1 DEF WorldInv
  <2>2. SaleInv'
    <3>1. \A i \in DOMAIN batches : batches[i].added >= batches[i].added
      <4>1. \A i \in DOMAIN batches : batches[i] \in Batch
        BY <1>0
      <4> QED BY <4>1 DEF Batch
    <3> QED BY <1>0, <1>1, <1>2, <3>1, SalesStay
  <2>3. LockInv'
    <3>1. l \notin Importing \cup Looking \cup {"delete", "source"}
      BY DEF Importing, Looking
    <3>2. exclusive' = exclusive \ {t} /\ rfmLock' = rfmLock \ {t}
      BY <1>0, <1>1 DEF LockInv, Looking
    <3> QED BY <1>0, <1>1, <1>2, <3>1, <3>2, LocksGive, TasksAre
  <2>4. AnnouncedInv'
    BY <1>0, <1>1, <1>2, AnnouncedStays
  <2>5. \A i \in disk' : i \in disk /\ (Keeps(t, i) => Keeps(t, i)')
    BY <1>1 DEF Keeps, Importing
  <2> QED BY <1>1, <1>2, <2>1, <2>2, <2>3, <2>4, <2>5, OwnStep
<1>3. Fits(t)
  BY <1>0, <1>1 DEF TaskInv
<1>4. CASE /\ \E filter \in Filters : sales' = {s \in sales : s[1][2] \notin filter}
           /\ announced' = TRUE /\ Goto(t, "request") /\ UNCHANGED used
  <2>1. "request" \in Places(t) /\ sales' \subseteq sales
    BY <1>4 DEF Places, Rebuilding
  <2>2. Alone(t) /\ task'[t].pc = "request" /\ Alike(task[t], task'[t]) /\ task'[t] \in Task
    BY <1>0, <1>1, <1>4, <2>1, GotoFacts
  <2>3. Fits(t)' /\ Claimed(t)' = Claimed(t)
    BY <1>0, <1>1, <1>3, <1>4, <2>1, <2>2, TasksAre, FitsOn DEF Alike, Fits
  <2>4. Counts(t)'
    BY <1>0, <1>1, <2>2, CountsElsewhere, TasksAre DEF Elsewhere, Alike
  <2> QED BY <1>0, <1>2, <1>4, <2>1, <2>2, <2>3, <2>4
<1>5. CASE /\ Fault /\ task' = [task EXCEPT ![t] = Idle]
           /\ UNCHANGED <<sales, announced>>
  <2>1. Alone(t) /\ task'[t] = Idle
    BY <1>0, <1>1, <1>5, IdleFacts, AloneExcept DEF TaskInv
  <2>2. Resume(t, "idle") = Idle
    BY DEF Resume
  <2>3. /\ Fits(t)' /\ Claimed(t)' \subseteq Claimed(t) /\ Counts(t)'
    BY <1>0, <1>1, <2>1, <2>2, ResumeFits
  <2> QED BY <1>0, <1>2, <1>5, <2>1, <2>3, IdleFacts, FaultCounts
<1> QED BY <1>4, <1>5, Zenon DEF Delete

(* A rebuild goes on.                                                        *)
LEMMA RebuildOn ==
    ASSUME IntakeInv, NEW t \in Tasks, task[t].pc \in Rebuilding, Alone(t), task'[t] \in Task,
           task'[t].pc \in Rebuilding, task'[t].todo = task[t].todo,
           task'[t].batch = task[t].batch, task'[t].name = task[t].name,
           task'[t].raised = task[t].raised, today' \in Days,
           UNCHANGED <<batches, sales, disk, announced, seenDocs, remote, runLock, nightly,
                       snapshot, used, behind>>, LockInv'
    PROVE  IntakeInv'
<1>0. WorldInv /\ TaskInv /\ LockInv /\ CountInv
  BY DEF IntakeInv
<1>1. Fits(t)
  BY <1>0 DEF TaskInv
<1>2. WorldInv'
  BY <1>0 DEF WorldInv
<1>3. Rebuilding \cap (Importing \cup {"lock", "idle", "list"}) = {}
  BY DEF Rebuilding, Importing
<1>4. Fits(t)' /\ Claimed(t)' = Claimed(t)
  <2>1. task'[t].pc \in Places(t) /\ task'[t].pc # "idle"
    BY <1>3 DEF Places
  <2>2. t # "removal" => task[t].batch # 0
    BY <1>1 DEF Fits
  <2>3. t \in Autoloads => task[t].name \in Names
    BY <1>1, <1>3 DEF Fits
  <2>4. task'[t].raised => used'.mishaps # 0
    BY <1>1 DEF Fits
  <2> QED BY <1>0, <2>1, <2>2, <2>3, <2>4, FitsOn
<1>5. Counts(t)'
  <2>1. Elsewhere(t)'
    BY <1>3 DEF Elsewhere, Importing
  <2> QED BY <1>0, <2>1, CountsElsewhere DEF WorldInv
<1>6. \A i \in disk' : i \in disk /\ (Keeps(t, i) => Keeps(t, i)')
  BY <1>3 DEF Keeps
<1> QED BY <1>2, <1>4, <1>5, <1>6, TaskStep

LEMMA RequestStep == ASSUME IntakeInv, NEW t \in Tasks, Request(t) PROVE IntakeInv'
<1>0. TaskInv /\ LockInv /\ today \in Days
  BY DEF IntakeInv, WorldInv
<1>1. PICK day \in today .. Len(Calendar) :
         /\ today' = day
         /\ task' = [task EXCEPT ![t].pc = "rfm", ![t].day = day, ![t].served = FALSE]
  BY Zenon DEF Request
<1>2. /\ task[t].pc = "request"
      /\ UNCHANGED <<batches, sales, disk, announced, seenDocs, remote, shared, exclusive,
                     rfmLock, runLock, nightly, snapshot, used, behind>>
  BY DEF Request, At, store, locks
<1>3. day \in Days
  BY <1>0, IntakeAssumption DEF Days
<1>4. PICK k \in Task : k = task[t]
  BY <1>0 DEF TaskInv
<1>5. PICK n : n = [k EXCEPT !.pc = "rfm", !.day = day, !.served = FALSE]
  OBVIOUS
<1>6. "rfm" \in UNION {Places(u) : u \in Tasks}
  BY DEF Places, Rebuilding
<1>7. /\ n \in Task /\ n.pc = "rfm" /\ n.todo = k.todo /\ n.batch = k.batch /\ n.name = k.name
      /\ n.raised = k.raised
  BY <1>3, <1>5, <1>6 DEF Task
<1>8. Alone(t) /\ task'[t] = n
  <2>1. task' = [task EXCEPT ![t] = n] /\ task \in [Tasks -> Task]
    BY <1>0, <1>1, <1>4, <1>5 DEF TaskInv
  <2> QED BY <1>7, <2>1, AloneExcept
<1>9. LockInv'
  BY <1>0, <1>2, <1>7, <1>8, LocksStay DEF Importing, Looking, locks
<1> QED BY <1>1, <1>2, <1>3, <1>4, <1>7, <1>8, <1>9, RebuildOn DEF Rebuilding

LEMMA LockRfmStep == ASSUME IntakeInv, NEW t \in Tasks, LockRfm(t) PROVE IntakeInv'
<1>0. TaskInv /\ LockInv /\ today \in Days
  BY DEF IntakeInv, WorldInv
<1>1. /\ task[t].pc = "rfm" /\ rfmLock = {} /\ rfmLock' = {t} /\ Goto(t, "source")
      /\ UNCHANGED <<batches, sales, disk, announced, seenDocs, remote, shared, exclusive,
                     runLock, nightly, snapshot, today, used, behind>>
  BY DEF LockRfm, At, store
<1>2. "source" \in Places(t)
  BY DEF Places, Rebuilding
<1>3. Alone(t) /\ task'[t].pc = "source" /\ Alike(task[t], task'[t]) /\ task'[t] \in Task
  BY <1>0, <1>1, <1>2, GotoFacts
<1>4. LockInv'
  <2>1. \A u \in Tasks \ {t} : task'[u].pc = task[u].pc
    BY <1>3 DEF Alone
  <2> QED BY <1>0, <1>1, <1>3, <2>1, TasksAre DEF LockInv, At, Importing, Looking
<1> QED BY <1>0, <1>1, <1>3, <1>4, RebuildOn DEF Rebuilding, Alike

LEMMA LockSourceStep == ASSUME IntakeInv, NEW t \in Tasks, LockSource(t) PROVE IntakeInv'
<1>0. TaskInv /\ LockInv /\ today \in Days
  BY DEF IntakeInv, WorldInv
<1>1. /\ task[t].pc = "source" /\ shared = {} /\ exclusive = {} /\ exclusive' = {t}
      /\ Goto(t, "current")
      /\ UNCHANGED <<batches, sales, disk, announced, seenDocs, remote, shared, rfmLock,
                     runLock, nightly, snapshot, today, used, behind>>
  BY DEF LockSource, At, store
<1>2. "current" \in Places(t)
  BY DEF Places, Rebuilding
<1>3. Alone(t) /\ task'[t].pc = "current" /\ Alike(task[t], task'[t]) /\ task'[t] \in Task
  BY <1>0, <1>1, <1>2, GotoFacts
<1>4. LockInv'
  <2>1. \A u \in Tasks \ {t} : task'[u].pc = task[u].pc
    BY <1>3 DEF Alone
  <2> QED BY <1>0, <1>1, <1>3, <2>1, TasksAre DEF LockInv, At, Importing, Looking
<1> QED BY <1>0, <1>1, <1>3, <1>4, RebuildOn DEF Rebuilding, Alike

(* A rebuild ends, with or without a snapshot.                               *)
LEMMA RebuildEnds ==
    ASSUME IntakeInv, NEW t \in Tasks, task[t].pc \in {"rfm", "source", "current", "history"},
           Alone(t), task'[t] = Resume(t, AfterImport(t)),
           shared' = shared, exclusive' = exclusive \ {t}, rfmLock' = rfmLock \ {t},
           UNCHANGED <<batches, sales, disk, announced, seenDocs, remote, runLock, nightly, today>>,
           behind' \in BOOLEAN, used.mishaps # 0 => used'.mishaps # 0,
           used' \in [uploads : Nat, runs : Nat, removals : Nat, mishaps : Nat]
    PROVE  IntakeInv'
<1>0. WorldInv /\ TaskInv /\ LockInv /\ CountInv
  BY DEF IntakeInv
<1>1. Fits(t)
  BY <1>0 DEF TaskInv
<1>2. WorldInv'
  BY <1>0 DEF WorldInv
<1>3. PICK l \in Onward(t) : l = AfterImport(t)
  BY DEF Onward
<1>4. PICK n \in Task :
        /\ n = Resume(t, l) /\ n.pc = l /\ n.raised = FALSE
        /\ l # "idle" => n.todo = task[t].todo /\ n.batch = task[t].batch /\ n.name = task[t].name
        /\ l = "idle" => n = Idle
  BY <1>0, ResumeFacts
<1>5. task[t].pc \in Rebuilding /\ Rebuilding \cap (Importing \cup {"lock", "idle", "list", "delete"}) = {}
  BY DEF Rebuilding, Importing
<1>6. t # "removal" => task[t].batch # 0
  BY <1>1, <1>5 DEF Fits
<1>7. /\ Fits(t)' /\ Claimed(t)' \subseteq Claimed(t) /\ Counts(t)'
  <2>1. task[t].pc \notin {"idle", "list"} /\ task'[t] = Resume(t, l)
    BY <1>3, <1>5
  <2>2. batches' \in Seq(Batch) /\ DOMAIN batches \subseteq DOMAIN batches'
        /\ \A i \in Claimed(t) : batches'[i].content = batches[i].content
                                 /\ (i # task[t].batch => batches'[i] = batches[i])
    BY <1>0 DEF WorldInv
  <2>3. l \in Onward(t) \cup {"idle"}
    OBVIOUS
  <2> QED BY <1>0, <1>6, <2>1, <2>2, <2>3, ResumeFits
<1>8. /\ l \notin Importing \cup Looking \cup {"delete", "source"}
      /\ t # "removal" => l # "idle"
  BY OnwardFacts
<1>9. LockInv'
  <2>1. t \notin shared
    BY <1>0, <1>5 DEF LockInv
  <2>2. shared' = shared \ {t} /\ (t \in Autoloads => task[t].pc # "idle" /\ l # "idle")
    BY <1>5, <1>8, <2>1, TasksAre
  <2>3. task'[t].pc = l
    BY <1>3, <1>4
  <2> QED BY <1>0, <1>8, <2>2, <2>3, LocksGive
<1>10. \A i \in disk' : i \in disk /\ (Keeps(t, i) => Keeps(t, i)')
  <2>1. ASSUME NEW i \in disk, Keeps(t, i) PROVE Keeps(t, i)'
    <3>1. t = "upload" /\ i \in ToSet(task[t].todo)
      BY <1>5, <2>1 DEF Keeps
    <3>2. l # "idle"
      BY <1>8, <3>1
    <3> QED BY <1>3, <1>4, <3>1, <3>2 DEF Keeps
  <2> QED BY <2>1
<1> QED BY <1>2, <1>7, <1>9, <1>10, TaskStep

LEMMA RebuiltStep ==
    ASSUME IntakeInv, NEW t \in Tasks, task[t].pc \in {"rfm", "source", "current", "history"},
           Rebuilt(t),
           UNCHANGED <<batches, sales, disk, announced, seenDocs, remote, runLock, nightly, today>>,
           behind' \in BOOLEAN, used.mishaps # 0 => used'.mishaps # 0,
           used' \in [uploads : Nat, runs : Nat, removals : Nat, mishaps : Nat]
    PROVE  IntakeInv'
<1>1. TaskInv
  BY DEF IntakeInv
<1>2. PICK l \in Onward(t) : l = AfterImport(t)
  BY DEF Onward
<1>3. PICK n \in Task :
        /\ n = Resume(t, l) /\ n.pc = l /\ n.raised = FALSE
        /\ l # "idle" => n.todo = task[t].todo /\ n.batch = task[t].batch /\ n.name = task[t].name
        /\ l = "idle" => n = Idle
  BY <1>1, ResumeFacts
<1>4. task' = [task EXCEPT ![t] = n] /\ task \in [Tasks -> Task]
  BY <1>1, <1>2, <1>3 DEF Rebuilt, TaskInv
<1>5. Alone(t) /\ task'[t] = Resume(t, AfterImport(t))
  BY <1>2, <1>3, <1>4, AloneExcept
<1>6. shared' = shared /\ exclusive' = exclusive \ {t} /\ rfmLock' = rfmLock \ {t}
  BY DEF Rebuilt
<1> QED BY <1>5, <1>6, RebuildEnds

LEMMA KnownSales ==
    ASSUME NEW stored, \A s \in stored : s[1] \in Fps
    PROVE  Known(stored) \subseteq Parsed
<1>1. ASSUME NEW s \in stored PROVE Facts(s[1]) \in Parsed
  <2>1. \E p \in Parsed : p.fp = s[1]
    BY DEF Fps
  <2> QED BY <2>1 DEF Facts
<1> QED BY <1>1 DEF Known

LEMMA ReadCurrentStep == ASSUME IntakeInv, NEW t \in Tasks, ReadCurrent(t) PROVE IntakeInv'
<1>0. TaskInv /\ LockInv /\ today \in Days /\ SaleInv /\ behind \in BOOLEAN
      /\ used \in [uploads : Nat, runs : Nat, removals : Nat, mishaps : Nat]
  BY DEF IntakeInv, WorldInv
<1>1. /\ task[t].pc = "current"
      /\ UNCHANGED <<batches, sales, disk, announced, seenDocs, remote, runLock, nightly,
                     snapshot, today, used, behind>>
  BY DEF ReadCurrent, At, store
<1>2. CASE Rebuilt(t)
  BY <1>0, <1>1, <1>2, RebuiltStep
<1>3. ASSUME task' = [task EXCEPT ![t].pc = "history",
                                  ![t].seen = {s.fp : s \in Rfm!Current(Known(sales), Period(t))}],
             UNCHANGED locks
      PROVE  IntakeInv'
  <2>1. PICK seen : seen = {s.fp : s \in Rfm!Current(Known(sales), Period(t))}
    OBVIOUS
  <2>2. seen \subseteq Fps
    <3>1. Known(sales) \subseteq Parsed
      BY <1>0, KnownSales DEF SaleInv
    <3>2. Rfm!Current(Known(sales), Period(t)) \subseteq Known(sales)
      BY DEF Rfm!Current
    <3> QED BY <2>1, <3>1, <3>2 DEF Fps
  <2>3. PICK k \in Task : k = task[t]
    BY <1>0 DEF TaskInv
  <2>4. PICK n : n = [k EXCEPT !.pc = "history", !.seen = seen]
    OBVIOUS
  <2>5. "history" \in UNION {Places(u) : u \in Tasks}
    BY DEF Places, Rebuilding
  <2>6. /\ n \in Task /\ n.pc = "history" /\ n.todo = k.todo /\ n.batch = k.batch /\ n.name = k.name
        /\ n.raised = k.raised
    BY <2>2, <2>4, <2>5 DEF Task
  <2>7. Alone(t) /\ task'[t] = n
    <3>1. task' = [task EXCEPT ![t] = n] /\ task \in [Tasks -> Task]
      BY <1>0, <1>3, <2>1, <2>3, <2>4 DEF TaskInv
    <3> QED BY <2>6, <3>1, AloneExcept
  <2>8. LockInv'
    BY <1>0, <1>1, <1>3, <2>6, <2>7, LocksStay DEF Importing, Looking
  <2> QED BY <1>0, <1>1, <2>3, <2>6, <2>7, <2>8, RebuildOn DEF Rebuilding
<1> QED BY <1>2, <1>3, Zenon DEF ReadCurrent

(* A snapshot serves those who have asked before and still wait.             *)
LEMMA ServedFacts ==
    ASSUME IntakeInv, NEW t \in Tasks, NEW l \in Onward(t),
           task' = [u \in Tasks |->
                      IF u = t THEN Resume(t, l)
                      ELSE [task[u] EXCEPT !.served = @ \/ task[u].pc \in {"rfm", "source"}]]
    PROVE  Alone(t) /\ task'[t] = Resume(t, l)
<1>1. PICK n \in Task : n = Resume(t, l)
  BY ResumeFacts DEF IntakeInv
<1>2. task'[t] = n
  BY <1>1
<1>3. ASSUME NEW u \in Tasks \ {t}
      PROVE  /\ task'[u] \in Task /\ task'[u].pc = task[u].pc /\ task'[u].todo = task[u].todo
             /\ task'[u].batch = task[u].batch /\ task'[u].name = task[u].name
             /\ task'[u].row = task[u].row /\ task'[u].raised = task[u].raised
             /\ task[u].pc = "idle" => task'[u] = task[u]
  <2>1. PICK k \in Task : k = task[u]
    BY DEF IntakeInv, TaskInv
  <2>2. task'[u] = [k EXCEPT !.served = k.served \/ k.pc \in {"rfm", "source"}]
    BY <1>3, <2>1
  <2>3. CASE k.pc \in {"rfm", "source"}
    <3>1. task'[u] = [k EXCEPT !.served = TRUE]
      BY <2>2, <2>3
    <3> QED BY <2>1, <2>3, <3>1 DEF Task
  <2>4. CASE k.pc \notin {"rfm", "source"}
    <3>1. (k.served \/ k.pc \in {"rfm", "source"}) = k.served
      BY <2>4 DEF Task
    <3>2. task'[u] = [k EXCEPT !.served = k.served]
      BY <2>2, <3>1
    <3>3. task'[u] = k
      BY <3>2 DEF Task
    <3> QED BY <2>1, <3>3
  <2> QED BY <2>3, <2>4
<1>4. task' \in [Tasks -> Task]
  <2>1. \A u \in Tasks : task'[u] \in Task
    BY <1>2, <1>3
  <2>2. task' = [u \in Tasks |-> task'[u]]
    OBVIOUS
  <2> QED BY <2>1, <2>2
<1> QED BY <1>1, <1>2, <1>3, <1>4 DEF Alone

LEMMA BuildStep == ASSUME IntakeInv, NEW t \in Tasks, Build(t) PROVE IntakeInv'
<1>0. TaskInv /\ LockInv /\ used \in [uploads : Nat, runs : Nat, removals : Nat, mishaps : Nat]
  BY DEF IntakeInv, WorldInv
<1>1. /\ task[t].pc = "history"
      /\ UNCHANGED <<batches, sales, disk, announced, seenDocs, remote, runLock, nightly,
                     today, used>>
  BY DEF Build, At, store
<1>2. CASE Rebuilt(t) /\ behind' = TRUE
  BY <1>0, <1>1, <1>2, RebuiltStep
<1>3. ASSUME task' = [u \in Tasks |->
                        IF u = t THEN Resume(t, AfterImport(t))
                        ELSE [task[u] EXCEPT !.served = @ \/ task[u].pc \in {"rfm", "source"}]],
             exclusive' = {}, rfmLock' = {}, behind' = FALSE, UNCHANGED shared
      PROVE  IntakeInv'
  <2>1. PICK l \in Onward(t) : l = AfterImport(t)
    BY DEF Onward
  <2>2. Alone(t) /\ task'[t] = Resume(t, AfterImport(t))
    BY <1>3, <2>1, ServedFacts
  <2>3. exclusive' = exclusive \ {t} /\ rfmLock' = rfmLock \ {t}
    <3>1. t \in rfmLock /\ exclusive \subseteq rfmLock /\ \A u \in rfmLock : u = t
      BY <1>0, <1>1 DEF LockInv, Looking
    <3> QED BY <1>3, <3>1
  <2> QED BY <1>0, <1>1, <1>3, <2>2, <2>3, RebuildEnds
<1> QED BY <1>2, <1>3, Zenon DEF Build

LEMMA RebuildFailsStep == ASSUME IntakeInv, NEW t \in Tasks, RebuildFails(t) PROVE IntakeInv'
<1>0. used \in [uploads : Nat, runs : Nat, removals : Nat, mishaps : Nat]
  BY DEF IntakeInv, WorldInv
<1>1. /\ task[t].pc \in {"rfm", "source", "current", "history"} /\ Fault /\ Rebuilt(t) /\ behind' = TRUE
      /\ UNCHANGED <<batches, sales, disk, announced, seenDocs, remote, runLock, nightly, today>>
  BY DEF RebuildFails, store
<1> QED BY <1>0, <1>1, RebuiltStep, FaultCounts

-----------------------------------------------------------------------------
(* The FTP run                                                               *)

(* A run ends with the file, or with all of them.                            *)
LEMMA RunEnds ==
    ASSUME IntakeInv, NEW t \in Autoloads, task[t].pc \in Serving, EndRun(t),
           UNCHANGED <<batches, sales, announced, seenDocs, remote, shared, exclusive, rfmLock,
                       today, behind>>,
           disk' \subseteq disk, nightly' \in BOOLEAN, used.mishaps # 0 => used'.mishaps # 0,
           used' \in [uploads : Nat, runs : Nat, removals : Nat, mishaps : Nat]
    PROVE  IntakeInv'
<1>0. WorldInv /\ TaskInv /\ LockInv /\ CountInv /\ t \in Tasks
  BY TasksAre DEF IntakeInv
<1>1. task' = [task EXCEPT ![t] = Idle] /\ runLock' = {}
  BY DEF EndRun
<1>2. Alone(t) /\ task'[t] = Idle
  BY <1>0, <1>1, IdleFacts, AloneExcept DEF TaskInv
<1>3. WorldInv'
  BY <1>0 DEF WorldInv
<1>4. Serving \cap (Importing \cup Looking \cup {"idle", "lock", "source", "delete"}) = {}
  BY DEF Serving, Importing, Looking
<1>5. Claimed(t)' = {} /\ ToSet(<<>>) = {} /\ DOMAIN <<>> = {} /\ <<>> \in Seq(Entry)
  BY <1>2, IdleFacts DEF Claimed, ToSet
<1>6. Fits(t)'
  <2>1. "idle" \notin Importing \cup Rebuilding \cup {"finish", "lock"} /\ "idle" \in Places(t)
    BY DEF Importing, Rebuilding, Places
  <2> QED BY <1>2, <1>5, <2>1, IdleFacts, TasksAre DEF Fits
<1>7. Counts(t)'
  BY <1>2, <1>5, IdleFacts, TasksAre DEF Counts
<1>8. LockInv'
  <2>1. \A u \in Tasks \ {t} : task'[u].pc = task[u].pc
    BY <1>2 DEF Alone
  <2>2. runLock = {t} /\ \A u \in Autoloads \ {t} : task[u].pc = "idle"
    BY <1>0, <1>4 DEF LockInv, At
  <2>3. task'[t].pc = "idle" /\ "idle" \notin Importing \cup Looking \cup {"delete", "source"}
    BY <1>2, IdleFacts DEF Importing, Looking
  <2> QED BY <1>0, <1>1, <1>4, <2>1, <2>2, <2>3, TasksAre DEF LockInv, At
<1>9. \A i \in disk' : i \in disk /\ (Keeps(t, i) => Keeps(t, i)')
  BY <1>4, TasksAre DEF Keeps
<1> QED BY <1>0, <1>2, <1>3, <1>5, <1>6, <1>7, <1>8, <1>9, TaskStep

(* A run goes on from one of its own places to another.                      *)
LEMMA RunOn ==
    ASSUME IntakeInv, NEW t \in Autoloads, task[t].pc \in Serving, Alone(t), task'[t] \in Task,
           task'[t].pc \in Serving \ {"list"}, task'[t].pc = "finish" => task'[t].batch # 0,
           task'[t].todo \in Seq(Entry),
           task'[t].name \in Names, task'[t].raised => used'.mishaps # 0,
           \/ task'[t].batch = 0
           \/ task'[t].batch = task[t].batch /\ task'[t].name = task[t].name,
           UNCHANGED <<batches, sales, announced, seenDocs, shared, exclusive, rfmLock, runLock,
                       nightly, snapshot, today, behind>>,
           disk' \subseteq disk, used.mishaps # 0 => used'.mishaps # 0,
           remote' \in [Names -> Listed \cup {"future", "gone"}],
           used' \in [uploads : Nat, runs : Nat, removals : Nat, mishaps : Nat]
    PROVE  IntakeInv'
<1>0. WorldInv /\ TaskInv /\ LockInv /\ CountInv /\ t \in Tasks
  BY TasksAre DEF IntakeInv
<1>1. Fits(t)
  BY <1>0 DEF TaskInv
<1>2. WorldInv'
  BY <1>0 DEF WorldInv
<1>3. Serving \cap (Importing \cup Rebuilding \cup Looking \cup {"idle", "lock", "source", "delete"}) = {}
  BY DEF Serving, Importing, Looking, Rebuilding
<1>4. Claimed(t)' \subseteq Claimed(t)
  BY TasksAre DEF Claimed
<1>5. Fits(t)'
  <2>1. task'[t].pc \in Places(t)
    BY TasksAre DEF Places
  <2>2. Claimed(t)' \subseteq DOMAIN batches'
    BY <1>1, <1>4 DEF Fits
  <2> QED BY <1>3, <2>1, <2>2, TasksAre DEF Fits
<1>6. Counts(t)'
  <2>1. Elsewhere(t)' /\ batches' \in Seq(Batch)
    BY <1>0, <1>3 DEF Elsewhere, Importing, WorldInv
  <2> QED BY <1>0, <2>1, CountsElsewhere, TasksAre
<1>7. LockInv'
  BY <1>0, <1>3, LocksStay DEF locks
<1>8. \A i \in disk' : i \in disk /\ (Keeps(t, i) => Keeps(t, i)')
  BY <1>3, TasksAre DEF Keeps
<1> QED BY <1>0, <1>2, <1>4, <1>5, <1>6, <1>7, <1>8, TaskStep

LEMMA NextFileStep ==
    ASSUME IntakeInv, NEW t \in Autoloads, task[t].pc \in Serving, NEW todo \in Seq(Entry),
           NextFile(t, todo),
           UNCHANGED <<batches, sales, announced, seenDocs, remote, shared, exclusive, rfmLock,
                       nightly, snapshot, today, behind, used>>,
           disk' \subseteq disk
    PROVE  IntakeInv'
<1>0. /\ WorldInv /\ TaskInv /\ LockInv /\ CountInv /\ t \in Tasks /\ nightly \in BOOLEAN
      /\ used \in [uploads : Nat, runs : Nat, removals : Nat, mishaps : Nat]
      /\ remote \in [Names -> Listed \cup {"future", "gone"}]
  BY TasksAre DEF IntakeInv, WorldInv
<1>1. CASE todo = <<>>
  <2>1. EndRun(t)
    BY <1>1 DEF NextFile
  <2> QED BY <1>0, <2>1, RunEnds
<1>2. CASE todo # <<>>
  <2>1. PICK h, rest : h = Head(todo) /\ rest = Tail(todo)
    OBVIOUS
  <2>2. h \in Entry /\ rest \in Seq(Entry)
    BY <1>2, <2>1
  <2>3. h[1] \in Names /\ h[2] \in Listed
    BY <2>2 DEF Entry
  <2>4. PICK n : n = [Idle EXCEPT !.pc = "download", !.name = h[1], !.form = h[2], !.todo = rest]
    OBVIOUS
  <2>5. task' = [task EXCEPT ![t] = n] /\ UNCHANGED runLock
    BY <1>2, <2>1, <2>4 DEF NextFile
  <2>6. "download" \in Serving /\ "download" \notin {"list", "finish"}
        /\ "download" \in UNION {Places(u) : u \in Tasks}
    <3>1. "download" \in Places(t)
      BY TasksAre DEF Places, Serving
    <3> QED BY <1>0, <3>1 DEF Serving
  <2>7. n \in Task /\ n.pc = "download" /\ n.batch = 0 /\ n.name = h[1] /\ n.todo = rest
        /\ n.raised = FALSE
    BY <2>2, <2>3, <2>4, <2>6, IdleFacts DEF Task
  <2>8. Alone(t) /\ task'[t] = n
    BY <1>0, <2>5, <2>7, AloneExcept DEF TaskInv
  <2> QED BY <1>0, <2>2, <2>3, <2>5, <2>6, <2>7, <2>8, RunOn
<1> QED BY <1>1, <1>2

LEMMA ListStep == ASSUME IntakeInv, NEW t \in Autoloads, List(t) PROVE IntakeInv'
<1>0. nightly \in BOOLEAN /\ used \in [uploads : Nat, runs : Nat, removals : Nat, mishaps : Nat]
  BY DEF IntakeInv, WorldInv
<1>1. /\ task[t].pc = "list" /\ task[t].pc \in Serving
      /\ UNCHANGED <<batches, sales, disk, announced, seenDocs, remote, shared, exclusive, rfmLock,
                     nightly, snapshot, today, behind>>
  BY DEF List, At, store, locks, Serving
<1>2. CASE Fault /\ EndRun(t)
  BY <1>0, <1>1, <1>2, RunEnds, FaultCounts
<1>3. ASSUME NEW todo \in SetToSeqs({<<n, remote[n]>> : n \in {m \in Names : remote[m] \in Listed}}),
             NextFile(t, todo), UNCHANGED used
      PROVE  IntakeInv'
  <2>1. todo \in Seq(Entry)
    <3> DEFINE S == {<<n, remote[n]>> : n \in {m \in Names : remote[m] \in Listed}}
    <3>1. IsFiniteSet(Names)
      BY IntakeAssumption DEF Names
    <3>2. IsFiniteSet({m \in Names : remote[m] \in Listed})
      BY <3>1, FS_Subset
    <3>3. IsFiniteSet(S)
      <4> DEFINE Now == {m \in Names : remote[m] \in Listed}
                 f == [n \in Now |-> <<n, remote[n]>>]
      <4>1. f \in Surjection(Now, S)
        BY DEF Surjection
      <4> HIDE DEF f, Now, S
      <4>2. IsFiniteSet(Now)
        BY <3>2 DEF Now
      <4> QED BY <4>1, <4>2, FS_Surjection
    <3>4. Cardinality(S) \in Nat
      BY <3>3, FS_CardinalityType
    <3>5. S \subseteq Entry
      BY DEF Entry
    <3> HIDE DEF S
    <3>6. todo \in [1..Cardinality(S) -> S]
      BY DEF SetToSeqs, S
    <3> QED BY <3>4, <3>5, <3>6
  <2> QED BY <1>1, <1>3, <2>1, NextFileStep
<1> QED BY <1>2, <1>3, Zenon DEF List

LEMMA EndFileStep == ASSUME IntakeInv, NEW t \in Autoloads, EndFile(t) PROVE IntakeInv'
<1>1. /\ task[t].pc \in Serving /\ disk' = disk \ {task[t].batch} /\ NextFile(t, task[t].todo)
      /\ UNCHANGED <<batches, sales, announced, seenDocs, remote, shared, exclusive, rfmLock,
                     nightly, snapshot, today, used, behind>>
  BY DEF EndFile, At, locks, Serving
<1>2. task[t].todo \in Seq(Entry)
  BY TasksAre DEF IntakeInv, TaskInv, Fits
<1> QED BY <1>1, <1>2, NextFileStep

LEMMA DieStep == ASSUME IntakeInv, NEW t \in Autoloads, Die(t) PROVE IntakeInv'
<1>0. nightly \in BOOLEAN /\ used \in [uploads : Nat, runs : Nat, removals : Nat, mishaps : Nat]
  BY DEF IntakeInv, WorldInv
<1>1. /\ task[t].pc \in Serving /\ Fault /\ EndRun(t) /\ nightly' = (nightly /\ t # "night")
      /\ disk' = disk \ {task[t].batch}
      /\ UNCHANGED <<batches, sales, announced, seenDocs, remote, shared, exclusive, rfmLock,
                     snapshot, today, behind>>
  BY DEF Die, locks, Serving
<1>2. nightly' \in BOOLEAN /\ disk' \subseteq disk
  BY <1>1
<1> QED BY <1>0, <1>1, <1>2, RunEnds, FaultCounts

LEMMA BatchAdded ==
    ASSUME batches \in Seq(Batch), NEW b \in Batch, NEW m, m = Len(batches) + 1,
           batches' = Append(batches, b)
    PROVE  /\ batches' \in Seq(Batch) /\ DOMAIN batches \subseteq DOMAIN batches'
           /\ m \in DOMAIN batches' \ DOMAIN batches /\ batches'[m] = b /\ m \in Nat \ {0}
           /\ \A i \in DOMAIN batches : batches'[i] = batches[i]
           /\ \A i \in DOMAIN batches' : i \in DOMAIN batches \/ i = m
<1>1. Len(batches) \in Nat /\ DOMAIN batches = 1..Len(batches)
  OBVIOUS
<1>2. /\ batches' \in Seq(Batch) /\ Len(batches') = Len(batches) + 1
      /\ DOMAIN batches' = 1..(Len(batches) + 1)
  OBVIOUS
<1>3. /\ batches'[m] = b /\ \A i \in 1..Len(batches) : batches'[i] = batches[i]
  BY <1>1, <1>2
<1> QED BY <1>1, <1>2, <1>3

LEMMA DownloadStep == ASSUME IntakeInv, NEW t \in Autoloads, Download(t) PROVE IntakeInv'
<1>0. /\ WorldInv /\ TaskInv /\ LockInv /\ SaleInv /\ CountInv /\ BatchInv /\ AnnouncedInv /\ DiskInv
      /\ t \in Tasks /\ batches \in Seq(Batch)
      /\ used \in [uploads : Nat, runs : Nat, removals : Nat, mishaps : Nat]
      /\ remote \in [Names -> Listed \cup {"future", "gone"}]
  BY TasksAre DEF IntakeInv, WorldInv
<1>1. /\ task[t].pc = "download" /\ task[t].pc \in Serving
      /\ UNCHANGED <<sales, announced, seenDocs, remote, shared, exclusive, rfmLock, runLock,
                     nightly, snapshot, today, behind>>
  BY DEF Download, At, locks, Serving
<1>2. Fits(t) /\ task[t].name \in Names /\ task[t].todo \in Seq(Entry)
  BY <1>0, <1>1 DEF TaskInv, Fits
<1>3. CASE Fault /\ Goto(t, "mark") /\ UNCHANGED <<batches, disk>>
  <2>1. "mark" \in Places(t) /\ "mark" \in Serving \ {"list", "finish"}
    BY TasksAre DEF Places, Serving
  <2>2. Alone(t) /\ task'[t].pc = "mark" /\ Alike(task[t], task'[t]) /\ task'[t] \in Task
    BY <1>0, <1>3, <2>1, GotoFacts
  <2> QED BY <1>0, <1>1, <1>2, <1>3, <2>1, <2>2, RunOn, FaultCounts DEF Alike
<1>4. ASSUME batches' = Append(batches, NewBatch(Remote[task[t].name])),
             disk' = disk \cup {Len(batches) + 1},
             task' = [task EXCEPT ![t].pc = "lock", ![t].batch = Len(batches) + 1], UNCHANGED used
      PROVE  IntakeInv'
  <2>1. PICK m, c, b : m = Len(batches) + 1 /\ c = Remote[task[t].name] /\ b = NewBatch(c)
    OBVIOUS
  <2>2. c \in DOMAIN Files
    BY <1>2, <2>1, IntakeAssumption DEF Names
  <2>3. b \in Batch /\ b.status = "queued" /\ Adds(b)' /\ b.content = c
    BY <2>1, <2>2, NewBatchFacts
  <2>4. /\ batches' \in Seq(Batch) /\ DOMAIN batches \subseteq DOMAIN batches'
        /\ m \in DOMAIN batches' \ DOMAIN batches /\ batches'[m] = b /\ m \in Nat \ {0}
        /\ \A i \in DOMAIN batches : batches'[i] = batches[i]
        /\ \A i \in DOMAIN batches' : i \in DOMAIN batches \/ i = m
    BY <1>0, <1>4, <2>1, <2>3, BatchAdded
  <2>5. PICK k \in Task : k = task[t]
    BY <1>0 DEF TaskInv
  <2>6. PICK n : n = [k EXCEPT !.pc = "lock", !.batch = m]
    OBVIOUS
  <2>7. /\ n \in Task /\ n.pc = "lock" /\ n.batch = m /\ n.todo = k.todo /\ n.name = k.name
        /\ n.raised = k.raised /\ "lock" \in Places(t)
    <3>1. "lock" \in Places(t)
      BY DEF Places
    <3>2. "lock" \in UNION {Places(u) : u \in Tasks}
      BY <1>0, <3>1
    <3> QED BY <2>4, <2>6, <3>1, <3>2 DEF Task
  <2>8. Alone(t) /\ task'[t] = n
    <3>1. task' = [task EXCEPT ![t] = n] /\ task \in [Tasks -> Task]
      BY <1>0, <1>4, <2>1, <2>5, <2>6 DEF TaskInv
    <3> QED BY <1>0, <2>7, <3>1, AloneExcept
  <2>9. Claimed(t)' = {m}
    BY <2>4, <2>7, <2>8, TasksAre DEF Claimed
  <2>10. Fits(t)'
    BY <1>2, <1>4, <2>4, <2>5, <2>7, <2>8, <2>9, TasksAre DEF Fits
  <2>11. Counts(t)'
    BY <1>2, <2>1, <2>3, <2>4, <2>5, <2>7, <2>8, TasksAre DEF Counts
  <2>12. WorldInv'
    <3>1. disk' \subseteq DOMAIN batches'
      BY <1>0, <1>4, <2>1, <2>4 DEF WorldInv
    <3> QED BY <1>0, <1>1, <1>4, <2>4, <3>1 DEF WorldInv
  <2>13. TaskInv' /\ CountInv'
    <3>1. \A i \in DOMAIN batches : i \in DOMAIN batches'
                                    /\ (i \notin Claimed(t) => batches'[i] = batches[i])
      BY <2>4
    <3>2. \A i \in Claimed(t)' : i \in Claimed(t) \/ i \notin DOMAIN batches
      BY <2>4, <2>9
    <3>3. seenDocs \subseteq seenDocs' /\ (used.mishaps # 0 => used'.mishaps # 0)
      BY <1>1, <1>4
    <3> QED BY <1>0, <2>8, <2>10, <2>11, <3>1, <3>2, <3>3, OthersStay
  <2>14. LockInv'
    <3>1. {"lock", "download"} \cap (Importing \cup Looking \cup {"delete", "source", "idle"}) = {}
      BY DEF Importing, Looking
    <3> QED BY <1>0, <1>1, <2>7, <2>8, <3>1, LocksStay DEF locks
  <2>15. SaleInv'
    <3>1. \A i \in DOMAIN batches : batches'[i].added >= batches[i].added
      <4>1. \A i \in DOMAIN batches : batches[i] \in Batch
        BY <1>0
      <4> QED BY <2>4, <4>1 DEF Batch
    <3> QED BY <1>0, <1>1, <2>4, <3>1, SalesStay
  <2>16. BatchInv'
    <3>1. \A i \in DOMAIN batches' : \/ i \in DOMAIN batches /\ batches'[i] = batches[i]
                                     \/ \E x \in Batch : x = batches'[i] /\ Adds(x)'
      BY <2>3, <2>4
    <3> QED BY <1>0, <1>1, <3>1, BatchesStay
  <2>17. AnnouncedInv'
    BY <1>0, <1>1, <2>4, AnnouncedStays
  <2>18. DiskInv'
    <3>1. \A i \in disk' : \/ i \in disk /\ (Keeps(t, i) => Keeps(t, i)')
                           \/ Keeps(t, i)'
      <4>1. Keeps(t, m)'
        BY <2>7, <2>8 DEF Keeps
      <4>2. \A i : ~Keeps(t, i)
        BY <1>1, TasksAre DEF Keeps, Importing
      <4> QED BY <1>4, <2>1, <4>1, <4>2
    <3> QED BY <1>0, <1>4, <2>8, <3>1, DiskStays
  <2> QED BY <2>12, <2>13, <2>14, <2>15, <2>16, <2>17, <2>18 DEF IntakeInv
<1> QED BY <1>3, <1>4, Zenon DEF Download

(* One attempt at a command of the server.                                   *)
LEMMA AttemptStep ==
    ASSUME IntakeInv, NEW t \in Autoloads, task[t].pc \in {"finish", "mark"},
           NEW result \in {"gone", "EROOR_"}, NEW otherwise \in {"mark", "ended"},
           Attempt(t, result, "ended", otherwise),
           UNCHANGED <<batches, sales, disk, announced, seenDocs, shared, exclusive, rfmLock, runLock,
                       nightly, snapshot, today, behind>>
    PROVE  IntakeInv'
<1>0. /\ WorldInv /\ TaskInv /\ t \in Tasks /\ Fits(t)
      /\ used \in [uploads : Nat, runs : Nat, removals : Nat, mishaps : Nat]
      /\ remote \in [Names -> Listed \cup {"future", "gone"}]
  BY TasksAre DEF IntakeInv, WorldInv, TaskInv
<1>1. task[t].name \in Names /\ task[t].todo \in Seq(Entry) /\ (task[t].pc = "finish" => task[t].batch # 0)
  BY <1>0, TasksAre DEF Fits
<1>2. PICK n, done : /\ n = task[t].name
                     /\ done = IF remote[n] = task[t].form THEN [remote EXCEPT ![n] = result] ELSE remote
  OBVIOUS
<1>3. done \in [Names -> Listed \cup {"future", "gone"}]
  BY <1>0, <1>2 DEF Listed
<1>4. /\ remote' \in {remote, done} /\ (UNCHANGED used \/ Fault)
      /\ \/ task' = [task EXCEPT ![t].tries = 0, ![t].pc = "ended"]
         \/ task' = [task EXCEPT ![t].tries = @ + 1]
         \/ task' = [task EXCEPT ![t].tries = 0, ![t].pc = otherwise]
  <2> DEFINE again == IF task[t].tries + 1 < Retries
                      THEN task' = [task EXCEPT ![t].tries = @ + 1]
                      ELSE task' = [task EXCEPT ![t].tries = 0, ![t].pc = otherwise]
  <2>1. again => \/ task' = [task EXCEPT ![t].tries = @ + 1]
                 \/ task' = [task EXCEPT ![t].tries = 0, ![t].pc = otherwise]
    OBVIOUS
  <2> HIDE DEF again
  <2>2. \/ /\ remote' = done /\ UNCHANGED used
           /\ task' = [task EXCEPT ![t].tries = 0, ![t].pc = "ended"]
        \/ again /\ UNCHANGED <<remote, used>>
        \/ Fault /\ again /\ remote' \in {remote, done}
    BY <1>2, Zenon DEF Attempt, again
  <2> QED BY <2>1, <2>2
<1>5. PICK k \in Task : k = task[t]
  BY <1>0 DEF TaskInv
<1>6. PICK c \in Nat : c = k.tries + 1
  BY DEF Task
<1>7. {"ended", "mark", "finish"} \subseteq Places(t) /\ {"ended", "mark", "finish"} \subseteq Serving
      /\ {"ended", "mark", "finish"} \subseteq UNION {Places(u) : u \in Tasks}
  <2>1. {"ended", "mark", "finish"} \subseteq Places(t)
    BY TasksAre DEF Places, Serving
  <2> QED BY <1>0, <2>1 DEF Serving
<1>8. \E m \in Task : /\ task' = [task EXCEPT ![t] = m] /\ m.todo = k.todo /\ m.batch = k.batch
                      /\ m.name = k.name /\ m.raised = k.raised
                      /\ m.pc \in {"ended", otherwise, k.pc}
  <2>1. ASSUME NEW l \in {"ended", otherwise}, task' = [task EXCEPT ![t].tries = 0, ![t].pc = l]
        PROVE  <1>8
    <3>1. PICK m : m = [k EXCEPT !.tries = 0, !.pc = l]
      OBVIOUS
    <3>2. /\ m \in Task /\ m.todo = k.todo /\ m.batch = k.batch
          /\ m.name = k.name /\ m.raised = k.raised /\ m.pc = l
      BY <1>7, <3>1 DEF Task
    <3>3. task' = [task EXCEPT ![t] = m]
      BY <1>5, <2>1, <3>1
    <3> QED BY <3>2, <3>3
  <2>2. CASE task' = [task EXCEPT ![t].tries = @ + 1]
    <3>1. PICK m : m = [k EXCEPT !.tries = c]
      OBVIOUS
    <3>2. /\ m \in Task /\ m.todo = k.todo /\ m.batch = k.batch
          /\ m.name = k.name /\ m.raised = k.raised /\ m.pc = k.pc
      BY <3>1 DEF Task
    <3>3. task' = [task EXCEPT ![t] = m]
      BY <1>5, <1>6, <2>2, <3>1
    <3> QED BY <3>2, <3>3
  <2> QED BY <1>4, <2>1, <2>2
<1>9. PICK m \in Task : /\ task' = [task EXCEPT ![t] = m] /\ m.todo = k.todo /\ m.batch = k.batch
                        /\ m.name = k.name /\ m.raised = k.raised
                        /\ m.pc \in {"ended", otherwise, k.pc}
  BY <1>8
<1>10. Alone(t) /\ task'[t] = m
  BY <1>0, <1>9, AloneExcept DEF TaskInv
<1>11. /\ used.mishaps # 0 => used'.mishaps # 0
       /\ used' \in [uploads : Nat, runs : Nat, removals : Nat, mishaps : Nat]
  BY <1>0, <1>4, FaultCounts
<1>12. /\ task'[t].pc \in Serving \ {"list"} /\ (task'[t].pc = "finish" => task'[t].batch # 0)
       /\ task'[t].todo \in Seq(Entry) /\ task'[t].name \in Names /\ task[t].pc \in Serving
       /\ task'[t].batch = task[t].batch /\ task'[t].name = task[t].name
       /\ (task'[t].raised => used'.mishaps # 0)
  BY <1>0, <1>1, <1>5, <1>7, <1>9, <1>10, <1>11 DEF Fits
<1> QED BY <1>0, <1>3, <1>4, <1>9, <1>10, <1>11, <1>12, RunOn

LEMMA FinishStep == ASSUME IntakeInv, NEW t \in Autoloads, Finish(t) PROVE IntakeInv'
<1>1. /\ task[t].pc \in {"finish", "mark"}
      /\ UNCHANGED <<batches, sales, disk, announced, seenDocs, shared, exclusive, rfmLock, runLock,
                     nightly, snapshot, today, behind>>
  BY DEF Finish, At, store, locks
<1>2. PICK result \in {"gone", "EROOR_"} : Attempt(t, result, "ended", "mark")
  BY Zenon DEF Finish
<1> QED BY <1>1, <1>2, AttemptStep

LEMMA MarkErrorStep == ASSUME IntakeInv, NEW t \in Autoloads, MarkError(t) PROVE IntakeInv'
<1>1. /\ task[t].pc \in {"finish", "mark"} /\ Attempt(t, "EROOR_", "ended", "ended")
      /\ UNCHANGED <<batches, sales, disk, announced, seenDocs, shared, exclusive, rfmLock, runLock,
                     nightly, snapshot, today, behind>>
  BY DEF MarkError, At, store, locks
<1> QED BY <1>1, AttemptStep

-----------------------------------------------------------------------------
(* The invariant                                                             *)

LEMMA IntakeInit == Init => IntakeInv
<1> SUFFICES ASSUME Init PROVE IntakeInv
  OBVIOUS
<1>1. /\ batches = <<>> /\ sales = {} /\ disk = {} /\ announced = TRUE
      /\ remote = [n \in Names |-> IF n \in Marked THEN "EROOR_" ELSE "future"]
      /\ task = [t \in Tasks |-> Idle]
      /\ shared = {} /\ exclusive = {} /\ rfmLock = {} /\ runLock = {}
      /\ nightly = TRUE /\ today = 1
      /\ used = [uploads |-> 0, runs |-> 0, removals |-> 0, mishaps |-> 0] /\ behind = FALSE
  BY DEF Init
<1>2. WorldInv
  <2>1. 1 \in Days
    BY IntakeAssumption DEF Days
  <2>2. remote \in [Names -> Listed \cup {"future", "gone"}]
    BY <1>1 DEF Listed
  <2>3. used \in [uploads : Nat, runs : Nat, removals : Nat, mishaps : Nat]
    BY <1>1
  <2>4. batches \in Seq(Batch) /\ disk \subseteq DOMAIN batches
    BY <1>1
  <2> QED BY <1>1, <2>1, <2>2, <2>3, <2>4 DEF WorldInv
<1>3. ASSUME NEW t \in Tasks PROVE task[t] = Idle /\ Claimed(t) = {} /\ "idle" \in Places(t)
  BY <1>1, IdleFacts DEF Claimed, ToSet, Places
<1>4. ToSet(<<>>) = {} /\ DOMAIN <<>> = {} /\ <<>> \in Seq(Nat) /\ <<>> \in Seq(Entry)
  BY DEF ToSet
<1>5. TaskInv
  <2>1. task \in [Tasks -> Task]
    BY <1>1, IdleFacts
  <2>2. "idle" \notin Importing \cup Rebuilding \cup {"finish", "lock"}
    BY DEF Importing, Rebuilding
  <2>3. \A t \in Tasks : Fits(t)
    BY <1>3, <1>4, <2>2, IdleFacts DEF Fits
  <2> QED BY <1>3, <2>1, <2>3 DEF TaskInv
<1>6. CountInv
  <2>1. \A t \in Tasks : Counts(t)
    BY <1>3, <1>4, IdleFacts DEF Counts
  <2> QED BY <2>1 DEF CountInv
<1>7. LockInv
  BY <1>1, <1>3, IdleFacts, TasksAre DEF LockInv, At, Importing, Looking
<1>8. SaleInv
  BY <1>1, FS_EmptySet DEF SaleInv
<1>9. BatchInv /\ DiskInv /\ AnnouncedInv
  BY <1>1 DEF BatchInv, DiskInv, AnnouncedInv
<1> QED BY <1>2, <1>5, <1>6, <1>7, <1>8, <1>9 DEF IntakeInv

LEMMA IntakeNext == IntakeInv /\ [Next]_vars => IntakeInv'
<1> SUFFICES ASSUME IntakeInv, [Next]_vars PROVE IntakeInv'
  OBVIOUS
<1>1. CASE UNCHANGED vars
  BY <1>1, StutterStep
<1>2. CASE Environment
  BY <1>2, UploadStep, StartRemovalStep, StartRunStep, ExportStep, CrashStep DEF Environment
<1>3. ASSUME NEW t \in Tasks, Import(t) PROVE IntakeInv'
  BY <1>3, BeginStep, RowStep, InsertStep, CompleteStep, FailStep, CleanUpStep DEF Import
<1>4. ASSUME NEW t \in Tasks, Rebuild(t) PROVE IntakeInv'
  BY <1>4, RequestStep, LockRfmStep, LockSourceStep, ReadCurrentStep, BuildStep, RebuildFailsStep
  DEF Rebuild
<1>5. ASSUME NEW t \in Autoloads, Autoload(t) PROVE IntakeInv'
  BY <1>5, ListStep, DownloadStep, FinishStep, MarkErrorStep, EndFileStep, DieStep DEF Autoload
<1>6. CASE NextUpload
  BY <1>6, NextUploadStep
<1>7. CASE LockRemoval \/ Delete
  BY <1>7, LockRemovalStep, DeleteStep
<1> QED BY <1>1, <1>2, <1>3, <1>4, <1>5, <1>6, <1>7 DEF Next, Step

THEOREM IntakeInvariant == Spec => []IntakeInv
<1>1. Init => IntakeInv
  BY IntakeInit
<1>2. IntakeInv /\ [Next]_vars => IntakeInv'
  BY IntakeNext
<1> QED BY <1>1, <1>2, PTL DEF Spec

-----------------------------------------------------------------------------
(* Results                                                                   *)

(* An import that ended well accounts for every row, the sales of a batch    *)
(* were all counted, no file stays behind when nothing fails, and the locks  *)
(* are held where the code holds them.                                       *)
THEOREM IntakeTypes == Spec => []TypeOK
<1>1. ASSUME IntakeInv PROVE TypeOK
  <2>1. WorldInv /\ TaskInv /\ LockInv /\ SaleInv /\ BatchInv /\ DiskInv
    BY <1>1 DEF IntakeInv
  <2>2. used.mishaps = 0 /\ Busy("idle") = Tasks => disk = {}
    <3>1. ASSUME used.mishaps = 0, Busy("idle") = Tasks, NEW i \in disk PROVE FALSE
      <4>1. PICK t \in Tasks : Keeps(t, i)
        BY <2>1, <3>1 DEF DiskInv
      <4>2. task[t].pc = "idle"
        BY <3>1 DEF Busy
      <4>3. task[t].todo = <<>> /\ ToSet(<<>>) = {}
        BY <2>1, <4>2, IdleFacts DEF TaskInv, Fits, ToSet
      <4> QED BY <4>1, <4>2, <4>3 DEF Keeps, Importing
    <3> QED BY <3>1
  <2>3. exclusive \subseteq rfmLock /\ \A t, u \in exclusive : t = u
    BY <2>1 DEF LockInv, Looking
  <2>4. Cardinality(exclusive) <= 1
    <3>1. CASE exclusive = {}
      BY <3>1, FS_EmptySet
    <3>2. ASSUME NEW t \in exclusive PROVE Cardinality(exclusive) <= 1
      <4>1. exclusive = {} \cup {t}
        BY <2>3
      <4> QED BY <4>1, FS_EmptySet, FS_AddElement
    <3> QED BY <3>1, <3>2
  <2>5. \A i \in DOMAIN batches :
          LET b == batches[i] IN
          /\ b.total = b.added + b.duplicate + b.skipped + b.error
          /\ (b.status = "completed" => b.total = Len(Rows[b.content]))
          /\ Cardinality({s \in sales : s[2] = i}) <= b.added
    BY <2>1 DEF BatchInv, Adds, SaleInv
  <2>6. /\ \A s \in sales : s[2] \in DOMAIN batches
        /\ \A s1, s2 \in sales : s1[1] = s2[1] => s1 = s2
    BY <2>1 DEF SaleInv
  <2>7. /\ (exclusive # {} => shared = {}) /\ rfmLock \subseteq Tasks
        /\ shared \subseteq Tasks /\ runLock \subseteq Autoloads
        /\ \A t \in Autoloads : ~At(t, "idle") <=> runLock = {t}
    BY <2>1 DEF LockInv
  <2>8. /\ batches \in Seq(Batch) /\ disk \subseteq DOMAIN batches
        /\ remote \in [Names -> Listed \cup {"future", "gone"}]
        /\ today \in Days /\ {announced, nightly, behind} \subseteq BOOLEAN
    BY <2>1 DEF WorldInv
  <2> QED BY <2>2, <2>3, <2>4, <2>5, <2>6, <2>7, <2>8, Zenon DEF TypeOK
<1> QED BY <1>1, IntakeInvariant, PTL

(* Whoever gets the source lock exclusively can tell that the sales have     *)
(* changed, however an import ended.                                         *)
THEOREM SourceAnnouncedTheorem == Spec => []SourceAnnounced
<1>1. IntakeInv => SourceAnnounced
  BY DEF IntakeInv, AnnouncedInv, SourceAnnounced
<1> QED BY <1>1, IntakeInvariant, PTL

(* Some task that has begun never waits for a lock.                          *)
THEOREM NobodyStuckTheorem == Spec => []NobodyStuck
<1>1. ASSUME IntakeInv, Busy("idle") # Tasks, \A t \in Tasks \ Busy("idle") : Blocked(t) PROVE FALSE
  <2>1. LockInv
    BY <1>1 DEF IntakeInv
  <2>2. \A u \in Tasks : task[u].pc \in Importing \cup Looking \cup {"delete"} => u \notin Busy("idle") /\ ~Blocked(u)
    BY DEF Importing, Looking, Busy, Blocked, At
  <2>3. exclusive = {} /\ shared = {}
    BY <1>1, <2>1, <2>2 DEF LockInv
  <2>4. rfmLock = {}
    <3>1. ASSUME NEW u \in rfmLock PROVE FALSE
      <4>1. u \in Tasks /\ task[u].pc = "source"
        BY <1>1, <2>1, <2>2, <3>1 DEF LockInv
      <4> QED BY <1>1, <2>3, <4>1 DEF Blocked, At, Busy
    <3> QED BY <3>1
  <2>5. PICK t \in Tasks \ Busy("idle") : Blocked(t)
    BY <1>1 DEF Busy
  <2> QED BY <2>3, <2>4, <2>5 DEF Blocked
<1>2. IntakeInv => NobodyStuck
  BY <1>1 DEF NobodyStuck
<1> QED BY <1>2, IntakeInvariant, PTL

(* What a content tells has been stored.                                     *)
LEMMA ToldAll ==
    ASSUME NEW c \in DOMAIN Files, Told(c, Len(Rows[c]))
    PROVE  ~Wrong(c) /\ Documents(c) \subseteq seenDocs
<1>1. Rows[c] \in Seq(ToSet(Rows[c]))
  BY FilesAssumption
<1>2. DOMAIN Rows[c] = 1..Len(Rows[c])
  BY <1>1
<1>3. \A m \in DOMAIN Rows[c] : Tells(Rows[c][m])
  BY <1>2 DEF Told, Tells
<1>4. \A m \in DOMAIN Rows[c] : Rows[c][m].skip => Rows[c][m].sale = {}
  <2>1. \A m \in DOMAIN Rows[c] : Rows[c][m] \in ToSet(Rows[c])
    BY DEF ToSet
  <2>2. \A r \in ToSet(Rows[c]) : r.skip => r.sale = {}
    BY FilesAssumption, Zenon
  <2> QED BY <2>1, <2>2, Zenon
<1>5. ~Wrong(c)
  BY <1>3, Zenon DEF Wrong, Tells
<1>6. ASSUME NEW d \in Documents(c) PROVE d \in seenDocs
  <2>1. PICK m \in DOMAIN Rows[c] : \E s \in Rows[c][m].sale : d = Doc(s.fp)
    BY DEF Documents
  <2>2. ~Rows[c][m].skip
    BY <1>4, <2>1, Zenon
  <2> QED BY <1>3, <2>1, <2>2, Zenon DEF Tells
<1> QED BY <1>5, <1>6

(* Only 1C and the run that has a file in its hands rename it.               *)
LEMMA WhoRenames ==
    ASSUME [Next]_vars
    PROVE  \/ remote' = remote
           \/ \E n \in Names : Export(n)
           \/ \E t \in Autoloads : Finish(t) \/ MarkError(t)
<1>1. CASE UNCHANGED vars
  BY <1>1 DEF vars
<1>2. ASSUME NEW t \in Tasks, Import(t) PROVE remote' = remote
  <2>1. CASE Begin(t)      BY <2>1, Zenon DEF Begin
  <2>2. CASE Row(t)        BY <2>2, Zenon DEF Row
  <2>3. CASE Insert(t)     BY <2>3, Zenon DEF Insert
  <2>4. CASE Complete(t)   BY <2>4, Zenon DEF Complete
  <2>5. CASE Fail(t)       BY <2>5, Zenon DEF Fail
  <2>6. CASE CleanUp(t)    BY <2>6, Zenon DEF CleanUp
  <2> QED BY <1>2, <2>1, <2>2, <2>3, <2>4, <2>5, <2>6 DEF Import
<1>3. ASSUME NEW t \in Tasks, Rebuild(t) PROVE remote' = remote
  <2>1. CASE Request(t)        BY <2>1, Zenon DEF Request
  <2>2. CASE LockRfm(t)        BY <2>2, Zenon DEF LockRfm
  <2>3. CASE LockSource(t)     BY <2>3, Zenon DEF LockSource
  <2>4. CASE ReadCurrent(t)    BY <2>4, Zenon DEF ReadCurrent
  <2>5. CASE Build(t)          BY <2>5, Zenon DEF Build
  <2>6. CASE RebuildFails(t)   BY <2>6, Zenon DEF RebuildFails
  <2> QED BY <1>3, <2>1, <2>2, <2>3, <2>4, <2>5, <2>6 DEF Rebuild
<1>4. ASSUME NEW t \in Autoloads, Autoload(t)
      PROVE  remote' = remote \/ Finish(t) \/ MarkError(t)
  <2>1. CASE List(t)       BY <2>1, Zenon DEF List
  <2>2. CASE Download(t)   BY <2>2, Zenon DEF Download
  <2>3. CASE EndFile(t)    BY <2>3, Zenon DEF EndFile
  <2>4. CASE Die(t)        BY <2>4, Zenon DEF Die
  <2> QED BY <1>4, <2>1, <2>2, <2>3, <2>4 DEF Autoload
<1>5. CASE NextUpload \/ LockRemoval \/ Delete
  <2>1. CASE NextUpload    BY <2>1, Zenon DEF NextUpload
  <2>2. CASE LockRemoval   BY <2>2, Zenon DEF LockRemoval
  <2>3. CASE Delete        BY <2>3, Zenon DEF Delete
  <2> QED BY <1>5, <2>1, <2>2, <2>3
<1>6. CASE Environment
  <2>1. CASE Upload        BY <2>1, Zenon DEF Upload
  <2>2. CASE StartRemoval  BY <2>2, Zenon DEF StartRemoval
  <2>3. CASE Crash         BY <2>3, Zenon DEF Crash
  <2>4. ASSUME NEW t \in Autoloads, StartRun(t) PROVE remote' = remote
    BY <2>4, Zenon DEF StartRun
  <2> QED BY <1>6, <2>1, <2>2, <2>3, <2>4 DEF Environment
<1> QED BY <1>1, <1>2, <1>3, <1>4, <1>5, <1>6 DEF Next, Step

(* A file leaves the server only when every sale it tells of has been        *)
(* stored: the run deletes what it imported without error, and keeps the     *)
(* rest under its own name or as EROOR_.                                     *)
THEOREM NothingLostTheorem == Spec => NothingLost
<1> DEFINE Kept == \A n \in Names : remote[n] \in Listed /\ remote'[n] \notin Listed =>
                      /\ Remote[n] \in Readable /\ ~Wrong(Remote[n])
                      /\ Documents(Remote[n]) \subseteq seenDocs
<1>1. ASSUME IntakeInv, [Next]_vars, NEW n \in Names, remote[n] \in Listed, remote'[n] \notin Listed
      PROVE  /\ Remote[n] \in Readable /\ ~Wrong(Remote[n])
             /\ Documents(Remote[n]) \subseteq seenDocs
  <2>1. remote \in [Names -> Listed \cup {"future", "gone"}]
    BY <1>1 DEF IntakeInv, WorldInv
  <2>2. ASSUME NEW m \in Names, Export(m) PROVE FALSE
    BY <1>1, <2>1, <2>2 DEF Export, Listed
  <2>3. ASSUME NEW t \in Autoloads, NEW result, NEW otherwise, Attempt(t, result, "ended", otherwise)
        PROVE  n = task[t].name /\ result \notin Listed
    <3>1. PICK m, done : /\ m = task[t].name
                         /\ done = IF remote[m] = task[t].form THEN [remote EXCEPT ![m] = result] ELSE remote
      OBVIOUS
    <3>2. remote' \in {remote, done}
      BY <2>3, <3>1, Zenon DEF Attempt
    <3>3. remote' = [remote EXCEPT ![m] = result]
      BY <1>1, <3>1, <3>2
    <3> QED BY <1>1, <2>1, <3>1, <3>3
  <2>4. ASSUME NEW t \in Autoloads, MarkError(t) PROVE FALSE
    <3>1. Attempt(t, "EROOR_", "ended", "ended")
      BY <2>4, Zenon DEF MarkError
    <3> QED BY <2>3, <3>1 DEF Listed
  <2>5. ASSUME NEW t \in Autoloads, Finish(t)
        PROVE  Remote[n] \in Readable /\ Told(Remote[n], Len(Rows[Remote[n]]))
    <3>1. task[t].pc = "finish" /\ Attempt(t, IF Success(t) THEN "gone" ELSE "EROOR_", "ended", "mark")
      BY <2>5, Zenon DEF Finish, At
    <3>2. n = task[t].name /\ (IF Success(t) THEN "gone" ELSE "EROOR_") \notin Listed
      BY <2>3, <3>1
    <3>3. Success(t)
      BY <3>2 DEF Listed
    <3>4. Fits(t) /\ Counts(t) /\ t \in Tasks /\ t # "removal"
      BY <1>1, TasksAre DEF IntakeInv, TaskInv, CountInv
    <3>5. PICK i, b : i = task[t].batch /\ b = batches[i]
      OBVIOUS
    <3>6. i # 0 /\ i \in DOMAIN batches
      BY <3>1, <3>4, <3>5 DEF Fits, Claimed
    <3>7. b.content = Remote[n]
      BY <3>2, <3>4, <3>5, <3>6 DEF Counts
    <3>8. b.status = "completed" /\ b.error = 0
      BY <3>3, <3>5 DEF Success
    <3>9. Adds(b)
      BY <1>1, <3>5, <3>6 DEF IntakeInv, BatchInv
    <3> QED BY <3>7, <3>8, <3>9 DEF Adds
  <2>6. PICK t \in Autoloads : Finish(t)
    BY <1>1, <2>2, <2>4, WhoRenames
  <2>7. Remote[n] \in Readable /\ Told(Remote[n], Len(Rows[Remote[n]]))
    BY <2>5, <2>6
  <2>8. Remote[n] \in DOMAIN Files
    BY <2>7 DEF Readable
  <2> QED BY <2>7, <2>8, ToldAll
<1>2. IntakeInv /\ [Next]_vars => Kept
  BY <1>1
<1>3. Kept => [Kept]_vars
  OBVIOUS
<1> HIDE DEF Kept
<1>4. Spec => [][Kept]_vars
  BY <1>2, <1>3, IntakeInvariant, PTL DEF Spec
<1> QED BY <1>4 DEF NothingLost, Kept

-----------------------------------------------------------------------------
(* The RFM snapshot: who still owes the rebuild that it needs.               *)

(* An import that may have stored sales ends in a rebuild or where nothing   *)
(* is promised; a request waits for one that nobody served after it.         *)
Owes(t) ==
    \/ task[t].pc \in {"row", "insert", "fail", "request", "history"}
    \/ /\ task[t].pc = "cleanup" /\ ~task[t].raised
       /\ batches[task[t].batch].status = "completed"
    \/ task[t].pc \in {"rfm", "source", "current"} /\ ~task[t].served
UpToDate ==
    IF snapshot = {} THEN sales = {}
    ELSE \A s \in snapshot : s.day \in Days /\ s.clients = Segments(Known(sales), s.day)
(* What the first statement has read is still so when the second reads.      *)
Reads(t) ==
    /\ task[t].raised => task[t].pc = "cleanup"
    /\ task[t].pc = "history" =>
          task[t].seen = {s.fp : s \in Rfm!Current(Known(sales), Period(t))}
OwedInv == behind \/ UpToDate \/ \E t \in Tasks : Owes(t)
ReadsInv == \A t \in Tasks : Reads(t)
SnapshotInv == OwedInv /\ ReadsInv

(* A step of one task that leaves the snapshot alone.                        *)
LEMMA SnapshotStep ==
    ASSUME IntakeInv, SnapshotInv, NEW t \in Tasks, UNCHANGED snapshot, behind => behind',
           \A u \in Tasks \ {t} :
               /\ task'[u] = task[u]
               /\ task[u].pc = "cleanup" => batches'[task[u].batch] = batches[task[u].batch],
           Reads(t)',
           \/ sales' = sales /\ (Owes(t) => Owes(t)' \/ behind')
           \/ Owes(t)' /\ \A u \in Tasks \ {t} : task[u].pc # "history"
    PROVE  SnapshotInv'
<1>1. ASSUME NEW u \in Tasks, u # t, Owes(u) PROVE Owes(u)'
  BY <1>1 DEF Owes
<1>2. CASE sales' = sales
  <2>1. UpToDate => UpToDate'
    BY <1>2 DEF UpToDate
  <2>2. OwedInv'
    BY <1>1, <1>2, <2>1 DEF SnapshotInv, OwedInv
  <2>3. ASSUME NEW u \in Tasks, u # t PROVE Reads(u)'
    BY <1>2, <2>3 DEF SnapshotInv, ReadsInv, Reads, Period
  <2> QED BY <2>2, <2>3 DEF SnapshotInv, ReadsInv
<1>3. CASE Owes(t)' /\ \A u \in Tasks \ {t} : task[u].pc # "history"
  <2>1. ASSUME NEW u \in Tasks, u # t PROVE Reads(u)'
    BY <1>3, <2>1 DEF SnapshotInv, ReadsInv, Reads
  <2> QED BY <1>3, <2>1 DEF SnapshotInv, ReadsInv, OwedInv
<1> QED BY <1>2, <1>3

(* What the other tasks clean up after is theirs.                            *)
LEMMA OthersBatches ==
    ASSUME IntakeInv, NEW t \in Tasks, NEW u \in Tasks, u # t, task[u].pc = "cleanup",
           \A i \in DOMAIN batches : i \notin Claimed(t) => batches'[i] = batches[i]
    PROVE  batches'[task[u].batch] = batches[task[u].batch]
<1>1. Fits(u) /\ Claimed(u) \cap Claimed(t) = {}
  BY DEF IntakeInv, TaskInv
<1>2. u # "removal"
  BY <1>1 DEF Fits, Places, Rebuilding
<1>3. task[u].batch # 0 /\ task[u].batch \in Claimed(u)
  BY <1>1, <1>2 DEF Fits, Importing, Claimed
<1> QED BY <1>1, <1>3 DEF Fits

(* A step of one task that leaves the sales alone.                           *)
LEMMA SnapshotMove ==
    ASSUME IntakeInv, SnapshotInv, NEW t \in Tasks, UNCHANGED <<sales, snapshot>>,
           behind => behind', \A u \in Tasks \ {t} : task'[u] = task[u],
           \A i \in DOMAIN batches : i \notin Claimed(t) => batches'[i] = batches[i],
           task'[t].pc # "history", task'[t].raised => task'[t].pc = "cleanup",
           Owes(t) => Owes(t)' \/ behind'
    PROVE  SnapshotInv'
<1>1. Reads(t)'
  BY DEF Reads
<1>2. \A u \in Tasks \ {t} : task[u].pc = "cleanup" => batches'[task[u].batch] = batches[task[u].batch]
  BY OthersBatches
<1> QED BY <1>1, <1>2, SnapshotStep

LEMMA Turn ==
    ASSUME IntakeInv, NEW t \in Tasks, NEW k, task' = [task EXCEPT ![t] = k]
    PROVE  (\A u \in Tasks \ {t} : task'[u] = task[u]) /\ task'[t] = k
BY DEF IntakeInv, TaskInv

LEMMA GotoTurn ==
    ASSUME IntakeInv, NEW t \in Tasks, NEW l, Goto(t, l)
    PROVE  /\ \A u \in Tasks \ {t} : task'[u] = task[u]
           /\ task'[t].pc = l /\ task'[t].raised = task[t].raised
           /\ task'[t].served = task[t].served /\ task'[t].batch = task[t].batch
           /\ task'[t].seen = task[t].seen /\ task'[t].day = task[t].day
<1>1. PICK k \in Task : k = task[t]
  BY DEF IntakeInv, TaskInv
<1>2. PICK n : n = [k EXCEPT !.pc = l]
  OBVIOUS
<1>3. /\ n.pc = l /\ n.raised = k.raised /\ n.served = k.served /\ n.batch = k.batch
      /\ n.seen = k.seen /\ n.day = k.day
  BY <1>2 DEF Task
<1>4. task' = [task EXCEPT ![t] = n]
  BY <1>1, <1>2 DEF Goto
<1> QED BY <1>1, <1>3, <1>4, Turn

LEMMA ResumeTurn ==
    ASSUME IntakeInv, NEW t \in Tasks, NEW l, task' = [task EXCEPT ![t] = Resume(t, l)]
    PROVE  (\A u \in Tasks \ {t} : task'[u] = task[u]) /\ task'[t].pc = l /\ ~task'[t].raised
<1>1. PICK k \in Task : k = task[t]
  BY DEF IntakeInv, TaskInv
<1>2. Resume(t, l).pc = l /\ ~Resume(t, l).raised
  BY <1>1, IdleFacts DEF Resume, Task
<1> QED BY <1>2, Turn

LEMMA NotRaised ==
    ASSUME SnapshotInv, NEW t \in Tasks, task[t].pc # "cleanup"
    PROVE  ~task[t].raised
BY DEF SnapshotInv, ReadsInv, Reads

(* A step to another place that owes nothing there, or no more than here.    *)
LEMMA SnapshotGoto ==
    ASSUME IntakeInv, SnapshotInv, NEW t \in Tasks, NEW l, Goto(t, l),
           UNCHANGED <<sales, snapshot, batches, behind>>,
           task[t].pc # "cleanup", l # "history",
           \/ task[t].pc \notin {"row", "insert", "fail", "request", "history", "rfm", "source", "current"}
           \/ l \in {"row", "insert", "fail", "request"}
           \/ {task[t].pc, l} \subseteq {"rfm", "source", "current"}
    PROVE  SnapshotInv'
<1>1. /\ \A u \in Tasks \ {t} : task'[u] = task[u]
      /\ task'[t].pc = l /\ task'[t].raised = task[t].raised
      /\ task'[t].served = task[t].served
  BY GotoTurn
<1>2. ~task[t].raised
  BY NotRaised
<1>3. Owes(t) => Owes(t)'
  BY <1>1 DEF Owes
<1> QED BY <1>1, <1>2, <1>3, SnapshotMove

-----------------------------------------------------------------------------
(* Imports and deletions                                                     *)

LEMMA UploadSnapshot == ASSUME IntakeInv, SnapshotInv, Upload PROVE SnapshotInv'
<1> DEFINE t == "upload"
<1>1. t \in Tasks /\ task[t].pc = "idle" /\ UNCHANGED <<sales, snapshot, behind>>
  BY TasksAre DEF Upload, At
<1>2. PICK ids : task' = [task EXCEPT !["upload"].pc = "next", !["upload"].todo = ids]
  BY DEF Upload
<1>3. /\ \A u \in Tasks \ {t} : task'[u] = task[u]
      /\ task'[t].pc = "next" /\ task'[t].raised = task[t].raised
  <2>1. PICK k \in Task : k = task[t]
    BY <1>1 DEF IntakeInv, TaskInv
  <2>2. PICK n : n = [k EXCEPT !.pc = "next", !.todo = ids]
    OBVIOUS
  <2>3. n.pc = "next" /\ n.raised = k.raised
    BY <2>2 DEF Task
  <2>4. task' = [task EXCEPT ![t] = n]
    BY <1>2, <2>1, <2>2
  <2> QED BY <1>1, <2>1, <2>3, <2>4, Turn
<1>4. ~task[t].raised /\ ~Owes(t)
  BY <1>1, NotRaised DEF Owes
<1>5. \A i \in DOMAIN batches : batches'[i] = batches[i]
  <2>1. PICK new : batches' = batches \o new /\ new = [i \in DOMAIN Uploaded |-> NewBatch(Uploaded[i])]
    BY DEF Upload
  <2>2. DOMAIN Uploaded = 1..Len(Uploaded) /\ Len(Uploaded) \in Nat
        /\ \A i \in DOMAIN Uploaded : Uploaded[i] \in DOMAIN Files
    BY IntakeAssumption
  <2>3. new \in Seq(Batch)
    <3>1. \A i \in DOMAIN Uploaded : new[i] \in Batch
      BY <2>1, <2>2, NewBatchFacts
    <3>2. new \in [1..Len(Uploaded) -> Batch]
      BY <2>1, <2>2, <3>1
    <3> QED BY <2>2, <3>2
  <2> QED BY <2>1, <2>3, BatchesGrow DEF IntakeInv, WorldInv
<1> QED BY <1>1, <1>3, <1>4, <1>5, SnapshotMove

LEMMA StartsSnapshot ==
    ASSUME IntakeInv, SnapshotInv, StartRemoval \/ \E t \in Autoloads : StartRun(t)
    PROVE  SnapshotInv'
<1>1. CASE StartRemoval
  BY <1>1, SnapshotGoto, TasksAre, Zenon DEF StartRemoval, At, store
<1>2. ASSUME NEW t \in Autoloads, StartRun(t) PROVE SnapshotInv'
  BY <1>2, SnapshotGoto, TasksAre, Zenon DEF StartRun, At, store
<1> QED BY <1>1, <1>2

LEMMA NothingSnapshot ==
    ASSUME SnapshotInv, UNCHANGED <<batches, sales, task, snapshot, behind>>
    PROVE  SnapshotInv'
<1>1. ASSUME NEW t \in Tasks PROVE (Owes(t) <=> Owes(t)') /\ (Reads(t) => Reads(t)')
  BY DEF Owes, Reads, Period
<1>2. UpToDate => UpToDate'
  BY DEF UpToDate
<1> QED BY <1>1, <1>2 DEF SnapshotInv, OwedInv, ReadsInv

LEMMA CrashSnapshot == ASSUME IntakeInv, Crash PROVE SnapshotInv'
<1>1. task' = [t \in Tasks |-> Idle] /\ behind' = TRUE
  BY DEF Crash
<1>2. \A t \in Tasks : Reads(t)'
  BY <1>1, IdleFacts DEF Reads
<1> QED BY <1>1, <1>2 DEF SnapshotInv, OwedInv, ReadsInv

LEMMA NextUploadSnapshot == ASSUME IntakeInv, SnapshotInv, NextUpload PROVE SnapshotInv'
<1> DEFINE t == "upload"
<1>1. t \in Tasks /\ task[t].pc = "next" /\ UNCHANGED <<batches, sales, snapshot, behind>>
  BY TasksAre DEF NextUpload, At, store
<1>2. PICK todo : task' = [task EXCEPT !["upload"] = IF todo = <<>> THEN Idle
                  ELSE [Idle EXCEPT !.pc = "lock", !.batch = Head(todo), !.todo = Tail(todo)]]
  BY DEF NextUpload
<1>3. PICK n : n = IF todo = <<>> THEN Idle
                   ELSE [Idle EXCEPT !.pc = "lock", !.batch = Head(todo), !.todo = Tail(todo)]
  OBVIOUS
<1>4. n.pc \in {"idle", "lock"} /\ ~n.raised
  BY <1>3 DEF Idle
<1>5. (\A u \in Tasks \ {t} : task'[u] = task[u]) /\ task'[t] = n
  BY <1>1, <1>2, <1>3, Turn
<1>6. ~Owes(t)
  BY <1>1 DEF Owes
<1> QED BY <1>1, <1>4, <1>5, <1>6, SnapshotMove

LEMMA BeginSnapshot == ASSUME IntakeInv, SnapshotInv, NEW t \in Tasks, Begin(t) PROVE SnapshotInv'
<1>1. task[t].pc = "lock" /\ t # "removal" /\ UNCHANGED <<sales, snapshot, behind>>
  BY DEF Begin, At
<1>2. ~task[t].raised /\ ~Owes(t)
  BY <1>1, NotRaised DEF Owes
<1>3. /\ \A u \in Tasks \ {t} : task'[u] = task[u]
      /\ task'[t].pc # "history" /\ (task'[t].raised => task'[t].pc = "cleanup")
  <2>1. PICK k \in Task : k = task[t]
    BY DEF IntakeInv, TaskInv
  <2>2. PICK n : /\ n \in {[k EXCEPT !.pc = "row", !.row = 1], [k EXCEPT !.pc = "fail"],
                           [k EXCEPT !.pc = "cleanup", !.raised = TRUE]}
                 /\ task' = [task EXCEPT ![t] = n]
    <3>1. \/ task' = [task EXCEPT ![t].pc = "row", ![t].row = 1]
          \/ task' = [task EXCEPT ![t].pc = "fail"]
          \/ task' = [task EXCEPT ![t].pc = "cleanup", ![t].raised = TRUE]
      BY Zenon DEF Begin, Raise
    <3> QED BY <2>1, <3>1
  <2>3. n.pc # "history" /\ (n.raised => n.pc = "cleanup")
    BY <1>2, <2>1, <2>2 DEF Task
  <2> QED BY <2>2, <2>3, Turn
<1>4. \A i \in DOMAIN batches : i \notin Claimed(t) => batches'[i] = batches[i]
  <2>1. task[t].batch # 0 /\ task[t].batch \in Claimed(t)
    BY <1>1 DEF IntakeInv, TaskInv, Fits, Claimed
  <2>2. \/ batches' = batches
        \/ batches' = [batches EXCEPT ![task[t].batch].status = "processing"]
    BY Zenon DEF Begin
  <2> QED BY <2>1, <2>2 DEF IntakeInv, WorldInv
<1> QED BY <1>1, <1>2, <1>3, <1>4, SnapshotMove

LEMMA CountTurn ==
    ASSUME IntakeInv, NEW t \in Tasks, task[t].pc \in {"row", "insert"}, NEW outcome,
           Count(t, outcome)
    PROVE  /\ \A u \in Tasks \ {t} : task'[u] = task[u]
           /\ task'[t].pc = "row" /\ task'[t].raised = task[t].raised
           /\ \A i \in DOMAIN batches : i \notin Claimed(t) => batches'[i] = batches[i]
<1>1. PICK k \in Task : k = task[t]
  BY DEF IntakeInv, TaskInv
<1>2. PICK n : n = [k EXCEPT !.pc = "row", !.row = @ + 1]
  OBVIOUS
<1>3. n.pc = "row" /\ n.raised = k.raised
  BY <1>2 DEF Task
<1>4. task' = [task EXCEPT ![t] = n]
  BY <1>1, <1>2 DEF Count
<1>5. (\A u \in Tasks \ {t} : task'[u] = task[u]) /\ task'[t] = n
  BY <1>4, Turn
<1>6. PICK i : i = task[t].batch
  OBVIOUS
<1>7. i \in Claimed(t)
  BY <1>6, Importer DEF Importing
<1>8. batches' = [batches EXCEPT ![i].total = @ + 1, ![i][outcome] = @ + 1]
  BY <1>6 DEF Count
<1>9. \A j \in DOMAIN batches : j # i => batches'[j] = batches[j]
  BY <1>8 DEF IntakeInv, WorldInv
<1> QED BY <1>1, <1>3, <1>5, <1>7, <1>9

LEMMA RowSnapshot == ASSUME IntakeInv, SnapshotInv, NEW t \in Tasks, Row(t) PROVE SnapshotInv'
<1>1. task[t].pc = "row" /\ UNCHANGED <<sales, snapshot, behind>> /\ ~task[t].raised
  BY NotRaised, Zenon DEF Row, At
<1>2. ASSUME NEW outcome, Count(t, outcome) PROVE SnapshotInv'
  <2>1. Owes(t)' /\ ~task'[t].raised /\ task'[t].pc # "history"
    BY <1>1, <1>2, CountTurn DEF Owes
  <2> QED BY <1>1, <1>2, <2>1, CountTurn, SnapshotMove
<1>3. ASSUME NEW l \in {"insert", "fail"}, Goto(t, l), UNCHANGED batches PROVE SnapshotInv'
  BY <1>1, <1>3, SnapshotGoto
<1> QED BY <1>2, <1>3, Zenon DEF Row

(* While a task shares the source lock, nobody is between the statements of  *)
(* a rebuild.                                                                *)
LEMMA NobodyReads ==
    ASSUME IntakeInv, NEW t \in Tasks, task[t].pc \in Importing \cup {"delete"}
    PROVE  \A u \in Tasks : task[u].pc # "history"
BY DEF IntakeInv, LockInv, Looking

LEMMA InsertSnapshot == ASSUME IntakeInv, SnapshotInv, NEW t \in Tasks, Insert(t) PROVE SnapshotInv'
<1>1. task[t].pc = "insert" /\ UNCHANGED <<snapshot, behind>> /\ ~task[t].raised
  BY NotRaised, Zenon DEF Insert, At
<1>2. PICK outcome : Count(t, outcome)
  BY Zenon DEF Insert
<1>3. Owes(t)' /\ Reads(t)'
  BY <1>1, <1>2, CountTurn DEF Owes, Reads
<1>4. \A u \in Tasks : task[u].pc # "history"
  BY <1>1, NobodyReads DEF Importing
<1>5. \A u \in Tasks \ {t} : task[u].pc = "cleanup" => batches'[task[u].batch] = batches[task[u].batch]
  BY <1>1, <1>2, CountTurn, OthersBatches
<1> QED BY <1>1, <1>2, <1>3, <1>4, <1>5, CountTurn, SnapshotStep

(* What a batch's status becomes.                                            *)
LEMMA StatusTurn ==
    ASSUME IntakeInv, NEW t \in Tasks, task[t].pc \in Importing,
           NEW status \in {"completed", "failed"},
           batches' = [batches EXCEPT ![task[t].batch].status = status]
    PROVE  /\ batches'[task[t].batch].status = status
           /\ \A i \in DOMAIN batches : i \notin Claimed(t) => batches'[i] = batches[i]
<1>1. PICK i : i = task[t].batch
  OBVIOUS
<1>2. i \in DOMAIN batches /\ i \in Claimed(t) /\ batches \in Seq(Batch)
  BY <1>1, Importer
<1>3. PICK b \in Batch : batches' = [batches EXCEPT ![i] = b] /\ b.status = status
  BY <1>1, <1>2, StatusSet
<1> QED BY <1>1, <1>2, <1>3, BatchChanges

LEMMA CompleteSnapshot ==
    ASSUME IntakeInv, SnapshotInv, NEW t \in Tasks, Complete(t) PROVE SnapshotInv'
<1>1. task[t].pc = "row" /\ UNCHANGED <<sales, snapshot, behind>> /\ ~task[t].raised
  BY NotRaised, Zenon DEF Complete, At
<1>2. CASE Goto(t, "fail") /\ UNCHANGED batches
  BY <1>1, <1>2, SnapshotGoto
<1>3. CASE batches' = [batches EXCEPT ![task[t].batch].status = "completed"] /\ Goto(t, "cleanup")
  <2>1. /\ batches'[task[t].batch].status = "completed"
        /\ \A i \in DOMAIN batches : i \notin Claimed(t) => batches'[i] = batches[i]
    BY <1>1, <1>3, StatusTurn DEF Importing
  <2>2. /\ \A u \in Tasks \ {t} : task'[u] = task[u]
        /\ task'[t].pc = "cleanup" /\ ~task'[t].raised /\ task'[t].batch = task[t].batch
    BY <1>1, <1>3, GotoTurn
  <2>3. Owes(t)'
    BY <2>1, <2>2 DEF Owes
  <2> QED BY <1>1, <2>1, <2>2, <2>3, SnapshotMove
<1> QED BY <1>2, <1>3, Zenon DEF Complete

LEMMA FailSnapshot == ASSUME IntakeInv, SnapshotInv, NEW t \in Tasks, Fail(t) PROVE SnapshotInv'
<1>1. task[t].pc = "fail" /\ UNCHANGED <<sales, snapshot>> /\ behind'
  BY Zenon DEF Fail, At
<1>2. (\A u \in Tasks \ {t} : task'[u] = task[u]) /\ task'[t].pc = "cleanup"
  <2>1. CASE Goto(t, "cleanup")
    BY <2>1, GotoTurn
  <2>2. CASE Raise(t, "cleanup")
    <3>1. PICK k \in Task : k = task[t]
      BY DEF IntakeInv, TaskInv
    <3>2. PICK n : n = [k EXCEPT !.pc = "cleanup", !.raised = TRUE]
      OBVIOUS
    <3>3. n.pc = "cleanup" /\ task' = [task EXCEPT ![t] = n]
      BY <2>2, <3>1, <3>2 DEF Task, Raise
    <3> QED BY <3>3, Turn
  <2> QED BY <2>1, <2>2, Zenon DEF Fail
<1>3. \A i \in DOMAIN batches : i \notin Claimed(t) => batches'[i] = batches[i]
  <2>1. batches' = batches \/ batches' = [batches EXCEPT ![task[t].batch].status = "failed"]
    BY Zenon DEF Fail
  <2> QED BY <1>1, <2>1, StatusTurn DEF Importing
<1> QED BY <1>1, <1>2, <1>3, SnapshotMove

LEMMA CleanUpSnapshot ==
    ASSUME IntakeInv, SnapshotInv, NEW t \in Tasks, CleanUp(t) PROVE SnapshotInv'
<1>1. task[t].pc = "cleanup" /\ UNCHANGED <<sales, snapshot>> /\ (behind => behind')
  BY DEF CleanUp, At
<1>2. PICK i : i = task[t].batch /\ i \in DOMAIN batches /\ i \in Claimed(t) /\ batches \in Seq(Batch)
  BY <1>1, Importer DEF Importing
<1>3. \A j \in DOMAIN batches : j \notin Claimed(t) => batches'[j] = batches[j]
  <2>1. batches' = batches \/ batches' = [batches EXCEPT ![i].path = FALSE]
    BY <1>2 DEF CleanUp
  <2> QED BY <1>2, <2>1
<1>4. PICK l \in Onward(t) \cup {"idle"} :
        /\ task' = [task EXCEPT ![t] = Resume(t, l)]
        /\ Owes(t) => l = "request" \/ behind'
  <2>1. CASE Aborted(t) /\ (task[t].raised \/ behind')
    <3>1. Owes(t) => behind'
      BY <1>1, <2>1 DEF Owes
    <3> QED BY <2>1, <3>1 DEF Aborted, Onward
  <2>2. CASE task' = [task EXCEPT ![t] = Resume(t,
                      IF batches[task[t].batch].status = "completed" THEN "request"
                      ELSE AfterImport(t))]
    <3>1. Owes(t) => batches[task[t].batch].status = "completed"
      BY <1>1 DEF Owes
    <3> QED BY <2>2, <3>1 DEF Onward
  <2> QED BY <2>1, <2>2, Zenon DEF CleanUp
<1>5. (\A u \in Tasks \ {t} : task'[u] = task[u]) /\ task'[t].pc = l /\ ~task'[t].raised
  BY <1>4, ResumeTurn
<1>6. l # "history"
  BY OnwardFacts DEF Looking
<1>7. Owes(t) => Owes(t)' \/ behind'
  BY <1>4, <1>5 DEF Owes
<1> QED BY <1>1, <1>3, <1>5, <1>6, <1>7, SnapshotMove

LEMMA RemovalSnapshot ==
    ASSUME IntakeInv, SnapshotInv, LockRemoval \/ Delete PROVE SnapshotInv'
<1> DEFINE t == "removal"
<1>0. t \in Tasks
  BY TasksAre
<1>1. CASE LockRemoval
  BY <1>0, <1>1, SnapshotGoto, Zenon DEF LockRemoval, At, store
<1>2. ASSUME Delete, Goto(t, "request") PROVE SnapshotInv'
  <2>1. task[t].pc = "delete" /\ UNCHANGED <<batches, snapshot, behind>> /\ ~task[t].raised
    BY <1>0, <1>2, NotRaised DEF Delete, At
  <2>2. (\A u \in Tasks \ {t} : task'[u] = task[u]) /\ Owes(t)' /\ Reads(t)'
    BY <1>0, <1>2, <2>1, GotoTurn DEF Owes, Reads
  <2>3. \A u \in Tasks : task[u].pc # "history"
    BY <1>0, <2>1, NobodyReads
  <2> QED BY <1>0, <2>1, <2>2, <2>3, SnapshotStep
<1>3. ASSUME Delete, task' = [task EXCEPT !["removal"] = Idle], UNCHANGED sales PROVE SnapshotInv'
  <2>1. task[t].pc = "delete" /\ UNCHANGED <<batches, snapshot, behind>>
    BY <1>3 DEF Delete, At
  <2>2. (\A u \in Tasks \ {t} : task'[u] = task[u]) /\ task'[t] = Idle /\ ~Owes(t)
    BY <1>0, <1>3, <2>1, Turn DEF Owes
  <2> QED BY <1>0, <1>3, <2>1, <2>2, IdleFacts, SnapshotMove
<1> QED BY <1>1, <1>2, <1>3 DEF Delete

-----------------------------------------------------------------------------
(* The rebuild                                                               *)

(* The facts of a stored fingerprint are those of its sale.                  *)
LEMMA FactsAgain ==
    ASSUME IntakeInv, NEW period
    PROVE  LET current == Rfm!Current(Known(sales), period) IN
           {Facts(fp) : fp \in {s.fp : s \in current}} = current
<1> DEFINE current == Rfm!Current(Known(sales), period)
<1>1. \A s \in sales : s[1] \in Fps
  BY DEF IntakeInv, SaleInv
<1>2. \A fp \in Fps : Facts(fp).fp = fp
  BY DEF Fps, Facts
<1>3. \A s \in Known(sales) : Facts(s.fp) = s
  BY <1>1, <1>2 DEF Known
<1>4. current \subseteq Known(sales)
  BY DEF Rfm!Current
<1> HIDE DEF current
<1>5. \A s \in current : Facts(s.fp) = s
  BY <1>3, <1>4
<1> QED BY <1>5 DEF current

LEMMA RequestsSnapshot ==
    ASSUME IntakeInv, SnapshotInv, NEW t \in Tasks, Request(t) \/ LockRfm(t) \/ LockSource(t)
    PROVE  SnapshotInv'
<1>1. CASE Request(t)
  <2>1. task[t].pc = "request" /\ UNCHANGED <<batches, sales, snapshot, behind>> /\ ~task[t].raised
    BY <1>1, NotRaised DEF Request, At, store
  <2>2. PICK day : task' = [task EXCEPT ![t].pc = "rfm", ![t].day = day, ![t].served = FALSE]
    BY <1>1, Zenon DEF Request
  <2>3. PICK k \in Task : k = task[t]
    BY DEF IntakeInv, TaskInv
  <2>4. PICK n : n = [k EXCEPT !.pc = "rfm", !.day = day, !.served = FALSE]
    OBVIOUS
  <2>5. n.pc = "rfm" /\ n.raised = k.raised /\ ~n.served /\ task' = [task EXCEPT ![t] = n]
    BY <2>2, <2>3, <2>4 DEF Task
  <2>6. (\A u \in Tasks \ {t} : task'[u] = task[u]) /\ task'[t] = n
    BY <2>5, Turn
  <2>7. Owes(t)'
    BY <2>5, <2>6 DEF Owes
  <2> QED BY <2>1, <2>3, <2>5, <2>6, <2>7, SnapshotMove
<1>2. CASE LockRfm(t)
  BY <1>2, SnapshotGoto DEF LockRfm, At, store
<1>3. CASE LockSource(t)
  BY <1>3, SnapshotGoto DEF LockSource, At, store
<1> QED BY <1>1, <1>2, <1>3

LEMMA AfterImportElsewhere ==
    ASSUME NEW t
    PROVE  AfterImport(t) \in {"next", "finish", "idle"}
BY DEF AfterImport

(* The end of a rebuild that publishes nothing.                              *)
LEMMA RebuiltSnapshot ==
    ASSUME IntakeInv, SnapshotInv, NEW t \in Tasks, Rebuilt(t),
           UNCHANGED <<batches, sales, snapshot>>, behind => behind', Owes(t) => behind'
    PROVE  SnapshotInv'
<1>1. task' = [task EXCEPT ![t] = Resume(t, AfterImport(t))]
  BY DEF Rebuilt
<1>2. /\ \A u \in Tasks \ {t} : task'[u] = task[u]
      /\ task'[t].pc = AfterImport(t) /\ ~task'[t].raised
  BY <1>1, ResumeTurn
<1> QED BY <1>2, AfterImportElsewhere, SnapshotMove

LEMMA ReadCurrentSnapshot ==
    ASSUME IntakeInv, SnapshotInv, NEW t \in Tasks, ReadCurrent(t) PROVE SnapshotInv'
<1>1. task[t].pc = "current" /\ UNCHANGED <<batches, sales, snapshot, behind>> /\ ~task[t].raised
  BY NotRaised DEF ReadCurrent, At, store
<1>2. CASE Coalesced(t) /\ Rebuilt(t)
  <2>1. ~Owes(t)
    BY <1>1, <1>2 DEF Owes, Coalesced
  <2> QED BY <1>1, <1>2, <2>1, RebuiltSnapshot
<1>3. ASSUME NEW seen, seen = {s.fp : s \in Rfm!Current(Known(sales), Period(t))},
             task' = [task EXCEPT ![t].pc = "history", ![t].seen = seen]
      PROVE  SnapshotInv'
  <2>1. PICK k \in Task : k = task[t]
    BY DEF IntakeInv, TaskInv
  <2>2. PICK n : n = [k EXCEPT !.pc = "history", !.seen = seen]
    OBVIOUS
  <2>3. /\ n.pc = "history" /\ n.raised = k.raised /\ n.seen = seen /\ n.day = k.day
        /\ task' = [task EXCEPT ![t] = n]
    BY <1>3, <2>1, <2>2 DEF Task
  <2>4. (\A u \in Tasks \ {t} : task'[u] = task[u]) /\ task'[t] = n
    BY <2>3, Turn
  <2>5. Reads(t)'
    BY <1>1, <1>3, <2>1, <2>3, <2>4 DEF Reads, Period
  <2>6. Owes(t)'
    BY <2>3, <2>4 DEF Owes
  <2> QED BY <1>1, <2>4, <2>5, <2>6, SnapshotStep
<1> QED BY <1>2, <1>3 DEF ReadCurrent

LEMMA BuildSnapshot ==
    ASSUME IntakeInv, SnapshotInv, NEW t \in Tasks, Build(t) PROVE SnapshotInv'
<1>1. /\ task[t].pc = "history" /\ UNCHANGED <<batches, sales>>
      /\ task[t].seen = {s.fp : s \in Rfm!Current(Known(sales), Period(t))}
  BY DEF Build, At, store, SnapshotInv, ReadsInv, Reads
<1>2. CASE Rebuilt(t) /\ behind' = TRUE /\ UNCHANGED snapshot
  BY <1>1, <1>2, RebuiltSnapshot
<1>3. CASE ~(Rebuilt(t) /\ behind' = TRUE /\ UNCHANGED snapshot)
  <2>1. /\ snapshot' = {[day     |-> task[t].day,
                         clients |-> Rfm!Enrich(Rfm!RfmRows({Facts(fp) : fp \in task[t].seen},
                                        Rfm!History(Known(sales), Period(t)), Period(t)))]}
        /\ task' = [u \in Tasks |->
                      IF u = t THEN Resume(t, AfterImport(t))
                      ELSE [task[u] EXCEPT !.served = @ \/ task[u].pc \in {"rfm", "source"}]]
    BY <1>3, Zenon DEF Build
  <2>2. {Facts(fp) : fp \in task[t].seen} = Rfm!Current(Known(sales), Period(t))
    BY <1>1, FactsAgain
  <2>3. PICK clients : /\ clients = Segments(Known(sales), task[t].day)
                       /\ snapshot' = {[day |-> task[t].day, clients |-> clients]}
    BY <2>1, <2>2 DEF Segments, Period
  <2>4. UpToDate'
    <3>1. snapshot' # {} /\ \A s \in snapshot' : s.clients = clients /\ s.day = task[t].day
      BY <2>3
    <3>2. task[t].day \in Days
      BY DEF IntakeInv, TaskInv, Task
    <3>3. \A s \in snapshot' : s.day \in Days /\ s.clients = Segments(Known(sales), s.day)
      BY <2>3, <3>1, <3>2
    <3> QED BY <1>1, <3>1, <3>3 DEF UpToDate
  <2>5. ASSUME NEW u \in Tasks PROVE Reads(u)'
    <3>1. CASE u = t
      <4>1. PICK k \in Task : k = task[t]
        BY DEF IntakeInv, TaskInv
      <4>2. Resume(t, AfterImport(t)).pc = AfterImport(t) /\ ~Resume(t, AfterImport(t)).raised
        BY <4>1, IdleFacts DEF Resume, Task
      <4>3. task'[u] = Resume(t, AfterImport(t))
        BY <2>1, <3>1
      <4> QED BY <4>2, <4>3, AfterImportElsewhere DEF Reads
    <3>2. CASE u # t
      <4>1. PICK k \in Task : k = task[u]
        BY DEF IntakeInv, TaskInv
      <4>2. PICK served : task'[u] = [k EXCEPT !.served = served]
        BY <2>1, <3>2, <4>1
      <4>3. task'[u].pc = k.pc /\ task'[u].raised = k.raised /\ task'[u].seen = k.seen
            /\ task'[u].day = k.day
        BY <4>2 DEF Task
      <4>4. Reads(u)
        BY DEF SnapshotInv, ReadsInv
      <4> QED BY <1>1, <4>1, <4>3, <4>4 DEF Reads, Period
    <3> QED BY <3>1, <3>2
  <2> QED BY <2>4, <2>5 DEF SnapshotInv, OwedInv, ReadsInv
<1> QED BY <1>2, <1>3

LEMMA RebuildFailsSnapshot ==
    ASSUME IntakeInv, SnapshotInv, NEW t \in Tasks, RebuildFails(t) PROVE SnapshotInv'
BY RebuiltSnapshot DEF RebuildFails, store

-----------------------------------------------------------------------------
(* The autoload                                                              *)

LEMMA NextFileTurn ==
    ASSUME IntakeInv, NEW t \in Tasks, NEW todo, NextFile(t, todo) \/ EndRun(t)
    PROVE  /\ \A u \in Tasks \ {t} : task'[u] = task[u]
           /\ task'[t].pc \in {"idle", "download"} /\ ~task'[t].raised
<1>1. PICK n, name, form, rest :
        /\ \/ n = Idle
           \/ n = [Idle EXCEPT !.pc = "download", !.name = name, !.form = form, !.todo = rest]
        /\ task' = [task EXCEPT ![t] = n]
  BY DEF NextFile, EndRun
<1>2. n.pc \in {"idle", "download"} /\ ~n.raised
  <2>1. CASE n = Idle
    BY <2>1, IdleFacts
  <2>2. CASE n = [Idle EXCEPT !.pc = "download", !.name = name, !.form = form, !.todo = rest]
    BY <2>2 DEF Idle
  <2> QED BY <1>1, <2>1, <2>2
<1> QED BY <1>1, <1>2, Turn

LEMMA AttemptTurn ==
    ASSUME IntakeInv, NEW t \in Tasks, NEW result, NEW then, NEW otherwise,
           Attempt(t, result, then, otherwise)
    PROVE  /\ \A u \in Tasks \ {t} : task'[u] = task[u]
           /\ task'[t].pc \in {task[t].pc, then, otherwise} /\ task'[t].raised = task[t].raised
<1>1. PICK k \in Task : k = task[t]
  BY DEF IntakeInv, TaskInv
<1>2. PICK n : /\ n \in {[k EXCEPT !.tries = 0, !.pc = then], [k EXCEPT !.tries = @ + 1],
                         [k EXCEPT !.tries = 0, !.pc = otherwise]}
               /\ task' = [task EXCEPT ![t] = n]
  <2>1. \/ task' = [task EXCEPT ![t].tries = 0, ![t].pc = then]
        \/ task' = [task EXCEPT ![t].tries = @ + 1]
        \/ task' = [task EXCEPT ![t].tries = 0, ![t].pc = otherwise]
    BY Zenon DEF Attempt
  <2> QED BY <1>1, <2>1
<1>3. n.pc \in {k.pc, then, otherwise} /\ n.raised = k.raised
  BY <1>2 DEF Task
<1> QED BY <1>1, <1>2, <1>3, Turn

LEMMA AutoloadSnapshot ==
    ASSUME IntakeInv, SnapshotInv, NEW t \in Autoloads, Autoload(t) PROVE SnapshotInv'
<1>1. /\ t \in Tasks /\ task[t].pc \in Serving /\ UNCHANGED <<sales, snapshot, behind>>
      /\ ~Owes(t) /\ ~task[t].raised
  <2>1. task[t].pc \in Serving /\ UNCHANGED <<sales, snapshot, behind>>
    BY DEF Autoload, List, Download, Finish, MarkError, EndFile, Die, At, Serving, store
  <2> QED BY <2>1, TasksAre, NotRaised DEF Owes, Serving
<1>2. ASSUME NEW todo, NextFile(t, todo) \/ EndRun(t), UNCHANGED batches PROVE SnapshotInv'
  BY <1>1, <1>2, NextFileTurn, SnapshotMove
<1>3. CASE List(t)
  BY <1>2, <1>3 DEF List, store
<1>4. CASE Download(t)
  <2>1. CASE Goto(t, "mark") /\ UNCHANGED batches
    BY <1>1, <2>1, SnapshotGoto DEF Serving
  <2>2. ASSUME batches' = Append(batches, NewBatch(Remote[task[t].name])),
               task' = [task EXCEPT ![t].pc = "lock", ![t].batch = Len(batches) + 1]
        PROVE  SnapshotInv'
    <3>1. PICK k \in Task : k = task[t]
      BY <1>1 DEF IntakeInv, TaskInv
    <3>2. PICK n : n = [k EXCEPT !.pc = "lock", !.batch = Len(batches) + 1]
      OBVIOUS
    <3>3. n.pc = "lock" /\ n.raised = k.raised /\ task' = [task EXCEPT ![t] = n]
      BY <2>2, <3>1, <3>2 DEF Task
    <3>4. (\A u \in Tasks \ {t} : task'[u] = task[u]) /\ task'[t] = n
      BY <1>1, <3>3, Turn
    <3>5. \A i \in DOMAIN batches : batches'[i] = batches[i]
      BY <2>2 DEF IntakeInv, WorldInv
    <3> QED BY <1>1, <3>1, <3>3, <3>4, <3>5, SnapshotMove
  <2> QED BY <1>4, <2>1, <2>2 DEF Download
<1>5. ASSUME NEW result, NEW otherwise \in {"mark", "ended"}, UNCHANGED batches,
             Attempt(t, result, "ended", otherwise)
      PROVE  SnapshotInv'
  <2>1. /\ \A u \in Tasks \ {t} : task'[u] = task[u]
        /\ task'[t].pc \in Serving /\ task'[t].raised = task[t].raised
    BY <1>1, <1>5, AttemptTurn DEF Serving
  <2> QED BY <1>1, <1>5, <2>1, SnapshotMove DEF Serving
<1>6. CASE Finish(t) \/ MarkError(t)
  BY <1>5, <1>6, Zenon DEF Finish, MarkError, store
<1>7. CASE EndFile(t) \/ Die(t)
  BY <1>2, <1>7 DEF EndFile, Die
<1> QED BY <1>3, <1>4, <1>6, <1>7 DEF Autoload

LEMMA SnapshotNext == IntakeInv /\ SnapshotInv /\ [Next]_vars => SnapshotInv'
<1> SUFFICES ASSUME IntakeInv, SnapshotInv, [Next]_vars PROVE SnapshotInv'
  OBVIOUS
<1>1. CASE UNCHANGED vars
  BY <1>1, NothingSnapshot DEF vars
<1>2. CASE Environment
  <2>1. ASSUME NEW n \in Names, Export(n) PROVE SnapshotInv'
    BY <2>1, NothingSnapshot DEF Export, store
  <2> QED BY <1>2, <2>1, UploadSnapshot, StartsSnapshot, CrashSnapshot DEF Environment
<1>3. ASSUME NEW t \in Tasks, Import(t) PROVE SnapshotInv'
  BY <1>3, BeginSnapshot, RowSnapshot, InsertSnapshot, CompleteSnapshot, FailSnapshot,
     CleanUpSnapshot DEF Import
<1>4. ASSUME NEW t \in Tasks, Rebuild(t) PROVE SnapshotInv'
  BY <1>4, RequestsSnapshot, ReadCurrentSnapshot, BuildSnapshot, RebuildFailsSnapshot DEF Rebuild
<1>5. CASE NextUpload \/ LockRemoval \/ Delete
  BY <1>5, NextUploadSnapshot, RemovalSnapshot
<1> QED BY <1>1, <1>2, <1>3, <1>4, <1>5, AutoloadSnapshot DEF Next, Step

(* At rest, and unless something failed that nothing makes up for, the       *)
(* active snapshot is what a rebuild makes of the sales there are now,       *)
(* however imports, deletions and rebuilds have overtaken each other.        *)
SnapshotIsOfTheSales == Busy("idle") = Tasks /\ ~behind => UpToDate

THEOREM SnapshotIsOfTheSalesTheorem == Spec => []SnapshotIsOfTheSales
<1>1. Init => SnapshotInv
  <2>1. ASSUME Init PROVE UpToDate /\ \A t \in Tasks : Reads(t)
    BY <2>1, IdleFacts DEF Init, UpToDate, Reads
  <2> QED BY <2>1 DEF SnapshotInv, OwedInv, ReadsInv
<1>2. IntakeInv /\ SnapshotInv => SnapshotIsOfTheSales
  <2>1. ASSUME Busy("idle") = Tasks, NEW t \in Tasks PROVE ~Owes(t)
    BY <2>1 DEF Busy, Owes
  <2> QED BY <2>1 DEF SnapshotInv, OwedInv, SnapshotIsOfTheSales
<1> QED BY <1>1, <1>2, SnapshotNext, IntakeInvariant, PTL DEF Spec

(* The active snapshot then says of every client what the reference says,    *)
(* provided that the arithmetic agrees with it for the sales the files can   *)
(* give, which has no interleavings and is for TLC to evaluate.              *)
THEOREM SnapshotCatchesUpTheorem ==
    ASSUME ScoresAgree(Parsed)
    PROVE  Spec => []SnapshotCatchesUp
<1>1. ASSUME IntakeInv PROVE Known(sales) \subseteq Parsed
  <2>1. \A s \in sales : s[1] \in Fps
    BY <1>1 DEF IntakeInv, SaleInv
  <2>2. \A fp \in Fps : Facts(fp) \in Parsed
    BY DEF Fps, Facts
  <2> QED BY <2>1, <2>2 DEF Known
<1>2. ASSUME IntakeInv, SnapshotIsOfTheSales PROVE SnapshotCatchesUp
  BY <1>1, <1>2 DEF SnapshotIsOfTheSales, SnapshotCatchesUp, UpToDate, ScoresAgree
<1> QED BY <1>2, IntakeInvariant, SnapshotIsOfTheSalesTheorem, PTL
=============================================================================
