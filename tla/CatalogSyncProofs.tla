-------------------------- MODULE CatalogSyncProofs --------------------------
(***************************************************************************)
(* Theorems about CatalogSync for every value of its constants: its types,  *)
(* and that no synchronised sale is skipped (Covered) but those the cycle    *)
(* had passed before they committed, while no live session loses its lock.  *)
(* Then its commands: a boot forgets those before it, only the CLI brings   *)
(* the refusals of start() together, and a refresh that calls itself         *)
(* complete has checked what it found.                                       *)
(***************************************************************************)
EXTENDS CatalogSync, SqlProofs

-----------------------------------------------------------------------------
(* Pages *)

(* Every set of sale items is finite and its size is a natural number.       *)
LEMMA SaleSets ==
    ASSUME NEW S \in SUBSET SaleIds
    PROVE  IsFiniteSet(S) /\ Cardinality(S) \in Nat
<1>1. IsFiniteSet(SaleIds)
  BY ConstantsAssumption, FS_Interval DEF SaleIds
<1> QED
  BY <1>1, FS_Subset, FS_CardinalityType

(* So is every set of identities.                                            *)
LEMMA IdentitySets ==
    ASSUME NEW S \in SUBSET Identities
    PROVE  IsFiniteSet(S) /\ Cardinality(S) \in Nat
<1>1. IsFiniteSet(Identities)
  BY ConstantsAssumption, FS_Interval DEF Identities
<1> QED
  BY <1>1, FS_Subset, FS_CardinalityType

-----------------------------------------------------------------------------
(* Types *)

(* The page a process reads has the type of a page.                          *)
LEMMA FetchType ==
    ASSUME TypeOK, NEW p \in Procs, FetchPage(p)
    PROVE  /\ state' \in State /\ lookups' \in [Identities -> Lookup]
           /\ page' \in [Procs -> Page] /\ pc' \in [Procs -> PC]
<1> DEFINE ahead == {id \in stored : state.cursor < id /\ id <= state.upper}
           batch == IF p = Cli THEN CliBatch ELSE BatchSize
           rows  == First(ahead, IF page[p].rows < batch THEN page[p].rows ELSE batch)
<1>1. CASE ahead = {}
  <2>1. /\ state' = [state EXCEPT !.completed = TRUE] /\ Goto(p, "account")
        /\ lookups' = lookups /\ page' = page
    BY <1>1 DEF FetchPage
  <2> QED
    BY <2>1 DEF TypeOK, State, Goto, PC
<1>2. CASE ahead # {}
  <2>1. PICK c \in rows :
          /\ lookups' = [i \in Identities |->
                           IF i \in Unseen({r \in rows : r <= c}) /\ lookups[i].status = "absent"
                             THEN [status |-> "pending", cycle |-> 0] ELSE lookups[i]]
          /\ page' = [page EXCEPT
                       ![p] = [cycle |-> state.cycle, cursor |-> state.cursor,
                               upper |-> state.upper, checkpoint |-> c,
                               todo |-> Unseen({r \in rows : r <= c}) \ Malformed,
                               invalid |-> Unseen({r \in rows : r <= c}) \intersect Malformed,
                               rows |-> page[p].rows - Cardinality({r \in rows : r <= c}),
                               products |-> page[p].products
                                              - Cardinality(Unseen({r \in rows : r <= c}))]]
          /\ Goto(p, "http") /\ state' = state
    BY <1>2 DEF FetchPage
  <2>2. {r \in rows : r <= c} \in SUBSET SaleIds /\ c \in SaleIds
    BY DEF First, TypeOK
  <2>3. Unseen({r \in rows : r <= c}) \in SUBSET Identities
    BY <2>2 DEF Unseen, TypeOK
  <2>4. Cardinality({r \in rows : r <= c}) \in Nat
        /\ Cardinality(Unseen({r \in rows : r <= c})) \in Nat
    BY <2>2, <2>3, SaleSets, IdentitySets
  <2>5. c \in Nat
    BY <2>2, ConstantsAssumption DEF SaleIds
  <2> HIDE DEF rows
  <2>6. page' \in [Procs -> Page]
    BY <2>1, <2>3, <2>4, <2>5 DEF TypeOK, Page, State
  <2>7. lookups' \in [Identities -> Lookup]
    BY <2>1 DEF TypeOK, Lookup
  <2> QED
    BY <2>1, <2>6, <2>7 DEF TypeOK, Goto, PC
<1> QED
  BY <1>1, <1>2
(* The types hold initially.                                                 *)
LEMMA TypeInit == Init => TypeOK
  BY ConstantsAssumption
  DEF Init, TypeOK, Control, State, Lookup, PC, Run, Page, NoRun, NoPage, Statuses, Active,
      Modes, Kept, Outcomes, Faults, Procs, SaleIds, Identities

(* What a process is left with when it ends has the types of its locals.      *)
LEMMA Blank == NoRun \in Run /\ NoPage \in Page
  BY DEF NoRun, NoPage, Run, Page, Statuses, Active, Modes, Faults

(* A failed batch leaves its process on the error path, with typed locals.     *)
LEMMA FailType ==
    ASSUME TypeOK, NEW p \in Procs, NEW fault \in Faults, Fail(p, fault)
    PROVE  run' \in [Procs -> Run] /\ page' \in [Procs -> Page] /\ pc' \in [Procs -> PC]
<1>1. run' \in [Procs -> Run]
  BY DEF Fail, TypeOK, Run
<1> QED
  BY <1>1, Blank DEF Fail, Goto, PC, TypeOK

(* The steps of the surroundings keep the types.                             *)
LEMMA TypeSurroundings ==
    ASSUME TypeOK, Imports \/ Web \/ Faulty \/ CliStart \/ CliEnd
    PROVE  TypeOK'
<1> USE DEF dataVars, catVars, lockVars, localVars, histVars
<1>1. CASE Allocate
  BY <1>1, ConstantsAssumption DEF Allocate, TypeOK, SaleIds
<1>2. ASSUME NEW id \in SaleIds, Commit(id) \/ Rollback(id) \/ DeleteSale(id) PROVE TypeOK'
  BY <1>2 DEF Commit, Rollback, DeleteSale, TypeOK
<1>3. CASE Pause \/ Stale
  BY ZenonT(60), <1>3 DEF Pause, Stale, TypeOK, Control, Statuses, Active
<1>4. ASSUME NEW mode \in Modes, Start(mode) PROVE TypeOK'
  <2>1. control' \in Control
    BY <1>4 DEF Start, TypeOK, Control, Statuses, Active
  <2>2. commands' \in Nat
    BY <1>4 DEF Start, TypeOK
  <2> QED
    BY <1>4, <2>1, <2>2 DEF Start, TypeOK
<1>5. CASE LoseLock
  BY <1>5 DEF LoseLock, TypeOK
<1>6. ASSUME NEW p \in Procs, Signal(p) PROVE TypeOK'
  BY <1>6 DEF Signal, TypeOK
<1>7. ASSUME NEW p \in Procs, Gone(p), UNCHANGED <<dataVars, control, catVars, histVars>>
      PROVE TypeOK'
  BY <1>7, Blank DEF Gone, Free, Goto, PC, TypeOK
<1>8. CASE CliStart
  BY <1>8 DEF CliStart, Goto, TypeOK, PC, Procs
<1> QED
  BY <1>1, <1>2, <1>3, <1>4, <1>5, <1>6, <1>7, <1>8
  DEF Imports, Web, Faulty, CliEnd, Crash, Procs

(* The steps of the worker's outer loop keep the types.                      *)
LEMMA TypeServe ==
    ASSUME TypeOK, NEW w \in Workers,
           \/ Launch(w) \/ Boot(w) \/ Poll(w) \/ Idle(w) \/ Unstop(w) \/ Final(w)
           \/ Close(w) \/ Heartbeat(w) \/ DatabaseError(w)
    PROVE  TypeOK'
<1> USE DEF dataVars, catVars, lockVars, localVars, histVars, Goto, PC
<1>0. w \in Procs
  BY DEF Procs
<1>1. CASE Launch(w) \/ Poll(w) \/ Idle(w)
  BY <1>0, <1>1 DEF Launch, Poll, Idle, TypeOK
<1>2. CASE Boot(w) \/ Unstop(w) \/ Heartbeat(w)
  BY ZenonT(60), <1>0, <1>2 DEF Boot, Unstop, Heartbeat, TypeOK, Control, Statuses, Active
<1>3. CASE Final(w)
  <2>1. run' \in [Procs -> Run]
    <3>1. control.requested \in BOOLEAN /\ control.status \in Statuses
      BY DEF TypeOK, Control
    <3>2. run' = [run EXCEPT ![w].requested = control.requested, ![w].status = control.status]
      BY <1>3 DEF Final
    <3>3. run \in [Procs -> Run]
      BY DEF TypeOK
    <3> QED
      BY <1>0, <3>1, <3>2, <3>3 DEF Run
  <2> QED
    BY <1>0, <1>3, <2>1 DEF Final, TypeOK
<1>4. CASE Close(w)
  <2>1. control' \in Control
    BY <1>0, <1>4 DEF Close, Written, TypeOK, Control, Run, Statuses, Active
  <2> QED
    BY <1>0, <1>4, <2>1, Blank DEF Close, Gone, Free, TypeOK
<1>5. CASE DatabaseError(w)
  <2>1. CASE Fail(w, "permanent") /\ UNCHANGED <<shutdown, lockVars>>
    BY <1>0, <1>5, <2>1, FailType DEF DatabaseError, TypeOK, Faults
  <2>2. CASE Gone(w)
    BY <1>0, <1>5, <2>2, Blank DEF DatabaseError, Gone, Free, TypeOK
  <2>3. CASE Goto(w, "unwind") /\ page' = [page EXCEPT ![w] = NoPage]
             /\ UNCHANGED <<shutdown, run, lockVars>>
    BY <1>0, <1>5, <2>3, Blank DEF DatabaseError, TypeOK
  <2>4. CASE Goto(w, "final") /\ UNCHANGED <<localVars, lockVars>>
    BY <1>0, <1>5, <2>4 DEF DatabaseError, TypeOK
  <2> QED
    BY <1>5, <2>1, <2>2, <2>3, <2>4 DEF DatabaseError
<1> QED
  BY <1>1, <1>2, <1>3, <1>4, <1>5

(* The steps of a command outside its batches keep the types.                *)
LEMMA TypeRunRequest ==
    ASSUME TypeOK, NEW w \in Workers, RunRequest(w), ~Synchronize(w), ~RefreshBatch(w)
    PROVE  TypeOK'
<1> USE DEF dataVars, catVars, lockVars, localVars, histVars, Goto, PC
<1>0. w \in Procs
  BY DEF Procs
<1>1. CASE Acquire(w)
  <2>1. run' \in [Procs -> Run]
    BY SMTT(60), <1>0, <1>1 DEF Acquire, TypeOK, Run, Statuses
  <2> QED
    BY <1>0, <1>1, <2>1 DEF Acquire, TypeOK
<1>2. CASE ReadMode(w) \/ Release(w) \/ Unwind(w)
  <2>1. \A m \in Modes, s \in Statuses :
          [NoRun EXCEPT !.mode = m] \in Run /\ [NoRun EXCEPT !.verdict = s] \in Run
    BY Blank DEF Run
  <2>2. control.mode \in Modes /\ "failed" \in Statuses
    BY DEF TypeOK, Control, Statuses
  <2>3. run' \in [Procs -> Run]
    BY ZenonT(60), <1>0, <1>2, <2>1, <2>2, Blank DEF ReadMode, Release, Unwind, TypeOK
  <2> QED
    BY <1>0, <1>2, <2>3 DEF ReadMode, Release, Unwind, Free, TypeOK
<1>3. CASE PrepareDiscovery(w)
  <2>1. PICK upper \in stored \union {0} :
          \/ state' = state
          \/ state' = [state EXCEPT !.cursor = IF @ > state.upper THEN @ ELSE state.upper,
                                    !.upper = upper, !.completed = FALSE]
    BY <1>3 DEF PrepareDiscovery
  <2>2. upper \in Nat
    BY ConstantsAssumption DEF TypeOK, SaleIds
  <2>3. state' \in State
    BY <2>1, <2>2 DEF TypeOK, State
  <2>4. run' = run \/ run' = [run EXCEPT ![w].verdict = "completed"]
    BY <1>3 DEF PrepareDiscovery
  <2>5. run' \in [Procs -> Run]
    BY <1>0, <2>4 DEF TypeOK, Run, Statuses
  <2> QED
    BY <1>0, <1>3, <2>3, <2>5 DEF PrepareDiscovery, TypeOK
<1>4. CASE PrepareRefresh(w)
  <2>1. Known \subseteq Identities /\ \A u \in Known \union {0} : u \in Nat
    BY ConstantsAssumption DEF Known, Identities
  <2>2. \A u \in Nat : [control EXCEPT !.refreshCursor = 0, !.refreshUpper = u,
                                       !.refreshCompleted = FALSE] \in Control
    <3>1. control \in Control /\ 0 \in Nat
      BY DEF TypeOK
    <3> QED
      BY <3>1 DEF Control
  <2>3. control' \in Control
    <3>1. \/ control' = control
          \/ \E u \in Known \union {0} :
               control' = [control EXCEPT !.refreshCursor = 0, !.refreshUpper = u,
                                          !.refreshCompleted = FALSE]
      BY <1>4 DEF PrepareRefresh
    <3> QED
      BY ZenonT(60), <2>1, <2>2, <3>1 DEF TypeOK
  <2> QED
    BY <1>0, <1>4, <2>1, <2>3 DEF PrepareRefresh, TypeOK
<1>5. CASE Loop(w) \/ Account(w) \/ Error(w)
  <2>1. control.status \in Statuses /\ control.requested \in BOOLEAN
        /\ {"paused", "completed", "failed"} \subseteq Statuses /\ "none" \in Faults
    BY DEF TypeOK, Control, Statuses, Faults
  <2>2. ASSUME Loop(w) PROVE run' \in [Procs -> Run]
    BY SMTT(60), <1>0, <2>1, <2>2 DEF Loop, TypeOK, Run
  <2>3. ASSUME Account(w) PROVE run' \in [Procs -> Run]
    <3>1. \A v \in Statuses : [run EXCEPT ![w].failures = 0, ![w].fault = "none",
                                          ![w].verdict = v] \in [Procs -> Run]
      <4>1. run \in [Procs -> Run] /\ 0 \in Nat
        BY DEF TypeOK
      <4> QED
        BY <1>0, <2>1, <4>1 DEF Run
    <3> QED
      BY <2>1, <2>3, <3>1 DEF Account
  <2>4. ASSUME Error(w) PROVE run' \in [Procs -> Run]
    <3>1. run[w].failures + 1 \in Nat
      BY <1>0 DEF TypeOK, Run
    <3> QED
      <4>1. \A v \in Statuses :
              [run EXCEPT ![w].failures = run[w].failures + 1,
                          ![w].requested = control.requested, ![w].status = control.status,
                          ![w].verdict = v] \in [Procs -> Run]
        <5>1. run \in [Procs -> Run]
          BY DEF TypeOK
        <5> QED
          BY ZenonT(60), <1>0, <2>1, <3>1, <5>1 DEF Run
      <4> QED
        BY <2>1, <2>4, <4>1 DEF Error
  <2> QED
    BY <1>0, <1>5, <2>2, <2>3, <2>4, Blank DEF Loop, Account, Error, TypeOK
<1>6. CASE Guard(w)
  BY <1>0, <1>6, FailType DEF Guard, TypeOK, Faults
<1>7. CASE Mark(w) \/ Wait(w) \/ Finish(w)
  BY ZenonT(60), <1>0, <1>7 DEF Mark, Wait, Finish, Reported, Written, TypeOK, Control, Run, Statuses, Active
<1>8. CASE Report(w)
  <2>1. control' \in Control
    BY <1>0, <1>8 DEF Report, Reported, TypeOK, Control, Run
  <2> QED
    BY <1>0, <1>8, <2>1, Blank DEF Report, TypeOK
<1> QED
  BY <1>1, <1>2, <1>3, <1>4, <1>5, <1>6, <1>7, <1>8 DEF RunRequest

(* The steps of a batch keep the types.                                      *)
LEMMA TypeBatch ==
    ASSUME TypeOK, NEW p \in Procs, Synchronize(p) \/ (p \in Workers /\ RefreshBatch(p))
    PROVE  TypeOK'
<1> USE DEF dataVars, catVars, lockVars, localVars, histVars
<1>1. CASE Begin(p)
  <2>1. \A u \in stored \union {0} : u \in Nat
    BY ConstantsAssumption DEF TypeOK, SaleIds
  <2>2. state' \in State
    <3>1. CASE state' = state
      BY <3>1 DEF TypeOK
    <3>2. CASE \E u \in stored \union {0} :
                 state' = [cycle |-> state.cycle + 1, cursor |-> 0, upper |-> u,
                           completed |-> FALSE]
      BY <2>1, <3>2 DEF TypeOK, State
    <3> QED
      BY <1>1, <3>1, <3>2 DEF Begin
  <2>3. \A m, n \in Int : [NoPage EXCEPT !.rows = m, !.products = n] \in Page
    BY Blank DEF Page
  <2>4. page' \in [Procs -> Page]
    <3>1. {BatchSize, CliRows, CliProducts} \subseteq Int
      BY ConstantsAssumption
    <3>2. page' = [page EXCEPT ![p] = [NoPage EXCEPT
                     !.rows = IF p = Cli THEN CliRows ELSE BatchSize,
                     !.products = IF p = Cli THEN CliProducts ELSE BatchSize]]
      BY <1>1 DEF Begin
    <3> QED
      BY <2>3, <3>1, <3>2 DEF TypeOK
  <2> QED
    BY <1>1, <2>2, <2>4 DEF Begin, Goto, PC, TypeOK
<1>2. CASE ReadPage(p)
  <2>1. CASE FetchPage(p) /\ run' = run /\ UNCHANGED <<dataVars, control, revision, lockVars,
                                                      shutdown, histVars>>
    BY <2>1, FetchType DEF TypeOK
  <2>2. CASE (Fail(p, "permanent") \/ Fail(p, "memory")) /\ UNCHANGED <<state, lookups>>
    BY <1>2, <2>2, FailType DEF ReadPage, TypeOK, Faults
  <2>3. CASE Goto(p, "account") /\ UNCHANGED <<state, lookups, page, run>>
    BY <1>2, <2>3 DEF ReadPage, TypeOK, Goto, PC
  <2> QED
    BY <1>2, <2>1, <2>2, <2>3 DEF ReadPage
<1>3. ASSUME SaveResults(p) PROVE lookups' \in [Identities -> Lookup]
  <2>1. PICK result \in [page[p].todo -> Outcomes] :
          lookups' = [i \in Identities |->
            IF i \in page[p].todo THEN [status |-> result[i], cycle |-> page[p].cycle]
            ELSE IF i \in page[p].invalid
              THEN [status |-> "invalid",
                    cycle |-> IF pc[p] = "save" THEN page[p].cycle ELSE lookups[i].cycle]
            ELSE lookups[i]]
    BY <1>3 DEF SaveResults
  <2>2. page[p].cycle \in Nat
    BY DEF TypeOK, Page
  <2>3. \A i \in Identities : lookups[i] \in Lookup
    BY DEF TypeOK
  <2>4. ASSUME NEW i \in Identities PROVE lookups'[i] \in Lookup
    <3>1. CASE i \in page[p].todo
      <4>1. lookups'[i] = [status |-> result[i], cycle |-> page[p].cycle]
        BY <2>1, <3>1
      <4>2. result[i] \in Kept
        BY <3>1 DEF Kept
      <4> QED
        BY <2>2, <4>1, <4>2 DEF Lookup
    <3>2. CASE i \notin page[p].todo /\ i \in page[p].invalid
      BY <2>1, <2>2, <2>3, <3>2 DEF Lookup, Kept
    <3>3. CASE i \notin page[p].todo /\ i \notin page[p].invalid
      BY <2>1, <2>3, <3>3
    <3> QED
      BY <3>1, <3>2, <3>3
  <2> QED
    BY <2>1, <2>4
<1>4. CASE Save(p)
  <2>1. revision' \in Nat
    BY <1>4 DEF Save, Bumped, TypeOK
  <2>2. page[p] \in Page /\ state \in State
    BY DEF TypeOK
  <2>3. state' \in State
    BY <1>4, <2>2 DEF Save, Written, State, Page
  <2>4. page' \in [Procs -> Page] /\ pc' \in [Procs -> PC]
    BY <1>4 DEF Save, Goto, PC, TypeOK, Page, NoPage
  <2> QED
    BY <1>3, <1>4, <2>1, <2>3, <2>4 DEF Save, TypeOK
<1>5. ASSUME NEW l \in PC, Request(p, l) \/ Verify(p, l) PROVE TypeOK'
  <2>1. CASE Goto(p, l) /\ UNCHANGED <<run, page>>
    BY <1>5, <2>1 DEF Request, Verify, Goto, TypeOK
  <2>2. CASE \E fault \in {"temporary", "permanent"} : Fail(p, fault)
    BY <1>5, <2>2, FailType DEF Request, Verify, TypeOK, Faults
  <2> QED
    BY <1>5, <2>1, <2>2 DEF Request, Verify
<1>6. CASE ReadLookups(p)
  <2>1. Known \subseteq Identities
    BY DEF Known
  <2>2. CASE control' = [control EXCEPT !.refreshCompleted = TRUE] /\ Goto(p, "account")
             /\ page' = page
    <3>1. control' \in Control
      BY <2>2 DEF TypeOK, Control
    <3> QED
      BY <1>6, <2>2, <3>1 DEF ReadLookups, TypeOK, Goto, PC
  <2>3. CASE control' = control
    <3> DEFINE ahead == {i \in Known : control.refreshCursor < i /\ i <= control.refreshUpper}
               asked == {i \in First(ahead, BatchSize) : lookups[i].status # "invalid"}
    <3>0. CASE ahead = {}
      <4>1. control' = [control EXCEPT !.refreshCompleted = TRUE] /\ Goto(p, "account")
            /\ page' = page
        BY <1>6, <3>0 DEF ReadLookups
      <4> QED
        BY <2>2, <4>1
    <3> SUFFICES ASSUME ahead # {} PROVE TypeOK'
      BY <3>0
    <3>1. PICK last \in First(ahead, BatchSize) :
            /\ page' = [page EXCEPT ![p] = [NoPage EXCEPT
                          !.cycle = state.cycle, !.cursor = control.refreshCursor,
                          !.upper = control.refreshUpper, !.checkpoint = last,
                          !.todo = asked \ Malformed, !.invalid = asked \intersect Malformed]]
            /\ Goto(p, "refreshHttp")
      BY <1>6 DEF ReadLookups
    <3>2. last \in Nat /\ asked \subseteq Identities
      <4>1. last \in Identities /\ asked \subseteq Identities
        BY <2>1 DEF First
      <4> QED
        BY <4>1, ConstantsAssumption DEF Identities
    <3>3. state.cycle \in Nat /\ control.refreshCursor \in Nat /\ control.refreshUpper \in Nat
      BY ConstantsAssumption DEF TypeOK, State, Control
    <3> HIDE DEF asked
    <3>4. page' \in [Procs -> Page]
      <4>1. asked \ Malformed \subseteq Identities /\ asked \intersect Malformed \subseteq Identities
        BY <3>2
      <4>2. [NoPage EXCEPT !.cycle = state.cycle, !.cursor = control.refreshCursor,
                           !.upper = control.refreshUpper, !.checkpoint = last,
                           !.todo = asked \ Malformed,
                           !.invalid = asked \intersect Malformed] \in Page
        BY <3>2, <3>3, <4>1, Blank DEF Page
      <4> QED
        BY <3>1, <4>2 DEF TypeOK
    <3> QED
      BY <1>6, <2>3, <3>1, <3>4 DEF ReadLookups, TypeOK, Goto, PC
  <2> QED
    BY <1>6, <2>2, <2>3 DEF ReadLookups
<1>7. CASE SaveRefresh(p)
  <2>1. revision' \in Nat
    BY <1>7 DEF SaveRefresh, Bumped, TypeOK
  <2>2. control' \in Control
    <3>1. page[p].checkpoint \in Nat /\ page[p].upper \in Nat
      BY DEF TypeOK, Page
    <3>2. \A c \in Nat, b \in BOOLEAN :
            [control EXCEPT !.refreshCursor = c, !.refreshCompleted = b] \in Control
      BY DEF TypeOK, Control
    <3>3. control.refreshCompleted \in BOOLEAN
      BY DEF TypeOK, Control
    <3>4. Written(control.refreshCompleted, FALSE, page[p].checkpoint >= page[p].upper)
            \in BOOLEAN
      <4>1. CASE page[p].checkpoint >= page[p].upper
        BY <3>3, <4>1 DEF Written
      <4>2. CASE ~(page[p].checkpoint >= page[p].upper)
        BY <3>3, <4>2 DEF Written
      <4> QED
        BY <4>1, <4>2
    <3> QED
      BY <1>7, <3>1, <3>2, <3>4 DEF SaveRefresh
  <2> QED
    BY <1>3, <1>7, <2>1, <2>2 DEF SaveRefresh, Goto, PC, TypeOK, Page
<1> QED
  BY <1>1, <1>2, <1>4, <1>5, <1>6, <1>7 DEF Synchronize, RefreshBatch, PC

(* Every variable keeps its type, whatever the values of the constants.      *)
THEOREM TypeInvariant == Spec => []TypeOK
<1>1. TypeOK /\ [Next]_vars => TypeOK'
  <2> SUFFICES ASSUME TypeOK, [Next]_vars PROVE TypeOK'
    OBVIOUS
  <2>1. CASE UNCHANGED vars
    BY <2>1 DEF vars, dataVars, catVars, lockVars, localVars, histVars, TypeOK
  <2>2. CASE Next
    BY <2>2, TypeSurroundings, TypeServe, TypeRunRequest, TypeBatch
    DEF Next, Serve, CliRun, RunRequest, Procs
  <2> QED
    BY <2>1, <2>2
<1> QED
  BY <1>1, TypeInit, PTL DEF Spec

-----------------------------------------------------------------------------
(* The run lock *)

(* While no live session loses its lock, whoever is between its acquisition   *)
(* and its release holds it, whatever crashes, errors and signals happen.     *)
LEMMA LockKept ==
    ASSUME MaxLosses = 0, TypeOK, OneWriter, Next
    PROVE  OneWriter'
<1> USE DEF dataVars, catVars, lockVars, localVars, histVars, Goto, OneWriter, Holding, Inside,
            Batch
<1>0. pc \in [Procs -> PC] /\ Cli \in Procs /\ Cli \notin Workers /\ Workers \subseteq Procs
      /\ Nobody \notin Procs
  BY ConstantsAssumption DEF TypeOK, Procs
<1>1. CASE Imports \/ Web
  BY <1>1 DEF Imports, Allocate, Commit, Rollback, DeleteSale, Web, Pause, Stale, Start
<1>2. CASE LoseLock
  BY <1>2 DEF LoseLock, TypeOK
<1>3. ASSUME NEW p \in Procs, Signal(p) PROVE OneWriter'
  BY <1>3 DEF Signal
<1>4. ASSUME NEW p \in Procs, Gone(p) PROVE OneWriter'
  BY <1>0, <1>4 DEF Gone, Free
<1>5. CASE CliStart
  BY <1>0, <1>5 DEF CliStart
<1>6. ASSUME NEW p \in Procs, pc[p] \in Batch, NEW l \in PC, Goto(p, l), syncLock' = syncLock
      PROVE  OneWriter'
  BY <1>0, <1>6
<1>7. ASSUME NEW p \in Procs, Synchronize(p) PROVE OneWriter'
  BY <1>0, <1>6, <1>7
  DEF Synchronize, Begin, ReadPage, FetchPage, Save, Request, Verify, Fail, PC
<1>8. ASSUME NEW w \in Workers, RefreshBatch(w) PROVE OneWriter'
  BY <1>0, <1>6, <1>8 DEF RefreshBatch, ReadLookups, SaveRefresh, Request, Verify, Fail, PC
<1>9. ASSUME NEW w \in Workers, RunRequest(w), ~Synchronize(w), ~RefreshBatch(w)
      PROVE  OneWriter'
  <2>1. CASE Acquire(w)
    BY <1>0, <2>1 DEF Acquire
  <2>2. CASE Release(w) \/ Unwind(w)
    BY <1>0, <2>2 DEF Release, Unwind, Free
  <2>3. CASE PrepareDiscovery(w) \/ PrepareRefresh(w)
    BY ZenonT(60), <1>0, <2>3 DEF PrepareDiscovery, PrepareRefresh
  <2>4. CASE ReadMode(w) \/ Loop(w) \/ Mark(w) \/ Guard(w)
    BY <1>0, <2>4 DEF ReadMode, Loop, Mark, Guard, Fail
  <2>5. CASE Account(w) \/ Error(w) \/ Wait(w) \/ Finish(w) \/ Report(w)
    BY <1>0, <2>5 DEF Account, Error, Wait, Finish, Report
  <2> QED
    BY <1>9, <2>1, <2>2, <2>3, <2>4, <2>5 DEF RunRequest
<1>10. ASSUME NEW w \in Workers,
              \/ Launch(w) \/ Boot(w) \/ Poll(w) \/ Idle(w) \/ Unstop(w) \/ Final(w) \/ Close(w)
              \/ Heartbeat(w)
       PROVE  OneWriter'
  BY <1>0, <1>4, <1>10 DEF Launch, Boot, Poll, Idle, Unstop, Final, Close, Heartbeat
<1>11. ASSUME NEW w \in Workers, DatabaseError(w) PROVE OneWriter'
  BY <1>0, <1>4, <1>11 DEF DatabaseError, Fail
<1> QED
  BY <1>0, <1>1, <1>2, <1>3, <1>4, <1>5, <1>7, <1>8, <1>9, <1>10, <1>11
  DEF Next, Serve, CliRun, CliEnd, Faulty, Crash

-----------------------------------------------------------------------------
(* Coverage: steps that leave sales, checkpoint and lookups alone *)

(* What such a step may do to the process that takes it.                     *)
Harmless(p) ==
    \/ pc'[p] \notin Paging \union Reasked
    \/ pc'[p] = pc[p] /\ page'[p] = page[p]
    \/ pc[p] \in Asked /\ pc'[p] \in Asked /\ page'[p] = page[p]
    \/ pc[p] \in Reasked /\ pc'[p] \in Reasked /\ page'[p] = page[p]
    \/ pc'[p] \in Reasked /\ page'[p].cycle = state.cycle

(* A step that leaves the sales, the cycle, the checks and the pages alone     *)
(* keeps the invariant.                                                        *)
LEMMA HarmlessStep ==
    ASSUME SnapshotsHold, OneWriter', UNCHANGED <<pair, stored, late, state, lookups>>,
           \A p \in Procs : Harmless(p)
    PROVE  SnapshotsHold'
<1>1. Cycles' /\ Covered'
  BY DEF SnapshotsHold, Cycles, Covered, Settled
<1>2. ASSUME NEW p \in Procs PROVE PageIsCurrent(p)'
  <2>1. PageIsCurrent(p) /\ Harmless(p)
    BY DEF SnapshotsHold
  <2> QED
    BY <2>1 DEF PageIsCurrent, Harmless, Settled, Asked, Paging, Reasked
<1> QED
  BY <1>1, <1>2 DEF SnapshotsHold

(* The worker's outer loop, a command's steps between its batches and a failed *)
(* statement are harmless: they write no more than the control row.           *)
LEMMA HarmlessServe ==
    ASSUME TypeOK, NEW w \in Workers, pc' \in [Procs -> PC],
           \/ Launch(w) \/ Boot(w) \/ Poll(w) \/ Idle(w) \/ Unstop(w) \/ Final(w)
           \/ Close(w) \/ Heartbeat(w) \/ DatabaseError(w) \/ Acquire(w) \/ ReadMode(w)
           \/ PrepareRefresh(w) \/ Loop(w) \/ Mark(w) \/ Guard(w) \/ Account(w)
           \/ Error(w) \/ Wait(w) \/ Finish(w) \/ Release(w) \/ Unwind(w) \/ Report(w)
    PROVE  (\A p \in Procs : Harmless(p))
           /\ UNCHANGED <<pair, stored, late, state, lookups>>
<1> USE DEF dataVars, catVars, lockVars, localVars, histVars, Goto, Harmless, Asked, Paging, Reasked
<1>0. pc \in [Procs -> PC] /\ page \in [Procs -> Page] /\ w \in Procs
  BY DEF TypeOK, Procs
<1>1. CASE Launch(w) \/ Boot(w) \/ Poll(w) \/ Idle(w) \/ Unstop(w) \/ Final(w) \/ Heartbeat(w)
  BY <1>0, <1>1 DEF Launch, Boot, Poll, Idle, Unstop, Final, Heartbeat
<1>2. CASE Close(w) \/ DatabaseError(w)
  BY <1>0, <1>2 DEF Close, DatabaseError, Gone, Fail
<1>3. CASE Acquire(w) \/ ReadMode(w) \/ PrepareRefresh(w) \/ Loop(w) \/ Mark(w)
  BY <1>0, <1>3 DEF Acquire, ReadMode, PrepareRefresh, Loop, Mark
<1>4. CASE Guard(w)
  BY <1>0, <1>4 DEF Guard, Fail
<1>5. CASE Account(w) \/ Error(w) \/ Wait(w) \/ Finish(w)
  BY <1>0, <1>5 DEF Account, Error, Wait, Finish
<1>6. CASE Release(w) \/ Unwind(w) \/ Report(w)
  BY <1>0, <1>6 DEF Release, Unwind, Report
<1> QED
  BY <1>1, <1>2, <1>3, <1>4, <1>5, <1>6

(* Web commands, signals, crashes and the ends of the CLI are harmless.       *)
LEMMA HarmlessSurroundings ==
    ASSUME TypeOK, Web \/ Faulty \/ CliStart \/ CliEnd
    PROVE  (\A p \in Procs : Harmless(p))
           /\ UNCHANGED <<pair, stored, late, state, lookups>>
<1> USE DEF dataVars, catVars, lockVars, localVars, histVars, Goto, Harmless, Asked, Paging, Reasked
<1>0. pc \in [Procs -> PC] /\ page \in [Procs -> Page] /\ Cli \in Procs /\ losses \in Nat
  BY DEF TypeOK, Procs
<1>1. CASE Web
  BY <1>1 DEF Web, Pause, Stale, Start
<1>2. CASE LoseLock
  BY <1>0, <1>2 DEF LoseLock
<1>3. CASE \E p \in Procs : Signal(p)
  BY <1>3 DEF Signal
<1>4. CASE CliEnd \/ \E p \in Procs : Crash(p)
  BY <1>0, <1>4 DEF CliEnd, Crash, Gone
<1>5. CASE CliStart
  BY <1>0, <1>5 DEF CliStart
<1> QED
  BY <1>1, <1>2, <1>3, <1>4, <1>5 DEF Faulty

(* A lookup request and the check of the lock after it are harmless.         *)
LEMMA HarmlessBatch ==
    ASSUME TypeOK, NEW p \in Procs,
           \/ \E l \in {"verify", "save"} : pc[p] \in Asked /\ (Request(p, l) \/ Verify(p, l))
           \/ \E l \in {"refreshVerify", "refreshSave"} :
                 pc[p] \in Reasked /\ (Request(p, l) \/ Verify(p, l))
           \/ ReadPage(p) /\ ~FetchPage(p)
           \/ ReadLookups(p)
    PROVE  (\A q \in Procs : Harmless(q))
           /\ UNCHANGED <<pair, stored, late, state, lookups>>
<1> USE DEF dataVars, catVars, lockVars, localVars, histVars, Goto, Harmless, Asked, Paging, Reasked
<1>0. pc \in [Procs -> PC] /\ page \in [Procs -> Page] /\ NoPage \in Page
  BY Blank DEF TypeOK
<1>1. CASE \E l \in {"verify", "save"} : pc[p] \in Asked /\ (Request(p, l) \/ Verify(p, l))
  BY <1>0, <1>1 DEF Request, Verify, Fail
<1>2. CASE \E l \in {"refreshVerify", "refreshSave"} :
             pc[p] \in Reasked /\ (Request(p, l) \/ Verify(p, l))
  BY <1>0, <1>2 DEF Request, Verify, Fail
<1>3. CASE ReadPage(p) /\ ~FetchPage(p)
  BY <1>0, <1>3 DEF ReadPage, Fail
<1>4. CASE ReadLookups(p)
  <2>1. /\ UNCHANGED <<pair, stored, late, state, lookups>>
        /\ \A q \in Procs : q # p => pc'[q] = pc[q] /\ page'[q] = page[q]
        /\ pc'[p] = "account" \/ (pc'[p] = "refreshHttp" /\ page'[p].cycle = state.cycle)
    <3>1. CASE page' = page /\ pc' = [pc EXCEPT ![p] = "account"]
      BY <1>0, <1>4, <3>1 DEF ReadLookups
    <3>2. CASE pc' = [pc EXCEPT ![p] = "refreshHttp"]
      <4> DEFINE ahead == {i \in Known : control.refreshCursor < i /\ i <= control.refreshUpper}
                 rows  == First(ahead, BatchSize)
                 asked == {i \in rows : lookups[i].status # "invalid"}
      <4>1. PICK last \in rows :
              page' = [page EXCEPT
                        ![p] = [NoPage EXCEPT
                                 !.cycle = state.cycle, !.cursor = control.refreshCursor,
                                 !.upper = control.refreshUpper, !.checkpoint = last,
                                 !.todo = asked \ Malformed,
                                 !.invalid = asked \intersect Malformed]]
        <5>1. ahead # {}
          BY <1>0, <1>4, <3>2 DEF ReadLookups
        <5> QED
          BY <1>4, <5>1 DEF ReadLookups
      <4>2. page'[p].cycle = state.cycle
        BY <1>0, <4>1 DEF NoPage
      <4> QED
        BY ZenonT(60), <1>0, <1>4, <3>2, <4>1, <4>2 DEF ReadLookups
    <3> QED
      BY <1>4, <3>1, <3>2 DEF ReadLookups
  <2> QED
    BY <2>1
<1> QED
  BY <1>1, <1>2, <1>3, <1>4

-----------------------------------------------------------------------------
(* Coverage: the steps that write *)

(* A sale that commits behind the checkpoint is late; any other is still ahead. *)
LEMMA SnapshotsImports ==
    ASSUME TypeOK, SnapshotsHold, OneWriter', Imports
    PROVE  SnapshotsHold'
<1> USE DEF dataVars, catVars, lockVars, localVars, histVars
<1>0. /\ UNCHANGED <<pair, state, lookups, pc, page>> /\ late \subseteq late'
      /\ \A id \in stored' : id \in stored \/ id \in late' \/ ~Passed(id)
      /\ \A id \in late' : id \in late \/ (Passed(id) /\ id \in SaleIds)
  BY DEF Imports, Allocate, Commit, Rollback, DeleteSale
<1>1. state.upper \in Nat /\ state.cursor \in Nat /\ state.cursor <= state.upper
      /\ SaleIds \subseteq Nat
  BY ConstantsAssumption DEF SnapshotsHold, Cycles, TypeOK, State, SaleIds
<1>2. ASSUME NEW id \in SaleIds, Passed(id) PROVE id <= state.upper
  <2>1. ASSUME NEW p \in Procs, pc[p] \in Asked, id <= page[p].checkpoint
        PROVE  id <= state.upper
    <3>1. page[p].checkpoint \in Nat /\ page[p].checkpoint <= state.upper
      BY <2>1 DEF SnapshotsHold, PageIsCurrent, TypeOK, Page
    <3> QED
      BY <1>1, <2>1, <3>1
  <2> QED
    BY <1>1, <1>2, <2>1 DEF Passed
<1>3. Cycles'
  BY <1>0, <1>2 DEF SnapshotsHold, Cycles
<1>4. Covered'
  BY <1>0 DEF SnapshotsHold, Covered, Settled, Passed
<1>5. ASSUME NEW p \in Procs PROVE PageIsCurrent(p)'
  <2>1. PageIsCurrent(p)
    BY DEF SnapshotsHold
  <2>2. ASSUME NEW id \in stored' \ late', pc[p] \in Asked, id <= page[p].checkpoint
        PROVE  Settled(pair[id]) \/ pair[id] \in page[p].todo \union page[p].invalid
    <3>1. id \in stored \ late
      BY <1>0, <2>2 DEF Passed
    <3> QED
      BY <2>1, <2>2, <3>1 DEF PageIsCurrent
  <2> QED
    BY <1>0, <2>1, <2>2 DEF PageIsCurrent, Settled
<1> QED
  BY <1>3, <1>4, <1>5 DEF SnapshotsHold

(* Nobody else is inside a batch while a process with the run lock is.       *)
LEMMA Alone ==
    ASSUME OneWriter, NEW p \in Procs, pc[p] \in Holding, NEW q \in Procs, q # p
    PROVE  pc[q] \notin Paging \union Reasked
  BY DEF OneWriter, Holding, Inside, Batch, Paging, Asked, Reasked

(* The tail of a finished cycle starts at its boundary.                      *)
LEMMA SnapshotsPrepare ==
    ASSUME TypeOK, SnapshotsHold, OneWriter', NEW w \in Workers, PrepareDiscovery(w)
    PROVE  SnapshotsHold'
<1> USE DEF dataVars, catVars, lockVars, localVars, histVars, Goto
<1>0. w \in Procs /\ pc \in [Procs -> PC] /\ pc[w] = "prepare" /\ pc[w] \in Holding
      /\ UNCHANGED <<pair, stored, late, lookups, page>>
      /\ pc'[w] \notin Paging \union Reasked /\ \A q \in Procs : q # w => pc'[q] = pc[q]
  BY DEF PrepareDiscovery, TypeOK, Procs, Holding, Inside, Paging, Asked, Reasked
<1>1. PICK u \in stored \union {0} :
        /\ IsMax(u, stored)
        /\ \/ state' = state
           \/ /\ state.completed /\ state.cycle # 0 /\ u > state.upper
              /\ state' = [state EXCEPT !.cursor = IF @ > state.upper THEN @ ELSE state.upper,
                                        !.upper = u, !.completed = FALSE]
  BY DEF PrepareDiscovery
<1>2. ASSUME NEW q \in Procs PROVE pc'[q] \notin Paging \union Reasked
  BY <1>0, Alone DEF SnapshotsHold
<1>3. \A q \in Procs : PageIsCurrent(q)'
  BY <1>2 DEF PageIsCurrent, Paging
<1>4. CASE state' = state
  BY <1>0, <1>3, <1>4 DEF SnapshotsHold, Cycles, Covered, Settled
<1>5. CASE state' # state
  <2>1. u \in Nat /\ late \subseteq Nat
    BY ConstantsAssumption DEF TypeOK, SaleIds
  <2>2. /\ state'.cycle = state.cycle /\ state'.cursor = state.upper /\ state'.upper = u
        /\ ~state'.completed /\ state.completed /\ state.cycle >= 1
        /\ state.upper \in Nat /\ u > state.upper
    <3>1. state \in State /\ state.cursor <= state.upper
      BY DEF SnapshotsHold, Cycles, TypeOK
    <3>2. /\ state.completed /\ state.cycle # 0 /\ u > state.upper
          /\ state' = [state EXCEPT !.cursor = IF @ > state.upper THEN @ ELSE state.upper,
                                    !.upper = u, !.completed = FALSE]
      BY <1>1, <1>5
    <3>3. state.cycle \in Nat /\ state.cursor \in Nat /\ state.upper \in Nat
          /\ state = [cycle |-> state.cycle, cursor |-> state.cursor, upper |-> state.upper,
                      completed |-> state.completed]
      BY <3>1 DEF State
    <3>4. state' = [cycle |-> state.cycle,
                    cursor |-> IF state.cursor > state.upper THEN state.cursor ELSE state.upper,
                    upper |-> u, completed |-> FALSE]
      BY <3>2, <3>3
    <3> QED
      BY <3>1, <3>2, <3>3, <3>4
  <2>3. Cycles'
    BY <1>0, <2>1, <2>2 DEF SnapshotsHold, Cycles
  <2>4. Covered'
    BY <1>0, <2>2 DEF SnapshotsHold, Covered, Settled
  <2> QED
    BY <1>3, <2>3, <2>4 DEF SnapshotsHold
<1> QED
  BY <1>4, <1>5

(* A new cycle starts from nothing.                                          *)
LEMMA SnapshotsBegin ==
    ASSUME TypeOK, SnapshotsHold, OneWriter', NEW p \in Procs, Begin(p)
    PROVE  SnapshotsHold'
<1> USE DEF dataVars, catVars, lockVars, localVars, histVars, Goto
<1>0. pc \in [Procs -> PC] /\ pc[p] = "begin" /\ pc[p] \in Holding /\ pc'[p] = "page"
      /\ UNCHANGED <<pair, stored, lookups>>
      /\ \A q \in Procs : q # p => pc'[q] = pc[q]
  BY DEF Begin, TypeOK, Holding, Inside, Batch
<1>1. ~state'.completed
      /\ \/ state' = state /\ late' = late
         \/ \E u \in stored \union {0} :
              /\ state' = [cycle |-> state.cycle + 1, cursor |-> 0, upper |-> u,
                           completed |-> FALSE]
              /\ late' = {}
  BY DEF Begin
<1>2. \A q \in Procs : PageIsCurrent(q)'
  <2>1. ASSUME NEW q \in Procs, q # p PROVE pc'[q] \notin Paging \union Reasked
    BY <1>0, <2>1, Alone DEF SnapshotsHold
  <2> QED
    BY <1>0, <1>1, <2>1 DEF PageIsCurrent, Paging, Asked, Reasked
<1>3. CASE state' = state /\ late' = late
  BY <1>0, <1>2, <1>3 DEF SnapshotsHold, Cycles, Covered, Settled
<1>4. CASE ~(state' = state /\ late' = late)
  <2>1. PICK u \in stored \union {0} :
          /\ state' = [cycle |-> state.cycle + 1, cursor |-> 0, upper |-> u, completed |-> FALSE]
          /\ late' = {}
    BY <1>1, <1>4
  <2>2. u \in Nat
    BY ConstantsAssumption DEF TypeOK, SaleIds
  <2>3. state.cycle \in Nat /\ \A id \in stored : id \in Nat /\ id > 0
    BY ConstantsAssumption DEF TypeOK, State, SaleIds
  <2>4. Cycles' /\ Covered'
    BY <1>0, <2>1, <2>2, <2>3 DEF SnapshotsHold, Cycles, Covered
  <2> QED
    BY <1>2, <2>4 DEF SnapshotsHold
<1> QED
  BY <1>3, <1>4

(* A page accounts for every committed row up to its checkpoint.             *)
LEMMA SnapshotsFetch ==
    ASSUME TypeOK, SnapshotsHold, OneWriter', NEW p \in Procs, ReadPage(p), FetchPage(p)
    PROVE  SnapshotsHold'
<1> USE DEF dataVars, catVars, lockVars, localVars, histVars, Goto
<1> DEFINE ahead == {id \in stored : state.cursor < id /\ id <= state.upper}
           batch == IF p = Cli THEN CliBatch ELSE BatchSize
           limit == IF page[p].rows < batch THEN page[p].rows ELSE batch
           rows  == First(ahead, limit)
<1>0. pc \in [Procs -> PC] /\ page \in [Procs -> Page] /\ pc[p] = "page" /\ pc[p] \in Holding
      /\ ~state.completed /\ state.cycle >= 1 /\ state.cycle \in Nat
      /\ state.cursor \in Nat /\ state.upper \in Nat /\ state.cursor <= state.upper
      /\ UNCHANGED <<pair, stored, late>>
  BY DEF ReadPage, TypeOK, Holding, Inside, Batch, SnapshotsHold, PageIsCurrent, Paging, Cycles,
         State
<1>1. stored \subseteq Int /\ stored \subseteq SaleIds
  BY ConstantsAssumption DEF TypeOK, SaleIds
<1>2. \A q \in Procs : q # p => PageIsCurrent(q)'
  <2>1. ASSUME NEW q \in Procs, q # p PROVE pc'[q] \notin Paging \union Reasked
    BY <1>0, <2>1, Alone DEF SnapshotsHold, FetchPage
  <2> QED
    BY <2>1 DEF PageIsCurrent, Paging, Asked, Reasked
<1>3. CASE ahead = {}
  <2>1. /\ state' = [state EXCEPT !.completed = TRUE] /\ lookups' = lookups
        /\ pc' = [pc EXCEPT ![p] = "account"]
    BY <1>3 DEF FetchPage
  <2>2. /\ state'.cycle = state.cycle /\ state'.cursor = state.cursor
        /\ state'.upper = state.upper /\ state'.completed
    BY <2>1 DEF TypeOK, State
  <2>3. Cycles'
    BY <1>0, <2>1, <2>2 DEF SnapshotsHold, Cycles
  <2>4. \A id \in stored : id <= state.upper => id <= state.cursor
    BY <1>0, <1>1, <1>3
  <2>5. Covered'
    BY <1>0, <2>1, <2>2, <2>4 DEF SnapshotsHold, Covered, Settled
  <2>6. PageIsCurrent(p)'
    BY <1>0, <2>1 DEF PageIsCurrent, Paging, Asked, Reasked
  <2> QED
    BY <1>2, <2>3, <2>5, <2>6 DEF SnapshotsHold
<1>4. CASE ahead # {}
  <2>1. PICK c \in rows :
          /\ lookups' = [i \in Identities |->
                           IF i \in Unseen({r \in rows : r <= c}) /\ lookups[i].status = "absent"
                             THEN [status |-> "pending", cycle |-> 0] ELSE lookups[i]]
          /\ page' = [page EXCEPT
                       ![p] = [cycle |-> state.cycle, cursor |-> state.cursor,
                               upper |-> state.upper, checkpoint |-> c,
                               todo |-> Unseen({r \in rows : r <= c}) \ Malformed,
                               invalid |-> Unseen({r \in rows : r <= c}) \intersect Malformed,
                               rows |-> page[p].rows - Cardinality({r \in rows : r <= c}),
                               products |-> page[p].products
                                              - Cardinality(Unseen({r \in rows : r <= c}))]]
          /\ pc' = [pc EXCEPT ![p] = "http"] /\ state' = state
    BY <1>4 DEF FetchPage
  <2> DEFINE asked == Unseen({r \in rows : r <= c})
  <2>2. limit \in Int
    BY <1>0, ConstantsAssumption DEF Page
  <2>3. c \in ahead /\ c \in Int /\ state.cursor < c /\ c <= state.upper
    BY <1>1 DEF First
  <2>4. ASSUME NEW id \in stored, state.cursor < id, id <= c PROVE id \in rows
    <3>0. id \in Int /\ id <= state.upper
      BY <1>0, <1>1, <2>3, <2>4
    <3>1. id \in ahead /\ ahead \in SUBSET Nat /\ IsFiniteSet(ahead)
      <4>1. id \in ahead /\ ahead \in SUBSET SaleIds
        BY <1>1, <2>4, <3>0
      <4> QED
        BY <4>1, SaleSets, ConstantsAssumption DEF SaleIds
    <3> QED
      BY <2>2, <2>4, <3>1, FirstIsPrefix
  <2>5. ASSUME NEW i \in Identities, Settled(i) PROVE Settled(i)'
    BY <2>1, <2>5 DEF Settled, Kept, Outcomes
  <2>6. ASSUME NEW id \in stored \ late, id <= c PROVE Settled(pair[id]) \/ pair[id] \in asked
    <3>1. CASE id <= state.cursor
      BY <3>1 DEF SnapshotsHold, Covered
    <3>2. CASE ~(id <= state.cursor)
      <4>1. id \in {r \in rows : r <= c}
        BY <1>0, <1>1, <2>4, <2>6, <3>2
      <4>2. pair[id] \in Identities
        BY <1>1 DEF TypeOK
      <4>3. \/ pair[id] \in asked
            \/ lookups[pair[id]].cycle = state.cycle /\ lookups[pair[id]].status # "absent"
        BY <4>1, <4>2 DEF Unseen
      <4>4. ASSUME lookups[pair[id]].cycle = state.cycle, lookups[pair[id]].status # "absent"
            PROVE  Settled(pair[id])
        <5>1. lookups[pair[id]].status # "pending"
          BY <1>0, <4>2, <4>4 DEF SnapshotsHold, Cycles
        <5>2. lookups[pair[id]].status \in Kept \union {"absent", "pending"}
          BY <4>2 DEF TypeOK, Lookup
        <5> QED
          BY <4>4, <5>1, <5>2 DEF Settled
      <4> QED
        BY <4>3, <4>4
    <3> QED
      BY <3>1, <3>2
  <2>7. /\ page'[p].cycle = state.cycle /\ page'[p].cursor = state.cursor
        /\ page'[p].upper = state.upper /\ page'[p].checkpoint = c
        /\ page'[p].todo \union page'[p].invalid = asked /\ pc'[p] = "http"
    BY <1>0, <2>1
  <2> HIDE DEF asked, rows, ahead
  <2>8. \A id \in stored : pair[id] \in Identities
    BY <1>1 DEF TypeOK
  <2>9. PageIsCurrent(p)'
    BY <1>0, <2>1, <2>3, <2>5, <2>6, <2>7, <2>8 DEF PageIsCurrent, Paging, Asked, Reasked
  <2>10. Cycles'
    BY <1>0, <2>1 DEF SnapshotsHold, Cycles
  <2>11. Covered'
    BY <1>0, <2>1, <2>5, <2>8 DEF SnapshotsHold, Covered
  <2> QED
    BY <1>2, <2>9, <2>10, <2>11 DEF SnapshotsHold
<1> QED
  BY <1>3, <1>4

(* The checkpoint and the checks of a page are saved together.               *)
LEMMA SavedChecks ==
    ASSUME TypeOK, NEW p \in Procs, SaveResults(p), page[p].cycle = state.cycle,
           pc[p] \in {"save", "refreshSave"}, state'.cycle = state.cycle
    PROVE  /\ \A i \in Identities : Settled(i) => Settled(i)'
           /\ pc[p] = "save" =>
                \A i \in Identities : i \in page[p].todo \union page[p].invalid => Settled(i)'
           /\ (\A i \in Identities : lookups[i].status = "pending" => lookups[i].cycle = 0)
                => \A i \in Identities : lookups'[i].status = "pending" => lookups'[i].cycle = 0
<1>1. PICK result \in [page[p].todo -> Outcomes] :
        lookups' = [i \in Identities |->
            IF i \in page[p].todo THEN [status |-> result[i], cycle |-> page[p].cycle]
            ELSE IF i \in page[p].invalid
              THEN [status |-> "invalid",
                    cycle |-> IF pc[p] = "save" THEN page[p].cycle ELSE lookups[i].cycle]
            ELSE lookups[i]]
  BY DEF SaveResults
<1>2. ASSUME NEW i \in Identities, i \in page[p].todo
      PROVE  lookups'[i].status \in Outcomes /\ lookups'[i].cycle = state.cycle
  BY <1>1, <1>2
<1>3. ASSUME NEW i \in Identities, i \notin page[p].todo, i \in page[p].invalid
      PROVE  /\ lookups'[i].status = "invalid"
             /\ lookups'[i].cycle = IF pc[p] = "save" THEN state.cycle ELSE lookups[i].cycle
  BY <1>1, <1>3
<1>4. ASSUME NEW i \in Identities, i \notin page[p].todo, i \notin page[p].invalid
      PROVE  lookups'[i] = lookups[i]
  BY <1>1, <1>4
<1> QED
  BY <1>2, <1>3, <1>4 DEF Settled, Kept, Outcomes

(* Saving a page of a discovery keeps the invariant.                          *)
LEMMA SnapshotsSave ==
    ASSUME TypeOK, SnapshotsHold, OneWriter', NEW p \in Procs, Save(p)
    PROVE  SnapshotsHold'
<1> USE DEF dataVars, catVars, lockVars, localVars, histVars, Goto
<1>0. pc \in [Procs -> PC] /\ pc[p] = "save" /\ pc[p] \in Holding /\ pc[p] \in Asked
      /\ PageIsCurrent(p) /\ SaveResults(p)
      /\ UNCHANGED <<pair, stored, late>>
  BY DEF Save, TypeOK, Holding, Inside, Batch, SnapshotsHold, Asked
<1>1. /\ page[p].cycle = state.cycle /\ page[p].cursor = state.cursor
      /\ page[p].upper = state.upper /\ ~state.completed /\ state.cursor < page[p].checkpoint
      /\ page[p].checkpoint <= state.upper
      /\ \A id \in stored \ late : id <= page[p].checkpoint
           => Settled(pair[id]) \/ pair[id] \in page[p].todo \union page[p].invalid
  BY <1>0 DEF PageIsCurrent, Paging
<1>2. state \in State /\ page[p].checkpoint \in Nat /\ page[p].upper \in Nat
      /\ stored \subseteq Int /\ \A id \in stored : pair[id] \in Identities
  <2>1. state \in State /\ page[p] \in Page /\ stored \subseteq SaleIds
        /\ pair \in [SaleIds -> Identities]
    BY DEF TypeOK
  <2>2. page[p].checkpoint \in Nat /\ page[p].upper \in Nat
    BY <2>1 DEF Page
  <2>3. SaleIds \subseteq Int
    BY ConstantsAssumption DEF SaleIds
  <2> QED
    BY <2>1, <2>2, <2>3
<1>3. /\ state'.cycle = state.cycle /\ state'.cursor = page[p].checkpoint
      /\ state'.upper = state.upper /\ (state'.completed <=> page[p].checkpoint >= state.upper)
  <2>1. state' = [state EXCEPT
                   !.cursor = Written(@, page[p].cursor, page[p].checkpoint),
                   !.completed = @ \/ page[p].checkpoint >= page[p].upper]
    BY DEF Save
  <2>2. Written(state.cursor, page[p].cursor, page[p].checkpoint) = page[p].checkpoint
    BY <1>1 DEF Written
  <2> QED
    BY <1>1, <1>2, <2>1, <2>2 DEF State
<1>4. \A id \in stored \ late : id <= page[p].checkpoint => Settled(pair[id])'
  BY <1>0, <1>1, <1>2, <1>3, SavedChecks
<1>5. Covered'
  <2>1. \A id \in stored : state'.completed /\ id <= state.upper => id <= page[p].checkpoint
    BY <1>1, <1>2, <1>3 DEF State
  <2> QED
    BY <1>0, <1>3, <1>4, <2>1 DEF Covered
<1>6. Cycles'
  BY <1>0, <1>1, <1>3, SavedChecks DEF SnapshotsHold, Cycles
<1>7. ASSUME NEW q \in Procs PROVE PageIsCurrent(q)'
  <2>1. CASE q # p
    <3>1. pc'[q] \notin Paging \union Reasked
      BY <1>0, <2>1, Alone DEF SnapshotsHold, Save
    <3> QED
      BY <3>1 DEF PageIsCurrent, Paging
  <2>2. CASE q = p
    <3>1. pc'[p] \in {"account", "page"} /\ (pc'[p] = "page" => ~state'.completed)
      BY <1>0, <1>1, <1>2, <1>3 DEF Save
    <3> QED
      BY <2>2, <3>1 DEF PageIsCurrent, Paging, Asked, Reasked
  <2> QED
    BY <2>1, <2>2
<1> QED
  BY <1>5, <1>6, <1>7 DEF SnapshotsHold

(* Saving a batch of a refresh keeps the invariant: it runs in no open cycle   *)
(* whose checks it could undo.                                                *)
LEMMA SnapshotsSaveRefresh ==
    ASSUME TypeOK, SnapshotsHold, OneWriter', NEW w \in Workers, SaveRefresh(w)
    PROVE  SnapshotsHold'
<1> USE DEF dataVars, catVars, lockVars, localVars, histVars, Goto
<1>0. w \in Procs /\ pc \in [Procs -> PC] /\ pc[w] = "refreshSave" /\ pc[w] \in Holding
      /\ page[w].cycle = state.cycle /\ SaveResults(w)
      /\ UNCHANGED <<pair, stored, late, state>>
      /\ \A id \in stored : pair[id] \in Identities
  BY DEF SaveRefresh, TypeOK, Procs, Holding, Inside, Batch, SnapshotsHold, PageIsCurrent, Reasked
<1>1. Covered'
  BY <1>0, SavedChecks DEF SnapshotsHold, Covered
<1>2. Cycles'
  BY <1>0, SavedChecks DEF SnapshotsHold, Cycles
<1>3. ASSUME NEW q \in Procs PROVE PageIsCurrent(q)'
  <2>1. pc'[q] \notin Paging \union Reasked
    BY <1>0, Alone DEF SaveRefresh, SnapshotsHold, Paging, Asked, Reasked
  <2> QED
    BY <2>1 DEF PageIsCurrent, Paging
<1> QED
  BY <1>1, <1>2, <1>3 DEF SnapshotsHold

-----------------------------------------------------------------------------
(* The snapshots a batch works with stay current: the inductive invariant.   *)
LEMMA SnapshotsStep ==
    ASSUME MaxLosses = 0, TypeOK, TypeOK', SnapshotsHold, [Next]_vars
    PROVE  SnapshotsHold'
<1> USE DEF dataVars, catVars, lockVars, localVars, histVars
<1>1. CASE UNCHANGED vars
  BY <1>1 DEF vars, SnapshotsHold, OneWriter, Cycles, PageIsCurrent, Covered, Settled
<1> SUFFICES ASSUME Next PROVE SnapshotsHold'
  BY <1>1
<1>2. OneWriter'
  BY LockKept DEF SnapshotsHold
<1>3. pc' \in [Procs -> PC] /\ Cli \in Procs /\ Workers \subseteq Procs
  BY DEF TypeOK, Procs
<1>4. CASE Imports
  BY <1>2, <1>4, SnapshotsImports
<1>5. CASE Web \/ Faulty \/ CliStart \/ CliEnd
  BY <1>2, <1>5, HarmlessSurroundings, HarmlessStep
<1>6. ASSUME NEW p \in Procs, Synchronize(p) PROVE SnapshotsHold'
  <2>1. CASE Begin(p)
    BY <1>2, <2>1, SnapshotsBegin
  <2>2. CASE ReadPage(p)
    <3>1. CASE FetchPage(p)
      BY <1>2, <2>2, <3>1, SnapshotsFetch
    <3>2. CASE ~FetchPage(p)
      BY <1>2, <2>2, <3>2, HarmlessBatch, HarmlessStep
    <3> QED
      BY <3>1, <3>2
  <2>3. CASE Save(p)
    BY <1>2, <2>3, SnapshotsSave
  <2>4. ASSUME pc[p] = "http", Request(p, "verify") PROVE SnapshotsHold'
    BY <1>2, <2>4, HarmlessBatch, HarmlessStep DEF Asked
  <2>5. ASSUME pc[p] = "verify", Verify(p, "save") PROVE SnapshotsHold'
    BY <1>2, <2>5, HarmlessBatch, HarmlessStep DEF Asked
  <2> QED
    BY <1>6, <2>1, <2>2, <2>3, <2>4, <2>5 DEF Synchronize
<1>7. ASSUME NEW w \in Workers, RefreshBatch(w) PROVE SnapshotsHold'
  <2>1. CASE SaveRefresh(w)
    BY <1>2, <2>1, SnapshotsSaveRefresh
  <2>2. CASE ~SaveRefresh(w)
    BY <1>2, <1>3, <1>7, <2>2, HarmlessBatch, HarmlessStep DEF RefreshBatch, Reasked
  <2> QED
    BY <2>1, <2>2
<1>8. ASSUME NEW w \in Workers, PrepareDiscovery(w) PROVE SnapshotsHold'
  BY <1>2, <1>8, SnapshotsPrepare
<1>9. ASSUME NEW w \in Workers, Launch(w) \/ Serve(w) \/ Heartbeat(w) \/ DatabaseError(w),
             ~Synchronize(w), ~RefreshBatch(w), ~PrepareDiscovery(w)
      PROVE  SnapshotsHold'
  BY <1>2, <1>3, <1>9, HarmlessServe, HarmlessStep DEF Serve, RunRequest
<1> QED
  BY <1>3, <1>4, <1>5, <1>6, <1>7, <1>8, <1>9 DEF Next, CliRun, Serve, RunRequest

(* One writer at a time, and what it read before its request is still true    *)
(* when it saves the answer (sync_lock, synchronize).                         *)
THEOREM SnapshotsInvariant ==
    ASSUME MaxLosses = 0
    PROVE  Spec => []SnapshotsHold
<1>1. Init => SnapshotsHold
  BY ConstantsAssumption
  DEF Init, SnapshotsHold, OneWriter, Cycles, PageIsCurrent, Covered, Holding,
      Inside, Batch, Paging, Asked, Reasked, SaleIds
<1>2. TypeOK /\ TypeOK' /\ SnapshotsHold /\ [Next]_vars => SnapshotsHold'
  BY SnapshotsStep
<1> QED
  BY <1>1, <1>2, TypeInvariant, PTL DEF Spec

(* No sale behind the checkpoint was skipped: its pair is checked in the      *)
(* current cycle, through every failed request, crash, pause and resumption,  *)
(* in whatever order the imports commit, unless it was late.                  *)
THEOREM CoveredInvariant ==
    ASSUME MaxLosses = 0
    PROVE  Spec => []Covered
<1>1. SnapshotsHold => Covered
  BY DEF SnapshotsHold
<1> QED
  BY <1>1, SnapshotsInvariant, PTL
-----------------------------------------------------------------------------
(* Steps: what the checkpoint and the checks may never do *)

(* The checkpoint and the lookups are written by five transactions only.     *)
LEMMA Writers ==
    ASSUME TypeOK, TypeOK', Next, ~UNCHANGED <<state, lookups>>
    PROVE  \/ \E w \in Workers : PrepareDiscovery(w) \/ SaveRefresh(w)
           \/ \E p \in Procs : Begin(p) \/ (ReadPage(p) /\ FetchPage(p)) \/ Save(p)
<1> USE DEF dataVars, catVars
<1>1. pc' \in [Procs -> PC] /\ Cli \in Procs /\ Workers \subseteq Procs
  BY DEF TypeOK, Procs
<1>2. CASE Imports
  BY <1>2 DEF Imports, Allocate, Commit, Rollback, DeleteSale
<1>3. CASE Web \/ Faulty \/ CliStart \/ CliEnd
  BY <1>3, HarmlessSurroundings
<1>4. ASSUME NEW p \in Procs, Synchronize(p)
      PROVE  Begin(p) \/ (ReadPage(p) /\ FetchPage(p)) \/ Save(p)
  BY <1>4, HarmlessBatch DEF Synchronize, Asked
<1>5. ASSUME NEW w \in Workers, RefreshBatch(w) PROVE SaveRefresh(w)
  BY <1>1, <1>5, HarmlessBatch DEF RefreshBatch, Reasked
<1>6. ASSUME NEW w \in Workers, Launch(w) \/ Serve(w) \/ Heartbeat(w) \/ DatabaseError(w),
             ~Synchronize(w), ~RefreshBatch(w)
      PROVE  PrepareDiscovery(w)
  BY <1>1, <1>6, HarmlessServe DEF Serve, RunRequest
<1> QED
  BY <1>1, <1>2, <1>3, <1>4, <1>5, <1>6 DEF Next, CliRun, Serve, RunRequest

(* Saved results change only the identities of the page.                     *)
LEMMA SavedAreBumped ==
    ASSUME TypeOK, NEW p \in Procs, SaveResults(p), revision' = Bumped(p),
           NEW i \in Identities, lookups'[i] # lookups[i]
    PROVE  revision' > revision
<1>1. i \in page[p].todo \union page[p].invalid
  BY DEF SaveResults
<1>2. revision' = revision + 1 /\ revision \in Nat
  BY <1>1 DEF Bumped, TypeOK
<1> QED
  BY <1>2

(* No check is saved without a new revision, in any environment: reports in   *)
(* other processes never keep a cached answer over it (save_results, bump).   *)
THEOREM ChecksAreVisibleTheorem == Spec => ChecksAreVisible
<1>1. TypeOK /\ TypeOK' /\ [Next]_vars
        => [(\E i \in Identities : lookups'[i] # lookups[i] /\ lookups'[i].status \in Kept)
              => revision' > revision]_vars
  <2> SUFFICES ASSUME TypeOK, TypeOK', Next,
                      NEW i \in Identities, lookups'[i] # lookups[i], lookups'[i].status \in Kept
               PROVE  revision' > revision
    OBVIOUS
  <2>1. CASE \E w \in Workers : PrepareDiscovery(w)
    BY <2>1 DEF PrepareDiscovery
  <2>2. CASE \E w \in Workers : SaveRefresh(w)
    BY <2>2, SavedAreBumped DEF SaveRefresh, Procs
  <2>3. CASE \E p \in Procs : Begin(p)
    BY <2>3 DEF Begin
  <2>4. ASSUME NEW p \in Procs, FetchPage(p) PROVE FALSE
    <3>1. lookups'[i] = lookups[i] \/ lookups'[i] = [status |-> "pending", cycle |-> 0]
      BY <2>4 DEF FetchPage
    <3>2. lookups'[i] = lookups[i] \/ lookups'[i].status = "pending"
      BY <3>1
    <3> QED
      BY <3>2 DEF Kept, Outcomes
  <2>5. CASE \E p \in Procs : Save(p)
    BY <2>5, SavedAreBumped DEF Save
  <2> QED
    BY <2>1, <2>2, <2>3, <2>4, <2>5, Writers
<1> QED
  BY <1>1, TypeInvariant, PTL DEF Spec, ChecksAreVisible

(* Within a cycle the checkpoint and the boundary only advance, and only a     *)
(* complete cycle is left, for the next one (prepare, synchronize).           *)
THEOREM CheckpointAdvancesTheorem ==
    ASSUME MaxLosses = 0
    PROVE  Spec => CheckpointAdvances
<1>1. TypeOK /\ TypeOK' /\ SnapshotsHold /\ [Next]_vars
        => [IF state'.cycle = state.cycle
              THEN state'.cursor >= state.cursor /\ state'.upper >= state.upper
              ELSE state'.cycle = state.cycle + 1 /\ state.completed]_state
  <2> SUFFICES ASSUME TypeOK, TypeOK', SnapshotsHold, Next, state' # state
               PROVE  IF state'.cycle = state.cycle
                        THEN state'.cursor >= state.cursor /\ state'.upper >= state.upper
                        ELSE state'.cycle = state.cycle + 1 /\ state.completed
    BY DEF vars, catVars
  <2>1. /\ state.cycle \in Nat /\ state.cursor \in Nat /\ state.upper \in Nat
        /\ state = [cycle |-> state.cycle, cursor |-> state.cursor, upper |-> state.upper,
                    completed |-> state.completed]
        /\ state.cursor <= state.upper
    BY DEF TypeOK, State, SnapshotsHold, Cycles
  <2>2. ASSUME NEW w \in Workers, PrepareDiscovery(w)
        PROVE  state'.cycle = state.cycle /\ state'.cursor >= state.cursor
               /\ state'.upper >= state.upper
    <3>1. PICK u \in stored \union {0} :
            /\ u > state.upper
            /\ state' = [state EXCEPT !.cursor = IF @ > state.upper THEN @ ELSE state.upper,
                                      !.upper = u, !.completed = FALSE]
      BY <2>2 DEF PrepareDiscovery
    <3>2. state' = [cycle |-> state.cycle,
                    cursor |-> IF state.cursor > state.upper THEN state.cursor ELSE state.upper,
                    upper |-> u, completed |-> FALSE]
      BY <2>1, <3>1
    <3>3. u \in Nat
      <4>1. stored \subseteq Nat
        BY ConstantsAssumption DEF TypeOK, SaleIds
      <4> QED
        BY <4>1
    <3> QED
      BY <2>1, <3>1, <3>2, <3>3
  <2>3. ASSUME NEW w \in Workers, SaveRefresh(w) PROVE FALSE
    BY <2>3 DEF SaveRefresh
  <2>4. ASSUME NEW p \in Procs, Begin(p) PROVE state'.cycle = state.cycle + 1 /\ state.completed
    BY <2>4 DEF Begin
  <2>5. ASSUME NEW p \in Procs, FetchPage(p)
        PROVE  state'.cycle = state.cycle /\ state'.cursor = state.cursor
               /\ state'.upper = state.upper
    BY <2>1, <2>5 DEF FetchPage
  <2>6. ASSUME NEW p \in Procs, Save(p)
        PROVE  state'.cycle = state.cycle /\ state'.cursor >= state.cursor
               /\ state'.upper = state.upper
    <3>1. pc[p] = "save" /\ PageIsCurrent(p) /\ page[p].checkpoint \in Nat
          /\ state' = [state EXCEPT
                        !.cursor = Written(@, page[p].cursor, page[p].checkpoint),
                        !.completed = @ \/ page[p].checkpoint >= page[p].upper]
      BY <2>6 DEF Save, SnapshotsHold, TypeOK, Page
    <3>2. state.cursor < page[p].checkpoint
      BY <3>1 DEF PageIsCurrent, Asked
    <3>3. Written(state.cursor, page[p].cursor, page[p].checkpoint) >= state.cursor
      BY <2>1, <3>1, <3>2 DEF Written
    <3> QED
      BY <2>1, <3>1, <3>3
  <2> QED
    BY <2>1, <2>2, <2>3, <2>4, <2>5, <2>6, Writers
<1> QED
  BY <1>1, TypeInvariant, SnapshotsInvariant, PTL DEF Spec, CheckpointAdvances

-----------------------------------------------------------------------------
(* Commands *)

(* Only start() gives a command, and whoever writes the row later than he    *)
(* has read it can take one back but not bring one back: whatever crashes,   *)
(* fails or is written out of turn, no command is older than the last boot   *)
(* (boot, finish, serve's finally).                                          *)
THEOREM OldCommandsAreDeadTheorem == Spec => []OldCommandsAreDead
<1> USE DEF dataVars, catVars, lockVars, localVars, histVars
<1>1. Init => OldCommandsAreDead
  BY DEF Init, OldCommandsAreDead
<1>2. ASSUME TypeOK, OldCommandsAreDead, [Next]_vars PROVE OldCommandsAreDead'
  <2> SUFFICES \/ dead' = dead /\ (control'.requested => control.requested)
               \/ dead' = FALSE \/ control'.requested = FALSE
    BY <1>2 DEF OldCommandsAreDead
  <2>0. control \in Control
    BY <1>2 DEF TypeOK
  <2>1. CASE UNCHANGED vars
    BY <2>1 DEF vars
  <2>2. CASE Imports \/ Faulty \/ CliStart \/ CliEnd
    BY <2>2 DEF Imports, Allocate, Commit, Rollback, DeleteSale, Faulty, LoseLock, Signal, Crash,
                CliStart, CliEnd
  <2>3. CASE Web
    BY <2>0, <2>3 DEF Web, Pause, Stale, Start, Control
  <2>4. ASSUME NEW p \in Procs, Synchronize(p) PROVE UNCHANGED <<dead, control>>
    BY <2>4 DEF Synchronize, Begin, ReadPage, Save, Request, Verify
  <2>5. ASSUME NEW w \in Workers, RefreshBatch(w)
        PROVE  dead' = dead /\ control'.requested = control.requested
    <3>1. CASE ReadLookups(w)
      BY <2>0, <3>1 DEF ReadLookups, Control
    <3>2. CASE SaveRefresh(w)
      BY <2>0, <3>2 DEF SaveRefresh, Control
    <3> QED BY <2>5, <3>1, <3>2 DEF RefreshBatch, Request, Verify
  <2>6. ASSUME NEW w \in Workers,
               \/ Launch(w) \/ Boot(w) \/ Poll(w) \/ Idle(w) \/ Unstop(w) \/ Final(w)
               \/ Heartbeat(w) \/ DatabaseError(w)
        PROVE  \/ dead' = dead /\ control'.requested = control.requested
               \/ control'.requested = FALSE
    BY <2>0, <2>6 DEF Launch, Boot, Poll, Idle, Unstop, Final, Heartbeat, DatabaseError, Control
  <2>7. ASSUME NEW w \in Workers, Close(w)
        PROVE  dead' = dead /\ (control'.requested => control.requested)
    BY <2>0, <2>7 DEF Close, Written, Control
  <2>8. ASSUME NEW w \in Workers,
               \/ Acquire(w) \/ ReadMode(w) \/ PrepareDiscovery(w) \/ Loop(w) \/ Guard(w)
               \/ Account(w) \/ Error(w) \/ Release(w) \/ Unwind(w)
        PROVE  UNCHANGED <<dead, control>>
    BY <2>8 DEF Acquire, ReadMode, PrepareDiscovery, Loop, Guard, Account, Error, Release, Unwind
  <2>9. ASSUME NEW w \in Workers,
               PrepareRefresh(w) \/ Mark(w) \/ Wait(w) \/ Finish(w) \/ Report(w)
        PROVE  \/ dead' = dead /\ control'.requested = control.requested
               \/ control'.requested = FALSE
    BY <2>0, <2>9 DEF PrepareRefresh, Mark, Wait, Finish, Report, Reported, Control
  <2> QED
    BY <1>2, <2>1, <2>2, <2>3, <2>4, <2>5, <2>6, <2>7, <2>8, <2>9
    DEF Next, Serve, RunRequest, CliRun, Procs
<1> QED
  BY <1>1, <1>2, TypeInvariant, PTL DEF Spec

-----------------------------------------------------------------------------
(* Modes *)

(* Whoever works on a command works in the mode the row still has, and only   *)
(* a discovery opens cycles.                                                 *)
ModeHeld ==
    \A w \in Workers : pc[w] \in Holding \ {"mode"} =>
        /\ run[w].mode = control.mode
        /\ pc[w] = "begin" => run[w].mode = "discovery"

(* A step of one process that leaves the row's mode alone: it goes on with its *)
(* own mode, or is not at work afterwards.                                    *)
GoesOn(p) ==
    /\ control'.mode = control.mode
    /\ \A q \in Procs \ {p} : pc'[q] = pc[q] /\ run'[q] = run[q]
    /\ \/ pc'[p] \notin Holding \ {"mode"}
       \/ pc'[p] = pc[p] /\ run'[p] = run[p]
       \/ pc[p] \in Holding \ {"mode"} /\ pc'[p] # "begin" /\ run'[p].mode = run[p].mode

(* Such a step keeps what the others and the process itself work on.          *)
LEMMA GoesOnKeeps ==
    ASSUME ModeHeld, NEW p \in Procs, GoesOn(p)
    PROVE  ModeHeld'
  BY DEF ModeHeld, GoesOn, Procs

(* The transactions of a page and of a batch leave the mode alone.             *)
LEMMA BatchGoesOn ==
    ASSUME TypeOK, NEW p \in Procs, Synchronize(p) \/ (p \in Workers /\ RefreshBatch(p))
    PROVE  GoesOn(p)
<1> USE DEF dataVars, catVars, lockVars, localVars, histVars, Goto, GoesOn, Holding, Inside, Batch
<1>0. pc \in [Procs -> PC] /\ run \in [Procs -> Run] /\ control \in Control
  BY DEF TypeOK
<1>1. ASSUME NEW fault \in Faults, Fail(p, fault), control' = control, pc[p] \in Holding \ {"mode"}
      PROVE  GoesOn(p)
  BY <1>0, <1>1 DEF Fail, Run
<1>2. CASE Begin(p) \/ ReadPage(p) \/ Save(p)
  BY <1>0, <1>1, <1>2 DEF Begin, ReadPage, FetchPage, Save, Faults
<1>3. ASSUME NEW v \in PC, Request(p, v) \/ Verify(p, v), v # "begin", pc[p] \in Holding \ {"mode"}
      PROVE  GoesOn(p)
  BY <1>0, <1>1, <1>3 DEF Request, Verify, Faults
<1>4. CASE p \in Workers /\ ReadLookups(p)
  <2>1. /\ control' = control \/ control' = [control EXCEPT !.refreshCompleted = TRUE]
        /\ pc[p] = "refresh" /\ run' = run
        /\ \E l \in {"account", "refreshHttp"} : pc' = [pc EXCEPT ![p] = l]
    BY ZenonT(60), <1>4 DEF ReadLookups
  <2> QED
    BY <1>0, <2>1 DEF Control
<1>5. CASE p \in Workers /\ SaveRefresh(p)
  BY <1>0, <1>5 DEF SaveRefresh, Control
<1> QED
  BY <1>2, <1>3, <1>4, <1>5 DEF Synchronize, RefreshBatch, PC

(* So do the steps of a command outside its batches but two, which read it.   *)
LEMMA RequestGoesOn ==
    ASSUME TypeOK, NEW w \in Workers,
           RunRequest(w), ~Synchronize(w), ~RefreshBatch(w), ~ReadMode(w), ~Guard(w)
    PROVE  GoesOn(w)
<1> USE DEF dataVars, catVars, lockVars, localVars, histVars, Goto, GoesOn, Holding, Inside, Batch
<1>0. w \in Procs /\ pc \in [Procs -> PC] /\ run \in [Procs -> Run] /\ control \in Control
  BY DEF TypeOK, Procs
<1>1. CASE Acquire(w) \/ Release(w) \/ Unwind(w)
  BY <1>0, <1>1 DEF Acquire, Release, Unwind
<1>2. CASE PrepareDiscovery(w)
  BY <1>0, <1>2 DEF PrepareDiscovery, Run
<1>3. CASE PrepareRefresh(w)
  <2>1. control'.mode = control.mode
    <3>1. CASE control' # control
      <4>1. PICK u \in Known \union {0} :
              control' = [control EXCEPT !.refreshCursor = 0, !.refreshUpper = u,
                                         !.refreshCompleted = FALSE]
        BY ZenonT(60), <1>3, <3>1 DEF PrepareRefresh
      <4> QED
        BY <1>0, <4>1 DEF Control
    <3> QED
      BY <3>1
  <2>2. pc[w] = "prepare" /\ run' = run /\ (Goto(w, "unwind") \/ Goto(w, "loop"))
    BY ZenonT(60), <1>3 DEF PrepareRefresh
  <2> QED
    BY <1>0, <2>1, <2>2
<1>4. CASE Loop(w) \/ Account(w) \/ Error(w)
  BY <1>0, <1>4 DEF Loop, Account, Error, Run
<1>5. CASE Mark(w) \/ Wait(w) \/ Finish(w) \/ Report(w)
  BY <1>0, <1>5 DEF Mark, Wait, Finish, Report, Reported, Control
<1> QED
  BY <1>1, <1>2, <1>3, <1>4, <1>5 DEF RunRequest

(* While no live session loses its lock, the mode of a command at work stays:  *)
(* start() has probed the run lock.                                           *)
LEMMA ModeStays ==
    ASSUME MaxLosses = 0, TypeOK, OneWriter, ModeHeld, [Next]_vars
    PROVE  ModeHeld'
<1> USE DEF dataVars, catVars, lockVars, localVars, histVars, Goto
<1>0. /\ pc \in [Procs -> PC] /\ run \in [Procs -> Run] /\ control \in Control
      /\ Cli \in Procs /\ Cli \notin Workers /\ Workers \subseteq Procs /\ Nobody \notin Procs
  BY ConstantsAssumption DEF TypeOK, Procs
<1>1. CASE UNCHANGED vars \/ Imports \/ Pause \/ Stale \/ LoseLock
  <2>1. control'.mode = control.mode /\ UNCHANGED <<pc, run>>
    BY <1>0, <1>1 DEF vars, Imports, Allocate, Commit, Rollback, DeleteSale, Pause, Stale, LoseLock, Control
  <2> QED
    BY <2>1 DEF ModeHeld
<1>2. ASSUME NEW mode \in Modes, Start(mode) PROVE ModeHeld'
  BY <1>0, <1>2 DEF Start, StartAccepted, ModeHeld, OneWriter
<1>3. ASSUME NEW p \in Procs, Gone(p), control'.mode = control.mode PROVE ModeHeld'
  <2>1. GoesOn(p)
    BY <1>0, <1>3 DEF Gone, GoesOn, Holding, Inside, Batch
  <2> QED
    BY <2>1, GoesOnKeeps
<1>4. CASE Faulty \/ CliEnd
  BY <1>1, <1>3, <1>4 DEF Faulty, Signal, Crash, CliEnd, ModeHeld, Procs
<1>5. CASE CliStart
  BY <1>0, <1>5 DEF CliStart, ModeHeld
<1>6. ASSUME NEW p \in Procs, Synchronize(p) \/ (p \in Workers /\ RefreshBatch(p)) PROVE ModeHeld'
  BY <1>6, BatchGoesOn, GoesOnKeeps
<1>7. ASSUME NEW w \in Workers, ReadMode(w) PROVE ModeHeld'
  <2>1. run'[w].mode = control'.mode /\ pc'[w] # "begin"
    BY <1>0, <1>7 DEF ReadMode, NoRun
  <2> QED
    BY <1>0, <1>7, <2>1 DEF ReadMode, ModeHeld
<1>8. ASSUME NEW w \in Workers, Guard(w) PROVE ModeHeld'
  <2>1. run'[w].mode = run[w].mode /\ (pc'[w] = "begin" => run[w].mode = "discovery")
    BY <1>0, <1>8 DEF Guard, Fail, Run
  <2> QED
    BY <1>0, <1>8, <2>1 DEF Guard, Fail, ModeHeld, Holding, Inside, Batch
<1>9. ASSUME NEW w \in Workers, RunRequest(w), ~Synchronize(w), ~RefreshBatch(w), ~ReadMode(w), ~Guard(w)
      PROVE  ModeHeld'
  BY <1>0, <1>9, RequestGoesOn, GoesOnKeeps
<1>10. ASSUME NEW w \in Workers,
              \/ Launch(w) \/ Boot(w) \/ Poll(w) \/ Idle(w) \/ Unstop(w) \/ Final(w) \/ Heartbeat(w)
       PROVE  ModeHeld'
  <2>1. GoesOn(w)
    BY <1>0, <1>10
    DEF Launch, Boot, Poll, Idle, Unstop, Final, Heartbeat, GoesOn, Holding, Inside, Batch, Control
  <2> QED
    BY <1>0, <2>1, GoesOnKeeps
<1>11. ASSUME NEW w \in Workers, Close(w) PROVE ModeHeld'
  BY <1>0, <1>3, <1>11 DEF Close, Control
<1>12. ASSUME NEW w \in Workers, DatabaseError(w) PROVE ModeHeld'
  <2>1. CASE Gone(w)
    BY <1>0, <1>3, <1>12, <2>1 DEF DatabaseError
  <2>2. CASE ~Gone(w)
    <3>1. GoesOn(w)
      BY <1>0, <1>12, <2>2 DEF DatabaseError, Fail, GoesOn, Holding, Inside, Batch, Run
    <3> QED
      BY <1>0, <3>1, GoesOnKeeps
  <2> QED
    BY <2>1, <2>2
<1> QED
  BY <1>0, <1>1, <1>2, <1>4, <1>5, <1>6, <1>7, <1>8, <1>9, <1>10, <1>11, <1>12
  DEF Next, Serve, CliRun, Web

(* Both modes are refused just when a refresh is unfinished beside a cycle.    *)
LEMMA LockedOutMeans ==
    ASSUME control.mode \in Modes
    PROVE  LockedOut <=> (control.mode = "refresh" /\ ~control.refreshCompleted /\ ~state.completed)
  BY DEF LockedOut, Modes

(* Only start() changes the mode, and only the opening of a refresh makes it   *)
(* unfinished.                                                               *)
LEMMA ModeWriters ==
    ASSUME TypeOK, Next,
           control'.mode # control.mode \/ (control.refreshCompleted /\ ~control'.refreshCompleted)
    PROVE  (\E mode \in Modes : Start(mode)) \/ (\E w \in Workers : PrepareRefresh(w))
<1> USE DEF dataVars, catVars, lockVars, localVars, histVars
<1>0. control \in Control /\ Cli \in Procs /\ Workers \subseteq Procs
  BY DEF TypeOK, Procs
<1>1. CASE Imports \/ Pause \/ Stale \/ Faulty \/ CliStart \/ CliEnd
  BY <1>0, <1>1
  DEF Imports, Allocate, Commit, Rollback, DeleteSale, Pause, Stale, Faulty, LoseLock, Signal, Crash,
      CliStart, CliEnd, Control
<1>2. ASSUME NEW p \in Procs, Synchronize(p) PROVE control' = control
  BY <1>2 DEF Synchronize, Begin, ReadPage, Save, Request, Verify
<1>3. ASSUME NEW w \in Workers, RefreshBatch(w)
      PROVE  control'.mode = control.mode /\ (control.refreshCompleted => control'.refreshCompleted)
  <2>1. CASE ReadLookups(w)
    <3>1. control' = control \/ control' = [control EXCEPT !.refreshCompleted = TRUE]
      BY ZenonT(60), <2>1 DEF ReadLookups
    <3> QED
      BY <1>0, <3>1 DEF Control
  <2>2. CASE SaveRefresh(w)
    BY <1>0, <2>2 DEF SaveRefresh, Written, Control
  <2> QED
    BY <1>3, <2>1, <2>2 DEF RefreshBatch, Request, Verify
<1>4. ASSUME NEW w \in Workers,
             \/ Launch(w) \/ Boot(w) \/ Poll(w) \/ Idle(w) \/ Unstop(w) \/ Final(w) \/ Close(w)
             \/ Heartbeat(w) \/ DatabaseError(w)
      PROVE  UNCHANGED <<control.mode, control.refreshCompleted>>
  BY <1>0, <1>4
  DEF Launch, Boot, Poll, Idle, Unstop, Final, Close, Heartbeat, DatabaseError, Control
<1>5. ASSUME NEW w \in Workers,
             \/ Acquire(w) \/ ReadMode(w) \/ PrepareDiscovery(w) \/ Loop(w) \/ Guard(w)
             \/ Account(w) \/ Error(w) \/ Release(w) \/ Unwind(w)
      PROVE  control' = control
  BY ZenonT(60), <1>5 DEF Acquire, ReadMode, PrepareDiscovery, Loop, Guard, Account, Error, Release, Unwind
<1>6. ASSUME NEW w \in Workers, Mark(w) \/ Wait(w) \/ Finish(w) \/ Report(w)
      PROVE  UNCHANGED <<control.mode, control.refreshCompleted>>
  BY <1>0, <1>6 DEF Mark, Wait, Finish, Report, Reported, Control
<1> QED
  BY <1>0, <1>1, <1>2, <1>3, <1>4, <1>5, <1>6 DEF Next, Serve, RunRequest, CliRun, Web

(* While no live session loses its lock, neither the web nor a worker ever     *)
(* brings the refusals of start() together: only a cycle the CLI opens beside *)
(* a paused refresh does (start, prepare).                                    *)
THEOREM OnlyCliLocksOutTheorem ==
    ASSUME MaxLosses = 0
    PROVE  Spec => OnlyCliLocksOut
<1> USE DEF dataVars, catVars, lockVars, localVars, histVars, Goto
<1>1. Init => ModeHeld
  BY DEF Init, ModeHeld, Holding, Inside, Batch, Procs
<1>2. ASSUME TypeOK, TypeOK', OneWriter, ModeHeld, Next, LockedOut', ~LockedOut
      PROVE  pc[Cli] = "begin" /\ pc'[Cli] = "page"
  <2>0. /\ pc \in [Procs -> PC] /\ control \in Control /\ control' \in Control /\ state \in State
        /\ Cli \in Procs /\ Workers \subseteq Procs
    BY <1>2 DEF TypeOK, Procs
  <2>1. control'.mode = "refresh" /\ ~control'.refreshCompleted /\ ~state'.completed
    BY <1>2, <2>0 DEF LockedOut, Modes, Control
  <2>2. ~(control.mode = "refresh" /\ ~control.refreshCompleted /\ ~state.completed)
    BY <1>2, <2>0, LockedOutMeans DEF Control
  <2>3. ASSUME NEW mode \in Modes, Start(mode) PROVE FALSE
    BY <2>0, <2>1, <2>2, <2>3 DEF Start, StartAccepted, Modes, Control
  <2>4. ASSUME NEW w \in Workers, PrepareRefresh(w) PROVE FALSE
    <3>1. state' = state
      BY ZenonT(60), <2>4 DEF PrepareRefresh
    <3>2. state.completed \/ control' = control
      BY ZenonT(60), <2>4 DEF PrepareRefresh
    <3> QED
      BY <2>1, <2>2, <3>1, <3>2
  <2>5. control.mode = "refresh" /\ ~control.refreshCompleted /\ state.completed
    BY <1>2, <2>1, <2>2, <2>3, <2>4, ModeWriters DEF Control
  <2>6. ASSUME NEW w \in Workers, PrepareDiscovery(w) \/ Begin(w) PROVE FALSE
    <3>1. pc[w] \in {"prepare", "begin"} /\ (pc[w] = "prepare" => run[w].mode = "discovery")
      <4>1. PrepareDiscovery(w) => pc[w] = "prepare" /\ run[w].mode = "discovery"
        BY DEF PrepareDiscovery
      <4>2. Begin(w) => pc[w] = "begin"
        BY DEF Begin
      <4> QED
        BY <2>6, <4>1, <4>2
    <3> QED
      BY <1>2, <2>5, <3>1 DEF ModeHeld, Holding, Inside, Batch
  <2>7. ASSUME NEW p \in Procs, FetchPage(p) \/ Save(p) PROVE FALSE
    BY <2>0, <2>1, <2>5, <2>7 DEF FetchPage, Save, State
  <2>8. ASSUME NEW w \in Workers, SaveRefresh(w) PROVE FALSE
    BY <2>1, <2>5, <2>8 DEF SaveRefresh
  <2>9. Begin(Cli)
    BY <1>2, <2>1, <2>5, <2>6, <2>7, <2>8, Writers DEF Procs
  <2> QED
    BY <2>0, <2>9 DEF Begin
<1>3. TypeOK /\ OneWriter /\ [Next]_vars /\ MaxLosses = 0 => OneWriter'
  BY LockKept DEF vars, OneWriter
<1>4. Init => OneWriter
  BY DEF Init, OneWriter, Holding, Inside, Batch
<1>5. TypeOK /\ TypeOK' /\ OneWriter /\ ModeHeld /\ [Next]_vars
        => [(LockedOut' /\ ~LockedOut) => (pc[Cli] = "begin" /\ pc'[Cli] = "page")]_vars
  BY <1>2
<1>6. TypeOK /\ OneWriter /\ ModeHeld /\ [Next]_vars => ModeHeld'
  BY ModeStays
<1> QED
  BY <1>1, <1>3, <1>4, <1>5, <1>6, TypeInvariant, PTL DEF Spec, OnlyCliLocksOut

-----------------------------------------------------------------------------
(* The refresh *)

(* Only what the lookup contract rejects is marked invalid, and it is never  *)
(* asked for.                                                               *)
Marks ==
    /\ \A i \in Identities : lookups[i].status = "invalid" => i \in Malformed
    /\ \A p \in Procs : page[p].todo \cap Malformed = {} /\ page[p].invalid \subseteq Malformed

(* The open refresh has a boundary above all it found.                       *)
Opened ==
    \A i \in scope : lookups[i].status # "absent" /\ i <= control.refreshUpper

(* The batch read before the request goes on where the row stands and leaves *)
(* out nothing up to its checkpoint.                                        *)
BatchIsCurrent(p) ==
    pc[p] \in Reasked =>
        /\ page[p].cursor = control.refreshCursor /\ page[p].upper = control.refreshUpper
        /\ \A i \in scope : i <= page[p].checkpoint =>
              \/ i <= page[p].cursor \/ i \in page[p].todo \union page[p].invalid
              \/ lookups[i].status = "invalid"

RefreshHolds ==
    OneWriter /\ Marks /\ Opened /\ RefreshCovers /\ \A p \in Procs : BatchIsCurrent(p)

(* The row and the history of a refresh that a step may leave alone.         *)
OpenRefresh ==
    <<scope, checked, control.refreshCursor, control.refreshUpper, control.refreshCompleted>>

(* What a step that reads no lookups may do to the process that takes it.    *)
Calm(p) ==
    \/ page'[p] = page[p] /\ (pc'[p] \in Reasked => pc[p] \in Reasked)
    \/ /\ page'[p].todo \cap Malformed = {} /\ page'[p].invalid \subseteq Malformed
       /\ pc'[p] \notin Reasked

(* What a check may do to the lookups.                                       *)
Checks ==
    \A i \in Identities :
        /\ lookups[i].status # "absent" => lookups'[i].status # "absent"
        /\ lookups[i].status = "invalid" => lookups'[i].status = "invalid"
        /\ lookups'[i].status = "invalid" => lookups[i].status = "invalid" \/ i \in Malformed

(* A calm step keeps the invariant.                                          *)
LEMMA CalmStep ==
    ASSUME TypeOK, RefreshHolds, OneWriter', OpenRefresh' = OpenRefresh, Checks,
           \A p \in Procs : Calm(p)
    PROVE  RefreshHolds'
<1>0. scope \subseteq Identities /\ scope' = scope /\ checked' = checked
      /\ control'.refreshCursor = control.refreshCursor
      /\ control'.refreshUpper = control.refreshUpper
      /\ control'.refreshCompleted = control.refreshCompleted
  BY DEF TypeOK, OpenRefresh
<1>1. Marks'
  BY DEF RefreshHolds, Marks, Checks, Calm
<1>2. Opened' /\ RefreshCovers'
  BY <1>0 DEF RefreshHolds, Opened, RefreshCovers, Checks
<1>3. ASSUME NEW p \in Procs PROVE BatchIsCurrent(p)'
  <2>1. BatchIsCurrent(p) /\ Calm(p)
    BY DEF RefreshHolds
  <2> QED
    BY <1>0, <2>1 DEF BatchIsCurrent, Calm, Checks
<1> QED
  BY <1>1, <1>2, <1>3 DEF RefreshHolds

(* The worker's outer loop and a command between its batches are calm.       *)
LEMMA CalmServe ==
    ASSUME TypeOK, NEW w \in Workers,
           \/ Launch(w) \/ Boot(w) \/ Poll(w) \/ Idle(w) \/ Unstop(w) \/ Final(w)
           \/ Close(w) \/ Heartbeat(w) \/ DatabaseError(w) \/ Acquire(w) \/ ReadMode(w)
           \/ PrepareDiscovery(w) \/ Loop(w) \/ Mark(w) \/ Guard(w) \/ Account(w)
           \/ Error(w) \/ Wait(w) \/ Finish(w) \/ Release(w) \/ Unwind(w) \/ Report(w)
    PROVE  (\A p \in Procs : Calm(p)) /\ lookups' = lookups /\ OpenRefresh' = OpenRefresh
<1> USE DEF dataVars, catVars, lockVars, localVars, histVars, Goto, Calm, Reasked, OpenRefresh
<1>0. /\ pc \in [Procs -> PC] /\ page \in [Procs -> Page] /\ w \in Procs /\ control \in Control
      /\ NoPage.todo = {} /\ NoPage.invalid = {}
  BY DEF TypeOK, Procs, NoPage
<1>1. CASE Launch(w) \/ Boot(w) \/ Poll(w) \/ Idle(w) \/ Unstop(w) \/ Final(w) \/ Heartbeat(w)
  BY <1>0, <1>1 DEF Launch, Boot, Poll, Idle, Unstop, Final, Heartbeat, Control
<1>2. CASE Close(w)
  BY <1>0, <1>2 DEF Close, Gone, Control
<1>3. CASE DatabaseError(w)
  BY <1>0, <1>3 DEF DatabaseError, Gone, Fail
<1>4. CASE Acquire(w) \/ ReadMode(w) \/ PrepareDiscovery(w) \/ Loop(w)
  BY <1>0, <1>4 DEF Acquire, ReadMode, PrepareDiscovery, Loop
<1>5. CASE Guard(w) \/ Account(w) \/ Error(w)
  BY <1>0, <1>5 DEF Guard, Fail, Account, Error
<1>6. CASE Mark(w) \/ Wait(w) \/ Finish(w) \/ Report(w)
  BY <1>0, <1>6 DEF Mark, Wait, Finish, Report, Reported, Control
<1>7. CASE Release(w) \/ Unwind(w)
  BY <1>0, <1>7 DEF Release, Unwind
<1> QED
  BY <1>1, <1>2, <1>3, <1>4, <1>5, <1>6, <1>7

(* So are the imports, the web commands, the faults and the CLI's ends.      *)
LEMMA CalmSurroundings ==
    ASSUME TypeOK, Imports \/ Web \/ Faulty \/ CliStart \/ CliEnd
    PROVE  (\A p \in Procs : Calm(p)) /\ lookups' = lookups /\ OpenRefresh' = OpenRefresh
<1> USE DEF dataVars, catVars, lockVars, localVars, histVars, Goto, Calm, Reasked, OpenRefresh
<1>0. /\ pc \in [Procs -> PC] /\ page \in [Procs -> Page] /\ Cli \in Procs /\ control \in Control
      /\ NoPage.todo = {} /\ NoPage.invalid = {}
  BY DEF TypeOK, Procs, NoPage
<1>1. CASE Imports
  BY <1>1 DEF Imports, Allocate, Commit, Rollback, DeleteSale
<1>2. CASE Web
  BY <1>0, <1>2 DEF Web, Pause, Stale, Start, Control
<1>3. CASE LoseLock \/ \E p \in Procs : Signal(p)
  BY <1>3 DEF LoseLock, Signal
<1>4. CASE CliEnd \/ \E p \in Procs : Crash(p)
  BY <1>0, <1>4 DEF CliEnd, Crash, Gone
<1>5. CASE CliStart
  BY <1>0, <1>5 DEF CliStart
<1> QED
  BY <1>1, <1>2, <1>3, <1>4, <1>5 DEF Faulty

(* So are the requests and the checks of the lock after them, ...            *)
LEMMA CalmRequest ==
    ASSUME TypeOK, NEW p \in Procs,
           \/ pc[p] = "http" /\ Request(p, "verify")
           \/ pc[p] = "verify" /\ Verify(p, "save")
           \/ pc[p] = "refreshHttp" /\ Request(p, "refreshVerify")
           \/ pc[p] = "refreshVerify" /\ Verify(p, "refreshSave")
    PROVE  (\A q \in Procs : Calm(q)) /\ lookups' = lookups /\ OpenRefresh' = OpenRefresh
<1> USE DEF dataVars, catVars, lockVars, localVars, histVars, Goto, Calm, Reasked, OpenRefresh
<1>0. /\ pc \in [Procs -> PC] /\ page \in [Procs -> Page]
      /\ NoPage.todo = {} /\ NoPage.invalid = {}
  BY DEF TypeOK, NoPage
<1> QED
  BY <1>0 DEF Request, Verify, Fail

(* ... the opening of a cycle, ...                                            *)
LEMMA CalmBegin ==
    ASSUME TypeOK, NEW p \in Procs, Begin(p)
    PROVE  (\A q \in Procs : Calm(q)) /\ lookups' = lookups /\ OpenRefresh' = OpenRefresh
<1> USE DEF dataVars, catVars, lockVars, localVars, histVars, Goto, Calm, Reasked, OpenRefresh
<1>0. /\ pc \in [Procs -> PC] /\ page \in [Procs -> Page]
  BY DEF TypeOK
<1>1. page'[p].todo = {} /\ page'[p].invalid = {} /\ \A q \in Procs : q # p => page'[q] = page[q]
  BY <1>0 DEF Begin, NoPage
<1> QED
  BY <1>0, <1>1 DEF Begin

(* ... the reading of a page of sales, which only adds pending lookups, ...   *)
LEMMA CalmPage ==
    ASSUME TypeOK, NEW p \in Procs, ReadPage(p)
    PROVE  (\A q \in Procs : Calm(q)) /\ Checks /\ OpenRefresh' = OpenRefresh
<1> USE DEF dataVars, catVars, lockVars, localVars, histVars, Goto, Calm, Reasked, OpenRefresh
<1>0. /\ pc \in [Procs -> PC] /\ page \in [Procs -> Page] /\ lookups \in [Identities -> Lookup]
      /\ NoPage.todo = {} /\ NoPage.invalid = {}
      /\ UNCHANGED <<control, scope, checked>>
  BY DEF TypeOK, NoPage, ReadPage
<1>1. CASE ~FetchPage(p)
  BY <1>0, <1>1 DEF ReadPage, Fail, Checks
<1>2. CASE FetchPage(p)
  <2> DEFINE ahead == {id \in stored : state.cursor < id /\ id <= state.upper}
             batch == IF p = Cli THEN CliBatch ELSE BatchSize
             rows  == First(ahead, IF page[p].rows < batch THEN page[p].rows ELSE batch)
  <2>1. CASE ahead = {}
    <3>1. Goto(p, "account") /\ UNCHANGED <<lookups, page>>
      BY <1>2, <2>1 DEF FetchPage
    <3> QED
      BY <1>0, <3>1 DEF Checks
  <2>2. CASE ahead # {}
    <3>1. PICK c \in rows :
            /\ lookups' = [i \in Identities |->
                             IF i \in Unseen({r \in rows : r <= c}) /\ lookups[i].status = "absent"
                               THEN [status |-> "pending", cycle |-> 0] ELSE lookups[i]]
            /\ page' = [page EXCEPT
                         ![p] = [cycle |-> state.cycle, cursor |-> state.cursor,
                                 upper |-> state.upper, checkpoint |-> c,
                                 todo |-> Unseen({r \in rows : r <= c}) \ Malformed,
                                 invalid |-> Unseen({r \in rows : r <= c}) \intersect Malformed,
                                 rows |-> page[p].rows - Cardinality({r \in rows : r <= c}),
                                 products |-> page[p].products
                                                - Cardinality(Unseen({r \in rows : r <= c}))]]
            /\ pc' = [pc EXCEPT ![p] = "http"]
      BY <1>2, <2>2 DEF FetchPage
    <3> DEFINE asked == Unseen({r \in rows : r <= c})
    <3>2. page'[p].todo = asked \ Malformed /\ page'[p].invalid = asked \intersect Malformed
          /\ \A q \in Procs : q # p => page'[q] = page[q] /\ pc'[q] = pc[q]
      BY <1>0, <3>1
    <3>3. \A i \in Identities :
            \/ lookups'[i] = lookups[i]
            \/ lookups[i].status = "absent" /\ lookups'[i] = [status |-> "pending", cycle |-> 0]
      BY <3>1
    <3>4. Checks
      BY <3>3 DEF Checks
    <3> HIDE DEF rows, ahead, asked
    <3> QED
      BY <1>0, <3>1, <3>2, <3>4
  <2> QED
    BY <2>1, <2>2
<1> QED
  BY <1>1, <1>2

(* The results of a batch unmark nothing.                                    *)
LEMMA SavedMarks ==
    ASSUME Marks, NEW p \in Procs, SaveResults(p)
    PROVE  Checks
<1>1. PICK result \in [page[p].todo -> Outcomes] :
        lookups' = [i \in Identities |->
            IF i \in page[p].todo THEN [status |-> result[i], cycle |-> page[p].cycle]
            ELSE IF i \in page[p].invalid
              THEN [status |-> "invalid",
                    cycle |-> IF pc[p] = "save" THEN page[p].cycle ELSE lookups[i].cycle]
            ELSE lookups[i]]
  BY DEF SaveResults
<1>2. ASSUME NEW i \in Identities, i \in page[p].todo
      PROVE  lookups'[i].status \in Outcomes /\ i \notin Malformed
  BY <1>1, <1>2 DEF Marks
<1>3. ASSUME NEW i \in Identities, i \notin page[p].todo, i \in page[p].invalid
      PROVE  lookups'[i].status = "invalid" /\ i \in Malformed
  BY <1>1, <1>3 DEF Marks
<1>4. ASSUME NEW i \in Identities, i \notin page[p].todo, i \notin page[p].invalid
      PROVE  lookups'[i] = lookups[i]
  BY <1>1, <1>4
<1> QED
  BY <1>2, <1>3, <1>4 DEF Checks, Outcomes, Marks

(* ... and the saving of a page of sales.                                     *)
LEMMA CalmSave ==
    ASSUME TypeOK, Marks, NEW p \in Procs, Save(p)
    PROVE  (\A q \in Procs : Calm(q)) /\ Checks /\ OpenRefresh' = OpenRefresh
<1> USE DEF dataVars, catVars, lockVars, localVars, histVars, Goto, Calm, Reasked, OpenRefresh
<1>0. pc \in [Procs -> PC] /\ page \in [Procs -> Page] /\ SaveResults(p)
  BY DEF TypeOK, Save
<1>1. page'[p].todo = {} /\ page'[p].invalid = {} /\ \A q \in Procs : q # p => page'[q] = page[q]
  BY <1>0 DEF Save, NoPage
<1>2. Checks
  BY <1>0, SavedMarks
<1> QED
  BY <1>0, <1>1, <1>2 DEF Save

(* A refresh is opened at its beginning, over what is known.                  *)
LEMMA RefreshPrepare ==
    ASSUME TypeOK, RefreshHolds, OneWriter', NEW w \in Workers, PrepareRefresh(w)
    PROVE  RefreshHolds'
<1> USE DEF dataVars, catVars, lockVars, localVars, histVars, Goto
<1>0. /\ w \in Procs /\ pc \in [Procs -> PC] /\ pc[w] \in Holding /\ control \in Control
      /\ UNCHANGED <<page, lookups>> /\ pc'[w] \notin Reasked
      /\ \A q \in Procs : q # w => pc'[q] = pc[q]
  BY DEF TypeOK, Procs, PrepareRefresh, Holding, Inside, Reasked
<1>1. ASSUME NEW q \in Procs PROVE pc'[q] \notin Reasked
  BY <1>0, Alone DEF RefreshHolds
<1>2. Marks' /\ \A q \in Procs : BatchIsCurrent(q)'
  BY <1>0, <1>1 DEF RefreshHolds, Marks, BatchIsCurrent
<1>3. CASE UNCHANGED <<control, scope, checked>>
  BY <1>0, <1>2, <1>3 DEF RefreshHolds, Opened, RefreshCovers
<1>4. CASE \E upper \in Known \union {0} :
             /\ IsMax(upper, Known)
             /\ control' = [control EXCEPT !.refreshCursor = 0, !.refreshUpper = upper,
                                           !.refreshCompleted = FALSE]
             /\ scope' = Known
  <2>1. PICK upper \in Known \union {0} :
             /\ IsMax(upper, Known)
             /\ control' = [control EXCEPT !.refreshCursor = 0, !.refreshUpper = upper,
                                           !.refreshCompleted = FALSE]
             /\ scope' = Known
    BY <1>4
  <2>2. control'.refreshCursor = 0 /\ control'.refreshUpper = upper /\ ~control'.refreshCompleted
    BY <1>0, <2>1 DEF Control
  <2>3. \A i \in Known : i \in Nat /\ i > 0 /\ i <= upper
    BY <2>1, ConstantsAssumption DEF Known, Identities, IsMax
  <2>4. Opened' /\ RefreshCovers'
    BY <1>0, <2>1, <2>2, <2>3 DEF Opened, RefreshCovers, Known
  <2> QED
    BY <1>2, <2>4 DEF RefreshHolds
<1> QED
  BY <1>3, <1>4 DEF PrepareRefresh

(* A batch of a refresh leaves out nothing up to its checkpoint.              *)
LEMMA RefreshRead ==
    ASSUME TypeOK, RefreshHolds, OneWriter', NEW w \in Workers, ReadLookups(w)
    PROVE  RefreshHolds'
<1> USE DEF dataVars, catVars, lockVars, localVars, histVars, Goto
<1> DEFINE ahead == {i \in Known : control.refreshCursor < i /\ i <= control.refreshUpper}
           rows  == First(ahead, BatchSize)
           asked == {i \in rows : lookups[i].status # "invalid"}
<1>0. /\ w \in Procs /\ pc \in [Procs -> PC] /\ page \in [Procs -> Page]
      /\ control \in Control /\ UNCHANGED <<lookups, scope, checked>>
      /\ scope \subseteq Identities /\ Identities \subseteq Nat
  <2>1. w \in Procs /\ Identities \subseteq Nat
    BY ConstantsAssumption DEF Procs, Identities
  <2>2. UNCHANGED <<lookups, scope, checked>>
    BY DEF ReadLookups
  <2> QED
    BY <2>1, <2>2 DEF TypeOK
<1>1. \A i \in scope : i \in Known /\ i <= control.refreshUpper
  BY <1>0 DEF RefreshHolds, Opened, Known
<1>2. control.refreshCursor \in Nat /\ control.refreshUpper \in Nat
  BY <1>0 DEF Control
<1>3. CASE ahead = {}
  <2>1. /\ control' = [control EXCEPT !.refreshCompleted = TRUE]
        /\ pc' = [pc EXCEPT ![w] = "account"] /\ page' = page
    BY <1>3 DEF ReadLookups
  <2>2. /\ control'.refreshCursor = control.refreshCursor
        /\ control'.refreshUpper = control.refreshUpper
    BY <1>0, <2>1 DEF Control
  <2>3. \A i \in scope : i <= control.refreshCursor
    BY <1>0, <1>1, <1>2, <1>3
  <2>4. Marks' /\ Opened' /\ RefreshCovers'
    BY <1>0, <2>1, <2>2, <2>3 DEF RefreshHolds, Marks, Opened, RefreshCovers
  <2>5. ASSUME NEW q \in Procs PROVE BatchIsCurrent(q)'
    <3>1. pc'[q] \in Reasked => pc[q] \in Reasked
      BY <1>0, <2>1 DEF Reasked
    <3> QED
      BY <1>0, <2>1, <2>2, <3>1 DEF RefreshHolds, BatchIsCurrent
  <2> QED
    BY <2>4, <2>5 DEF RefreshHolds
<1>4. CASE ahead # {}
  <2>1. PICK last \in rows :
          /\ IsMax(last, rows)
          /\ page' = [page EXCEPT
                       ![w] = [NoPage EXCEPT
                                !.cycle = state.cycle, !.cursor = control.refreshCursor,
                                !.upper = control.refreshUpper, !.checkpoint = last,
                                !.todo = asked \ Malformed,
                                !.invalid = asked \intersect Malformed]]
          /\ pc' = [pc EXCEPT ![w] = "refreshHttp"] /\ control' = control
    BY <1>4 DEF ReadLookups
  <2>2. /\ page'[w].cursor = control.refreshCursor /\ page'[w].upper = control.refreshUpper
        /\ page'[w].checkpoint = last /\ page'[w].todo = asked \ Malformed
        /\ page'[w].invalid = asked \intersect Malformed
    BY <1>0, <2>1 DEF NoPage
  <2>3. \A q \in Procs : q # w => pc'[q] = pc[q] /\ page'[q] = page[q]
    BY <1>0, <2>1
  <2>4. ASSUME NEW i \in scope, i <= last
        PROVE  i <= control.refreshCursor \/ i \in asked \/ lookups[i].status = "invalid"
    <3>1. SUFFICES ASSUME ~(i <= control.refreshCursor) PROVE i \in rows
      OBVIOUS
    <3>2. i \in ahead
      BY <1>0, <1>1, <1>2, <3>1
    <3>3. ahead \in SUBSET Nat /\ ahead \in SUBSET Identities
      BY <1>0 DEF Known
    <3>4. IsFiniteSet(ahead) /\ BatchSize \in Int
      BY <3>3, IdentitySets, ConstantsAssumption
    <3> HIDE DEF ahead
    <3> QED
      BY <2>4, <3>2, <3>3, <3>4, FirstIsPrefix
  <2> HIDE DEF ahead, rows, asked
  <2>5. Marks'
    <3>1. ASSUME NEW q \in Procs
          PROVE  page'[q].todo \cap Malformed = {} /\ page'[q].invalid \subseteq Malformed
      BY <2>2, <2>3 DEF RefreshHolds, Marks
    <3> QED
      BY <1>0, <3>1 DEF RefreshHolds, Marks
  <2>6. Opened' /\ RefreshCovers'
    BY <1>0, <2>1 DEF RefreshHolds, Opened, RefreshCovers
  <2>7. ASSUME NEW q \in Procs PROVE BatchIsCurrent(q)'
    <3>1. CASE q = w
      BY <1>0, <2>1, <2>2, <2>4, <3>1 DEF BatchIsCurrent
    <3>2. CASE q # w
      BY <1>0, <2>1, <2>3, <3>2 DEF RefreshHolds, BatchIsCurrent
    <3> QED
      BY <3>1, <3>2
  <2> QED
    BY <2>5, <2>6, <2>7 DEF RefreshHolds
<1> QED
  BY <1>3, <1>4

(* Cursor and checks of a refresh are saved together.                         *)
LEMMA RefreshSave ==
    ASSUME TypeOK, RefreshHolds, OneWriter', NEW w \in Workers, SaveRefresh(w)
    PROVE  RefreshHolds'
<1> USE DEF dataVars, catVars, lockVars, localVars, histVars, Goto
<1>0. /\ w \in Procs /\ pc \in [Procs -> PC] /\ page \in [Procs -> Page]
      /\ pc[w] \in Holding /\ pc[w] \in Reasked /\ SaveResults(w)
      /\ UNCHANGED <<scope, page>> /\ checked' = checked \union page[w].todo \union page[w].invalid
      /\ pc' = [pc EXCEPT ![w] = "account"]
      /\ scope \subseteq Identities /\ Identities \subseteq Nat
  BY ConstantsAssumption
  DEF TypeOK, Procs, SaveRefresh, Holding, Inside, Batch, Reasked, Identities
<1>1. control \in Control /\ page[w] \in Page
  BY <1>0 DEF TypeOK
<1>2. /\ control'.refreshCursor = page[w].checkpoint
      /\ control'.refreshUpper = control.refreshUpper
      /\ control'.refreshCompleted
           = Written(control.refreshCompleted, FALSE, page[w].checkpoint >= page[w].upper)
  BY <1>1 DEF SaveRefresh, Control
<1>3. page[w].checkpoint \in Nat /\ page[w].upper \in Nat
  BY <1>1 DEF Page
<1>4. page[w].cursor = control.refreshCursor /\ page[w].upper = control.refreshUpper
      /\ \A i \in scope : i <= page[w].checkpoint =>
            \/ i <= page[w].cursor \/ i \in page[w].todo \union page[w].invalid
            \/ lookups[i].status = "invalid"
  BY <1>0 DEF RefreshHolds, BatchIsCurrent
<1>5. Checks
  BY <1>0, SavedMarks DEF RefreshHolds
<1>6. Marks' /\ Opened'
  BY <1>0, <1>2, <1>5 DEF RefreshHolds, Marks, Opened, Checks
<1>7. ASSUME NEW i \in scope, i <= page[w].checkpoint
      PROVE  i \in checked' \/ lookups'[i].status = "invalid"
  <2>1. i \in checked \union page[w].todo \union page[w].invalid \/ lookups[i].status = "invalid"
    BY <1>4, <1>7 DEF RefreshHolds, RefreshCovers
  <2> QED
    BY <1>0, <1>5, <2>1 DEF Checks
<1>8. RefreshCovers'
  <2>1. ASSUME NEW i \in scope, control'.refreshCompleted
        PROVE  i \in checked' \/ lookups'[i].status = "invalid"
    <3>1. CASE page[w].checkpoint >= page[w].upper
      <4>1. i <= page[w].upper /\ i \in Nat
        BY <1>0, <1>4 DEF RefreshHolds, Opened
      <4> QED
        BY <1>3, <1>7, <3>1, <4>1
    <3>2. CASE ~(page[w].checkpoint >= page[w].upper)
      <4>1. control.refreshCompleted
        BY <1>2, <2>1, <3>2 DEF Written
      <4> QED
        BY <1>0, <1>5, <4>1 DEF RefreshHolds, RefreshCovers, Checks
    <3> QED
      BY <3>1, <3>2
  <2> QED
    BY <1>0, <1>2, <1>7, <2>1 DEF RefreshCovers
<1>9. ASSUME NEW q \in Procs PROVE pc'[q] \notin Reasked
  <2>1. CASE q = w
    BY <1>0, <2>1 DEF Reasked
  <2>2. CASE q # w
    BY <1>0, <2>2, Alone DEF RefreshHolds
  <2> QED
    BY <2>1, <2>2
<1> QED
  BY <1>6, <1>8, <1>9 DEF RefreshHolds, BatchIsCurrent

(* Every step keeps the invariant of the refresh.                            *)
LEMMA RefreshStep ==
    ASSUME MaxLosses = 0, TypeOK, RefreshHolds, [Next]_vars
    PROVE  RefreshHolds'
<1> USE DEF dataVars, catVars, lockVars, localVars, histVars
<1>1. CASE UNCHANGED vars
  BY <1>1 DEF vars, RefreshHolds, OneWriter, Marks, Opened, RefreshCovers, BatchIsCurrent
<1> SUFFICES ASSUME Next PROVE RefreshHolds'
  BY <1>1
<1>2. OneWriter'
  BY LockKept DEF RefreshHolds
<1>3. lookups' = lookups => Checks
  BY DEF Checks
<1>4. CASE Imports \/ Web \/ Faulty \/ CliStart \/ CliEnd
  BY <1>2, <1>3, <1>4, CalmSurroundings, CalmStep
<1>5. ASSUME NEW p \in Procs, Synchronize(p) PROVE RefreshHolds'
  <2>1. CASE Begin(p)
    BY <1>2, <1>3, <2>1, CalmBegin, CalmStep
  <2>2. CASE ReadPage(p)
    BY <1>2, <2>2, CalmPage, CalmStep
  <2>3. CASE Save(p)
    BY <1>2, <2>3, CalmSave, CalmStep DEF RefreshHolds
  <2>4. CASE \/ pc[p] = "http" /\ Request(p, "verify")
             \/ pc[p] = "verify" /\ Verify(p, "save")
    BY <1>2, <1>3, <2>4, CalmRequest, CalmStep
  <2> QED
    BY <1>5, <2>1, <2>2, <2>3, <2>4 DEF Synchronize
<1>6. ASSUME NEW w \in Workers, RefreshBatch(w) PROVE RefreshHolds'
  <2>1. CASE ReadLookups(w)
    BY <1>2, <2>1, RefreshRead
  <2>2. CASE SaveRefresh(w)
    BY <1>2, <2>2, RefreshSave
  <2>3. CASE \/ pc[w] = "refreshHttp" /\ Request(w, "refreshVerify")
             \/ pc[w] = "refreshVerify" /\ Verify(w, "refreshSave")
    BY <1>2, <1>3, <2>3, CalmRequest, CalmStep DEF Procs
  <2> QED
    BY <1>6, <2>1, <2>2, <2>3 DEF RefreshBatch
<1>7. ASSUME NEW w \in Workers, PrepareRefresh(w) PROVE RefreshHolds'
  BY <1>2, <1>7, RefreshPrepare
<1>8. ASSUME NEW w \in Workers, Launch(w) \/ Serve(w) \/ Heartbeat(w) \/ DatabaseError(w),
             ~Synchronize(w), ~RefreshBatch(w), ~PrepareRefresh(w)
      PROVE  RefreshHolds'
  BY <1>2, <1>3, <1>8, CalmServe, CalmStep DEF Serve, RunRequest
<1> QED
  BY <1>4, <1>5, <1>6, <1>7, <1>8 DEF Next, CliRun, Serve, RunRequest, Procs

(* While no live session loses its lock, a refresh that calls itself complete *)
(* has checked every identity known when it was opened, and its cursor passed *)
(* none it had not, in whatever order the imports commit (refresh_batch).     *)
THEOREM RefreshCoversTheorem ==
    ASSUME MaxLosses = 0
    PROVE  Spec => []RefreshCovers
<1>1. Init => RefreshHolds
  BY DEF Init, RefreshHolds, OneWriter, Marks, Opened, RefreshCovers, BatchIsCurrent, Holding,
         Inside, Batch, Reasked, NoPage
<1>2. TypeOK /\ RefreshHolds /\ [Next]_vars => RefreshHolds'
  BY RefreshStep
<1>3. RefreshHolds => RefreshCovers
  BY DEF RefreshHolds
<1> QED
  BY <1>1, <1>2, <1>3, TypeInvariant, PTL DEF Spec
=============================================================================
