---------------------------- MODULE CatalogDirectory ----------------------------
(***************************************************************************)
(* _cached_integration_get of services/vrcatalog.py: the lists behind the   *)
(* filters (tree, brands, options), one request to CatalogVR at a time for  *)
(* each of them, whose failure all those who wait for it share, and old      *)
(* answers instead of errors.                                               *)
(***************************************************************************)
EXTENDS Integers, FiniteSets, SequencesExt

CONSTANTS
    Directories,   \* the keys: path and parameters
    Readers,       \* the coroutines that may ask at a time
    MaxDirectories \* DIRECTORY_CACHE_MAX_ENTRIES

ASSUME DirectoryAssumption ==
    IsFiniteSet(Directories) /\ IsFiniteSet(Readers) /\ MaxDirectories \in Nat \ {0}

VARIABLES
    age,           \* of each entry: none, fresh, stale or dead (a day old)
    recent,        \* the keys with an entry, the least recently used first
    mutex, users,  \* directory_locks and directory_lock_users
    failed,        \* the keys in directory_errors
    reader         \* what each coroutine does

directoryVars == <<age, recent, mutex, users, failed, reader>>

NoLock == 0
LockIds == 1..(Cardinality(Readers) + 1)
Away   == [pc |-> "away"]

DirectoryInit ==
    /\ age = [k \in Directories |-> "none"] /\ recent = <<>>
    /\ mutex = [k \in Directories |-> NoLock] /\ users = [k \in Directories |-> 0]
    /\ failed = {} /\ reader = [r \in Readers |-> Away]

Reading(r, l) == reader[r].pc = l
Inside(k)     == {r \in Readers : reader[r].pc # "away" /\ reader[r].key = k}
(* An asyncio.Lock is held for as long as its owner asks CatalogVR, and in   *)
(* run_cpu until the thread has ended, whoever was cancelled meanwhile.     *)
Held(l) == \E r \in Readers : reader[r].pc \in {"asking", "cancelled"} /\ reader[r].lock = l

Without(k)   == RemoveFirst(recent, k)
MoveToEnd(k) == recent' = Append(Without(k), k)

(* Mutant of Leave: whoever leaves takes the lock with him.                 *)
LeaveAlone(r) ==
    LET k == reader[r].key IN
    /\ reader' = [reader EXCEPT ![r] = Away]
    /\ users' = [users EXCEPT ![k] = @ - 1]
    /\ mutex' = [mutex EXCEPT ![k] = IF @ = reader[r].lock THEN NoLock ELSE @]

(* The finally block: the last user takes lock and error away with him.     *)
Leave(r) ==
    LET k == reader[r].key IN
    /\ reader' = [reader EXCEPT ![r] = Away]
    /\ users' = [users EXCEPT ![k] = @ - 1]
    /\ mutex' = [mutex EXCEPT ![k] = IF users[k] = 1 /\ @ = reader[r].lock THEN NoLock ELSE @]
Forgotten(r) == IF users[reader[r].key] = 1 THEN {reader[r].key} ELSE {}

(* A fresh entry is the answer; otherwise the reader joins the lock, a new    *)
(* one when nobody uses one.                                                *)
AskDirectory(r, k) ==
    /\ Reading(r, "away")
    /\ IF age[k] = "fresh"
       THEN MoveToEnd(k) /\ UNCHANGED <<mutex, users, reader>>
       ELSE \E l \in LockIds :
              /\ IF mutex[k] # NoLock THEN l = mutex[k]
                 ELSE l = CHOOSE i \in LockIds : \A q \in Readers : reader[q] # Away => reader[q].lock # i
              /\ mutex' = [mutex EXCEPT ![k] = l] /\ users' = [users EXCEPT ![k] = @ + 1]
              /\ reader' = [reader EXCEPT ![r] = [pc |-> "waiting", key |-> k, lock |-> l]]
              /\ UNCHANGED recent
    /\ UNCHANGED <<age, failed>>

(* With the lock: what another one has fetched meanwhile, or the error he has *)
(* got, with the old entry if it is not too old, or a request of one's own. *)
EnterDirectory(r) ==
    LET k == reader[r].key IN
    /\ Reading(r, "waiting") /\ ~Held(reader[r].lock)
    /\ IF age[k] = "fresh" THEN Leave(r) /\ MoveToEnd(k) /\ failed' = failed \ Forgotten(r)
       ELSE IF k \in failed THEN Leave(r) /\ failed' = failed \ Forgotten(r) /\ UNCHANGED recent
       ELSE /\ reader' = [reader EXCEPT ![r].pc = "asking"]
            /\ UNCHANGED <<recent, mutex, users, failed>>
    /\ UNCHANGED age

(* A valid answer becomes the newest entry; the oldest ones make room.      *)
DirectoryArrives(r) ==
    LET k == reader[r].key
        line == Append(Without(k), k)
        over == IF Len(line) > MaxDirectories THEN Len(line) - MaxDirectories ELSE 0 IN
    /\ Reading(r, "asking") /\ Leave(r) /\ failed' = failed \ Forgotten(r)
    /\ recent' = SubSeq(line, over + 1, Len(line))
    /\ age' = [d \in Directories |->
                 IF \E i \in 1..over : line[i] = d THEN "none" ELSE IF d = k THEN "fresh" ELSE age[d]]

(* CatalogVR fails or its answer is not valid: old entry or error.          *)
DirectoryFails(r) ==
    /\ Reading(r, "asking") /\ Leave(r)
    /\ failed' = (failed \cup {reader[r].key}) \ Forgotten(r)
    /\ UNCHANGED <<age, recent>>

(* A cancelled reader leaves at once, or when the thread he started has      *)
(* ended, whose answer nobody takes.                                        *)
CancelReader(r) ==
    /\ \/ Reading(r, "waiting") /\ Leave(r) /\ failed' = failed \ Forgotten(r)
       \/ /\ Reading(r, "asking") /\ reader' = [reader EXCEPT ![r].pc = "cancelled"]
          /\ UNCHANGED <<mutex, users, failed>>
    /\ UNCHANGED <<age, recent>>
ThreadEnds(r) ==
    /\ Reading(r, "cancelled") /\ Leave(r) /\ failed' = failed \ Forgotten(r)
    /\ UNCHANGED <<age, recent>>

(* Time passes: five minutes, then a day.                                   *)
EntryAges ==
    /\ \E k \in Directories : \E next \in {"stale", "dead"} :
         /\ age[k] = IF next = "stale" THEN "fresh" ELSE "stale"
         /\ age' = [age EXCEPT ![k] = next]
    /\ UNCHANGED <<recent, mutex, users, failed, reader>>

ReaderStep(r) ==
    \/ \E k \in Directories : AskDirectory(r, k)
    \/ EnterDirectory(r) \/ DirectoryArrives(r) \/ DirectoryFails(r)
    \/ CancelReader(r) \/ ThreadEnds(r)
DirectoryNext == (\E r \in Readers : ReaderStep(r)) \/ EntryAges
DirectorySpec == DirectoryInit /\ [][DirectoryNext]_directoryVars

---------------------------------------------------------- (* Properties *)
DirectoryTypeOK ==
    /\ age \in [Directories -> {"none", "fresh", "stale", "dead"}]
    /\ recent \in Seq(Directories) /\ Len(recent) <= MaxDirectories
    /\ mutex \in [Directories -> LockIds \cup {NoLock}] /\ users \in [Directories -> Nat]
    /\ failed \subseteq Directories
    /\ reader \in [Readers -> {Away} \cup [pc : {"waiting", "asking", "cancelled"},
                                           key : Directories, lock : LockIds]]

(* Whoever comes, waits, is cancelled or leaves: CatalogVR is asked for a     *)
(* list by one thread at a time; those who use a lock use the one newcomers  *)
(* will find; and a failure is shared by those who are there together and    *)
(* never met by somebody who asks later, when nobody is left.               *)
SingleFlight ==
    \A k \in Directories :
        /\ Cardinality({r \in Inside(k) : reader[r].pc # "waiting"}) <= 1
        /\ users[k] = Cardinality(Inside(k))
        /\ \A r \in Inside(k) : reader[r].lock = mutex[k]
        /\ Inside(k) = {} => mutex[k] = NoLock /\ k \notin failed
=============================================================================
