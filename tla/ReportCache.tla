------------------------------ MODULE ReportCache ------------------------------
(***************************************************************************)
(* Heavy reports: admission, one at a time over all API processes, and the   *)
(* product analytics cache of each process.                                  *)
(*                                                                          *)
(* A request runs on its process's event loop: what it does between two      *)
(* awaits is one step.  Admission (heavy_operation) holds an asyncio lock of *)
(* the process and then a lock on a file, until the response is encoded; it  *)
(* is entered again by the same task without waiting.  Calculations run in   *)
(* threads, which a cancelled request has to wait for.                       *)
(*                                                                          *)
(* Of the sales only versions matter: sales.version counts every commit that *)
(* changes them, and a data set remembers which version each of its          *)
(* statements has read, and (began, a history variable) what its process had  *)
(* been told when it began to load.  Admission being exclusive, the lock that the cache  *)
(* keeps for each key is never contended, and lookup, lock and second lookup *)
(* are one step without an await between them.                               *)
(***************************************************************************)
EXTENDS Integers, FiniteSets, Sequences, SequencesExt

CONSTANTS
    NumRequests,    \* requests are 1..NumRequests
    Processes,      \* API processes
    Home,           \* the process that serves each request
    Kinds,          \* what a request may ask for: data sets of some form, "report"
    LocalCatalog,   \* possible settings.product_analytics_local_catalog_enabled
    MaxWaiters,     \* MAX_WAITERS of a process (8)
    MaxEntries,     \* CACHE_MAX_ENTRIES (2)
    MaxEntryBytes,  \* CACHE_MAX_ENTRY_BYTES
    MaxTotalBytes,  \* CACHE_MAX_TOTAL_BYTES
    MaxMoves        \* bound on commits, expiries and cancellations

Requests == 1..NumRequests
Sizes    == 1..(MaxEntryBytes + 1)  \* of a compacted data set

ASSUME CacheAssumption ==
    /\ {NumRequests, MaxWaiters, MaxEntries, MaxEntryBytes} \subseteq Nat \ {0}
    /\ MaxTotalBytes \in Nat /\ MaxTotalBytes >= MaxEntryBytes /\ MaxMoves \in Nat
    /\ Home \in [Requests -> Processes] /\ LocalCatalog \subseteq BOOLEAN

VARIABLES
    local,      \* the setting the processes were started with
    sales,      \* max(sales.id), the next id, the number of commits
    catalog,    \* catalog_sync_state.revision
    req,        \* the requests and their local variables
    queue,      \* who holds and awaits each process's lock, the holder first
    file,       \* who holds the lock of LOCK_PATH
    waiters,    \* each process's state['waiters']
    threads,    \* requests with a running thread
    open,       \* reports with an open transaction
    cache,      \* each process's _cache, the least recently used entry first
    bytes,      \* _cache_bytes
    generation, \* _generation
    told,       \* changes committed by a process that has not invalidated yet
    known,      \* the version the process's last invalidation was for
    moves       \* bound: commits, expiries and cancellations so far

admission == <<queue, file, waiters>>
caches    == <<cache, bytes, generation>>
world     == <<local, sales, catalog, told, known>>
vars == <<world, req, admission, threads, open, caches, moves>>

Nobody  == 0
NoData  == [current |-> 0, comparison |-> 0, catalog |-> 0, top |-> 0, began |-> 0]
NoKey   == <<>>
NewRequest == [pc |-> "new", kind |-> "report", since |-> 0, snapshot |-> NoData, key |-> NoKey,
               generation |-> 0, data |-> NoData, cancels |-> 0]

Init ==
    /\ local \in LocalCatalog
    /\ sales = [top |-> 1, next |-> 2, version |-> 1] /\ catalog = 1
    /\ req = [r \in Requests |-> NewRequest]
    /\ queue = [p \in Processes |-> <<>>] /\ file = Nobody
    /\ waiters = [p \in Processes |-> 0]
    /\ threads = {} /\ open = {}
    /\ cache = [p \in Processes |-> <<>>]
    /\ bytes = [p \in Processes |-> 0] /\ generation = [p \in Processes |-> 0]
    /\ told = [p \in Processes |-> 0] /\ known = [p \in Processes |-> 0]
    /\ moves = 0

Move == moves < MaxMoves /\ moves' = moves + 1
At(r, pc) == req[r].pc = pc
Goto(r, pc) == req' = [req EXCEPT ![r].pc = pc]

-----------------------------------------------------------------------------
(* Sales and catalog change.  The process that deletes or imports invalidates *)
(* its own cache once the commit has returned; a sale's id is never reused.   *)

Commit(p, top, next) ==
    /\ told[p] = 0 /\ Move
    /\ sales' = [top |-> top, next |-> next, version |-> sales.version + 1]
    /\ told' = [told EXCEPT ![p] = sales.version + 1]
    /\ UNCHANGED <<local, catalog, known, req, admission, threads, open, caches>>

DeleteSales(p) ==
    \/ Commit(p, sales.top, sales.next)
    \/ sales.top = sales.next - 1 /\ Commit(p, sales.top - 1, sales.next)
ImportSales(p) == Commit(p, sales.next, sales.next + 1)

(* invalidate_product_analytics_cache *)
Invalidate(p) ==
    /\ told[p] # 0
    /\ cache' = [cache EXCEPT ![p] = <<>>] /\ bytes' = [bytes EXCEPT ![p] = 0]
    /\ generation' = [generation EXCEPT ![p] = @ + 1]
    /\ known' = [known EXCEPT ![p] = told[p]] /\ told' = [told EXCEPT ![p] = 0]
    /\ UNCHANGED <<local, sales, catalog, req, admission, threads, open, moves>>

(* The synchronisation runs elsewhere and only moves the revision. *)
SyncCatalog ==
    /\ Move /\ catalog' = catalog + 1
    /\ UNCHANGED <<local, sales, told, known, req, admission, threads, open, caches>>

(* Time passes: an entry is older than CACHE_TTL_SECONDS. *)
ExpireEntry(p) ==
    /\ Move
    /\ \E i \in DOMAIN cache[p] :
          ~cache[p][i].expired /\ cache' = [cache EXCEPT ![p][i].expired = TRUE]
    /\ UNCHANGED <<world, req, admission, threads, open, bytes, generation>>

-----------------------------------------------------------------------------
(* heavy_operation *)

(* Every way out of heavy_operation: its finally. *)
Without(s, r) == RemoveFirst(s, r)
Waiting == {"loop", "file"}
Released(r) ==
    /\ queue' = [queue EXCEPT ![Home[r]] = Without(@, r)]
    /\ file' = IF file = r THEN Nobody ELSE file
    /\ waiters' = IF req[r].pc \in Waiting THEN [waiters EXCEPT ![Home[r]] = @ - 1] ELSE waiters

(* What a request was about is forgotten with it. *)
Ended    == [NewRequest EXCEPT !.pc = "done"]
Leave(r) == Released(r) /\ req' = [req EXCEPT ![r] = Ended]

Arrive(r) ==
    /\ At(r, "new")
    /\ \E kind \in Kinds :
          LET p == Home[r]
              arrived == [req[r] EXCEPT !.kind = kind, !.since = known[p]]
          IN  IF waiters[p] >= MaxWaiters
              THEN /\ req' = [req EXCEPT ![r] = Ended]
                   /\ UNCHANGED <<queue, waiters>>
              ELSE /\ req' = [req EXCEPT ![r] = [arrived EXCEPT !.pc = "loop"]]
                   /\ queue' = [queue EXCEPT ![p] = Append(@, r)]
                   /\ waiters' = [waiters EXCEPT ![p] = @ + 1]
    /\ UNCHANGED <<world, file, threads, open, caches, moves>>

EnterLoop(r) ==
    /\ At(r, "loop") /\ Head(queue[Home[r]]) = r /\ Goto(r, "file")
    /\ UNCHANGED <<world, admission, threads, open, caches, moves>>

(* The file lock is tried again and again; with it, memory is looked at.     *)
EnterFile(r) ==
    /\ At(r, "file") /\ file = Nobody /\ file' = r
    /\ waiters' = [waiters EXCEPT ![Home[r]] = @ - 1]
    /\ IF req[r].kind = "report"
       THEN Goto(r, "transaction") /\ open' = open \union {r}
       ELSE Goto(r, "max") /\ UNCHANGED open
    /\ UNCHANGED <<world, queue, threads, caches, moves>>

(* Ten seconds of waiting, or too little memory once the locks are held.     *)
GiveUp(r) ==
    /\ req[r].pc \in Waiting /\ Leave(r)
    /\ UNCHANGED <<world, threads, open, caches, moves>>

-----------------------------------------------------------------------------
(* A sales report: one transaction, rolled back before the slot is given up. *)

Report(r) ==
    /\ At(r, "transaction") /\ Goto(r, "rollback")
    /\ UNCHANGED <<world, admission, threads, open, caches, moves>>

Rollback(r) ==
    /\ At(r, "rollback") /\ open' = open \ {r} /\ Leave(r)
    /\ UNCHANGED <<world, threads, caches, moves>>

(* get_db closes the session of a rollback that was cancelled, in a task of  *)
(* its own which runs on when the request has left without waiting for it.   *)
Close(r) ==
    /\ open' = open \ {r}
    /\ \/ At(r, "close") /\ Leave(r)
       \/ At(r, "left") /\ req' = [req EXCEPT ![r] = Ended] /\ UNCHANGED admission
    /\ UNCHANGED <<world, threads, caches, moves>>

-----------------------------------------------------------------------------
(* The product data set. *)

Now == [current |-> sales.version, comparison |-> sales.version, catalog |-> catalog, top |-> sales.top,
        began |-> 0]

(* What a statement of the request reads: with the local catalog the whole   *)
(* request reads one snapshot, otherwise each statement what is committed.   *)
Seen(r) == IF local THEN req[r].snapshot ELSE Now

Key(r, top, revision) == <<req[r].kind, top, revision>>

(* max(sales.id) and, with the local catalog, catalog_revision; both then of  *)
(* the snapshot that the request's first statement has taken.                *)
ReadMax(r) ==
    /\ At(r, "max")
    /\ req' = [req EXCEPT ![r] = [@ EXCEPT !.snapshot = IF local THEN Now ELSE [NoData EXCEPT !.top = sales.top],
                                          !.pc = "lookup"]]
    /\ UNCHANGED <<world, admission, threads, open, caches, moves>>

(* An entry that is not there takes no room and is never fresh. *)
NoEntry == [key |-> NoKey, data |-> NoData, size |-> 0, expired |-> TRUE]
Keyed(entries, key) ==
    IF \E i \in DOMAIN entries : entries[i].key = key
    THEN entries[CHOOSE i \in DOMAIN entries : entries[i].key = key]
    ELSE NoEntry
Others(entries, key) == RemoveFirstMatch(entries, LAMBDA e : e.key = key)

(* The bytes of the first n entries, for each n, and of all of them. *)
Sums(entries) ==
    LET sum[n \in 0..Len(entries)] == IF n = 0 THEN 0 ELSE sum[n - 1] + entries[n].size
    IN  sum
BytesOf(entries) == Sums(entries)[Len(entries)]

(* Mutant of Lookup: an expired entry goes, its bytes are kept. *)
LookupKeepingBytes(r) ==
    /\ At(r, "lookup")
    /\ LET p     == Home[r]
           key   == Key(r, req[r].snapshot.top, req[r].snapshot.catalog)
           found == Keyed(cache[p], key)
           rest  == Others(cache[p], key)
       IN  IF ~found.expired
           THEN /\ cache' = [cache EXCEPT ![p] = Append(rest, found)]
                /\ req' = [req EXCEPT ![r] = [@ EXCEPT !.data = found.data, !.pc = "answer"]]
                /\ threads' = threads \union {r}
           ELSE /\ cache' = [cache EXCEPT ![p] = rest]
                /\ req' = [req EXCEPT ![r] = [@ EXCEPT !.key = key, !.pc = "current",
                                                      !.generation = generation[p],
                                                      !.data.began = known[p]]]
                /\ UNCHANGED threads
    /\ UNCHANGED <<world, admission, open, bytes, generation, moves>>

(* _lookup, and _restore_entry in a thread: an expired entry goes, a fresh   *)
(* one becomes the last used.                                                *)
Lookup(r) ==
    /\ At(r, "lookup")
    /\ LET p     == Home[r]
           key   == Key(r, req[r].snapshot.top, req[r].snapshot.catalog)
           found == Keyed(cache[p], key)
           rest  == Others(cache[p], key)
       IN  IF ~found.expired
           THEN /\ cache' = [cache EXCEPT ![p] = Append(rest, found)]
                /\ req' = [req EXCEPT ![r] = [@ EXCEPT !.data = found.data, !.pc = "answer"]]
                /\ threads' = threads \union {r} /\ UNCHANGED bytes
           ELSE /\ cache' = [cache EXCEPT ![p] = rest]
                /\ bytes' = [bytes EXCEPT ![p] = @ - found.size]
                /\ req' = [req EXCEPT ![r] = [@ EXCEPT !.key = key, !.pc = "current",
                                                      !.generation = generation[p],
                                                      !.data.began = known[p]]]
                /\ UNCHANGED threads
    /\ UNCHANGED <<world, admission, open, generation, moves>>

(* _build_dataset *)
ReadCurrent(r) ==
    /\ At(r, "current")
    /\ req' = [req EXCEPT ![r] = [@ EXCEPT !.data.current = Seen(r).current, !.data.top = Seen(r).top,
                                          !.pc = "comparison"]]
    /\ UNCHANGED <<world, admission, threads, open, caches, moves>>

ReadComparison(r) ==
    /\ At(r, "comparison")
    /\ req' = [req EXCEPT ![r] = [@ EXCEPT !.data.comparison = Seen(r).comparison,
                                          !.data.catalog = Seen(r).catalog, !.pc = "merge"]]
    /\ threads' = threads \union {r}
    /\ UNCHANGED <<world, admission, open, caches, moves>>

(* Mutant of Unchanged: nobody looks at _generation again. *)
UnchangedUnseen(r) == At(r, "merge") \/ At(r, "store")

(* Nothing was invalidated since the loader began. *)
Unchanged(r) == req[r].generation = generation[Home[r]]

(* The rows are merged; they are only compacted while still of use.          *)
Merge(r) ==
    /\ At(r, "merge") /\ Goto(r, IF Unchanged(r) THEN "store" ELSE "answer")
    /\ UNCHANGED <<world, admission, threads, open, caches, moves>>

(* _publish: how many entries, the least recently used first, have to go     *)
(* until there is room for another one or nothing is left.                   *)
Fits(entries, held, size, n) ==
    \/ n = Len(entries)
    \/ held - Sums(entries)[n] + size <= MaxTotalBytes /\ Len(entries) - n < MaxEntries
MakeRoom(entries, held, size) ==
    CHOOSE n \in 0..Len(entries) :
        /\ Fits(entries, held, size, n)
        /\ \A m \in 0..(n - 1) : ~Fits(entries, held, size, m)

Publish(r, size) ==
    LET p     == Home[r]
        key   == req[r].key
        rest  == Others(cache[p], key)
        freed == bytes[p] - Keyed(cache[p], key).size
        gone  == MakeRoom(rest, freed, size)
        entry == [key |-> key, data |-> req[r].data, size |-> size, expired |-> FALSE]
    IN  /\ cache' = [cache EXCEPT ![p] = Append(SubSeq(rest, gone + 1, Len(rest)), entry)]
        /\ bytes' = [bytes EXCEPT ![p] = freed - Sums(rest)[gone] + size]

Store(r) ==
    /\ At(r, "store")
    /\ \E size \in Sizes :
          IF size <= MaxEntryBytes /\ Unchanged(r) THEN Publish(r, size) ELSE UNCHANGED <<cache, bytes>>
    /\ Goto(r, "answer")
    /\ UNCHANGED <<world, admission, threads, open, generation, moves>>

(* The rows are grouped and the response encoded, the last threads' work.    *)
Answer(r) ==
    /\ At(r, "answer") /\ threads' = threads \ {r} /\ Leave(r)
    /\ UNCHANGED <<world, open, caches, moves>>

-----------------------------------------------------------------------------
(* Failures: memory runs out, a statement or a calculation fails, the client *)
(* goes away. *)

Loading == {"max", "lookup", "current", "comparison"}
Computing == {"merge", "store", "answer"}

(* A cancelled request goes on with what it does when it ends. *)
Cancelled(r, pc) == req' = [req EXCEPT ![r].pc = pc, ![r].cancels = @ + 1] /\ UNCHANGED admission

(* The session's close is shielded: a cancelled request leaves it behind.    *)
LeaveOpen(r) ==
    /\ Released(r)
    /\ req' = [req EXCEPT ![r] = [Ended EXCEPT !.pc = "left", !.cancels = req[r].cancels + 1]]

(* Mutant of Cancel: the slot goes with the cancelled request. *)
CancelAtOnce(r) ==
    /\ Move
    /\ \/ req[r].pc \in Waiting \union Loading \union Computing /\ Leave(r)
       \/ At(r, "transaction") /\ Cancelled(r, "rollback")
       \/ At(r, "rollback") /\ Cancelled(r, "close")
       \/ At(r, "close") /\ LeaveOpen(r)
    /\ UNCHANGED <<world, threads, open, caches>>

(* A request is cancelled at an await, and may be again at the next one.     *)
(* run_cpu: a thread cannot be stopped, so the slot is kept until it ends,   *)
(* however often the request is cancelled.  report_transaction's rollback is *)
(* not shielded, and the closing of the session behind it is not waited for. *)
Cancel(r) ==
    /\ Move
    /\ \/ req[r].pc \in Waiting \union Loading /\ Leave(r)
       \/ req[r].pc \in Computing /\ Cancelled(r, "drain")
       \/ At(r, "transaction") /\ Cancelled(r, "rollback")
       \/ At(r, "rollback") /\ Cancelled(r, "close")
       \/ At(r, "close") /\ LeaveOpen(r)
    /\ UNCHANGED <<world, threads, open, caches>>

Drain(r) ==
    /\ At(r, "drain") /\ threads' = threads \ {r} /\ Leave(r)
    /\ UNCHANGED <<world, open, caches, moves>>

(* ensure_headroom refuses the next statement or calculation, or that fails. *)
Fail(r) ==
    /\ req[r].pc \in Loading \union Computing /\ Move
    /\ threads' = threads \ {r} /\ Leave(r)
    /\ UNCHANGED <<world, open, caches>>

-----------------------------------------------------------------------------
Environment ==
    \/ SyncCatalog
    \/ \E p \in Processes : DeleteSales(p) \/ ImportSales(p) \/ Invalidate(p) \/ ExpireEntry(p)

Step(r) ==
    \/ Arrive(r) \/ EnterLoop(r) \/ EnterFile(r) \/ GiveUp(r) \/ Report(r) \/ Rollback(r)
    \/ ReadMax(r) \/ Lookup(r) \/ ReadCurrent(r) \/ ReadComparison(r)
    \/ Merge(r) \/ Store(r) \/ Answer(r) \/ Drain(r) \/ Close(r)

Next ==
    \/ Environment
    \/ \E r \in Requests : Step(r) \/ Cancel(r) \/ Fail(r)

Spec == Init /\ [][Next]_vars

-----------------------------------------------------------------------------
Gone == {"new", "done", "left"}  \* without a slot or a place in a queue
Pcs  == {"transaction", "rollback", "close", "drain"} \union Gone \union Waiting \union Loading \union Computing
Data == [current : 0..sales.version, comparison : 0..sales.version, catalog : 0..catalog, top : 0..sales.next,
         began : 0..sales.version]

(* Values keep their types, and the cache its limits and its book-keeping:   *)
(* _cache_bytes is what its entries hold, each key has one entry.            *)
TypeOK ==
    /\ local \in BOOLEAN /\ catalog \in Nat \ {0} /\ moves \in 0..MaxMoves
    /\ sales.top < sales.next /\ sales.version \in Nat
    /\ \A r \in Requests :
          /\ req[r].pc \in Pcs /\ req[r].since \in 0..sales.version
          /\ req[r].snapshot \in Data /\ req[r].data \in Data
    /\ file \in Requests \union {Nobody} /\ threads \subseteq Requests /\ open \subseteq Requests
    /\ \A p \in Processes :
          /\ Range(queue[p]) \subseteq {r \in Requests : Home[r] = p}
          /\ known[p] \in 0..sales.version /\ told[p] \in 0..sales.version
          /\ bytes[p] = BytesOf(cache[p]) /\ bytes[p] <= MaxTotalBytes
          /\ Len(cache[p]) <= MaxEntries
          /\ \A i, j \in DOMAIN cache[p] : (cache[p][i].key = cache[p][j].key => i = j)
          /\ \A i \in DOMAIN cache[p] : cache[p][i].data \in Data

(* At most one heavy operation in all processes, whoever is refused, timed   *)
(* out or cancelled when: threads run only under the file lock, however      *)
(* often their request is cancelled, and so do report transactions, but for  *)
(* one whose request was cancelled at least twice; the holder's process lock *)
(* covers the file lock, and a slot or a place among the waiters is neither  *)
(* lost nor counted twice                                                    *)
(* (product_analytics_runtime.heavy_operation and run_cpu,                   *)
(* report_execution.report_transaction).                                     *)
OneAtATime ==
    /\ threads \subseteq {file}
    /\ \A r \in open : r = file \/ req[r].cancels >= 2
    /\ file # Nobody => /\ Head(queue[Home[file]]) = file
                        /\ req[file].pc \notin Waiting \union Gone
    /\ \A p \in Processes :
          /\ waiters[p] = Cardinality({r \in Requests : Home[r] = p /\ req[r].pc \in Waiting})
          /\ waiters[p] <= MaxWaiters
          /\ \A i \in DOMAIN queue[p] : req[queue[p][i]].pc \notin Gone

(* What a report says is not older than what its process was told before the *)
(* request: every invalidated change is in it, though a loader that began    *)
(* earlier may have ended later.  With the local catalog an answer is of one *)
(* moment, with the newest sale and the revision of the catalog that the     *)
(* request itself has seen, and there is one way for it to be older: whoever *)
(* loaded it had taken its snapshot before the invalidation and looked at    *)
(* _generation after it (product_analytics._dataset,                         *)
(* _cached_product_dataset).                                                 *)
AnswersFresh ==
    \A r \in Requests : At(r, "answer") =>
        LET data == req[r].data
            seen == req[r].snapshot
        IN  /\ local => /\ data.current = data.comparison
                        /\ <<data.top, data.catalog>> = <<seen.top, seen.catalog>>
            /\ \/ {data.current, data.comparison} \subseteq req[r].since..sales.version
               \/ local /\ data.current < data.began

(* What docs/product_analytics_cache_memory.md, lines 96-98, says of both     *)
(* modes: no calculation started before an invalidation is published after   *)
(* it, so that the next request recalculates.  With the local catalog a      *)
(* request may get a data set that lacks what was invalidated before it came. *)
NextRecalculates ==
    \A r \in Requests : At(r, "answer") => req[r].data.current >= req[r].since
=============================================================================
