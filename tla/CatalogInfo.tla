------------------------------- MODULE CatalogInfo -------------------------------
(***************************************************************************)
(* get_catalog_batch_info of services/vrcatalog.py: what CatalogVR knows of *)
(* the products of a report, from a bounded cache and, for those missing in *)
(* it, in batches, two threads at a time.  heavy_operation admits one call  *)
(* at a time; the caller may be cancelled wherever it waits.                *)
(***************************************************************************)
EXTENDS Integers, Sequences, FiniteSets, SequencesExt

CONSTANTS
    Products, InCatalog,   \* all products, and those CatalogVR knows
    BatchSize, Workers,    \* CATALOG_BATCH_SIZE, CATALOG_BATCH_CONCURRENCY
    MaxEntries             \* the limit on entries and, with one unit each, on bytes

ASSUME InfoAssumption ==
    /\ IsFiniteSet(Products) /\ InCatalog \subseteq Products
    /\ BatchSize \in Nat \ {0} /\ Workers \in Nat \ {0} /\ MaxEntries \in Nat \ {0}

VARIABLES
    entries,       \* catalog_info_cache in the order of insertion: [product, found, fresh]
    charged,       \* _catalog_info_bytes
    call,          \* the admitted call
    threads,       \* its batches: [batch, state] by their place in the window
    served         \* the last answer: [asked, result, failed]

infoVars == <<entries, charged, call, threads, served>>

NoCall   == [pc |-> "none"]
Nothing  == [asked |-> {}, result |-> {}, failed |-> {}]

InfoInit ==
    /\ entries = <<>> /\ charged = 0 /\ call = NoCall /\ threads = <<>> /\ served = Nothing

Calling(l)  == call.pc = l
EntriesOf(p) == {i \in DOMAIN entries : entries[i].product = p}

---------------------------------------------------------- (* The cache *)
(* The members of a set of positions, in order, and the rows of e there.     *)
InPlace(S) == CHOOSE f \in [1..Cardinality(S) -> S] :
                 \A i, j \in 1..Cardinality(S) : i < j => f[i] < f[j]
RowsAt(e, S)  == [n \in 1..Cardinality(S) |-> e[InPlace(S)[n]]]

(* _drop_catalog_info while there are too many entries: the first ones go.   *)
Newest(e) == SubSeq(e, IF Len(e) > MaxEntries THEN Len(e) - MaxEntries + 1 ELSE 1, Len(e))

(* _cache_catalog_info for one product after the other of a batch: what was    *)
(* brought, then what was not.  Each goes to the end, an older entry of it is  *)
(* dropped, and so are the first ones in excess (each time, which comes to the *)
(* same as at the end: the entries are always the last ones of the line).     *)
Order(batch) == RowsAt(batch, {i \in DOMAIN batch : batch[i] \in InCatalog})
                  \o RowsAt(batch, {i \in DOMAIN batch : batch[i] \notin InCatalog})
Insert(e, line, found) ==
    LET rows == [i \in DOMAIN line |-> [product |-> line[i], found |-> found[line[i]], fresh |-> TRUE]]
        old  == {i \in DOMAIN e : \A j \in DOMAIN line : e[i].product # line[j]}
    IN  Newest(RowsAt(e, old) \o rows)
InsertAll(e, batch) == Insert(e, Order(batch), [p \in Products |-> p \in InCatalog])
Settle(e) == entries' = e /\ charged' = charged + Len(e) - Len(entries)

(* _prune_catalog_info_cache                                                *)
Pruned == RowsAt(entries, {i \in DOMAIN entries : entries[i].fresh})

------------------------------------------------------------ (* The call *)
(* A call asks for the distinct products of its report, in their order.     *)
Admit ==
    /\ Calling("none")
    /\ \E wanted \in (SUBSET Products) \ {{}} :
         call' = [pc |-> "prepare", asked |-> wanted, missing |-> <<>>, result |-> {},
                  failed |-> {}, answered |-> FALSE]
    /\ UNCHANGED <<entries, charged, threads, served>>

(* _prepare_catalog_batch_info: known ones are answered, those known not to  *)
(* exist are left out, the others are missing.                              *)
Prepare ==
    /\ Calling("prepare") /\ Settle(Pruned)
    /\ LET known == {x.product : x \in {Pruned[i] : i \in DOMAIN Pruned}} IN
       call' = [call EXCEPT !.pc = "window",
                  !.result = {Pruned[i].product : i \in {j \in DOMAIN Pruned :
                                 Pruned[j].found /\ Pruned[j].product \in call.asked}},
                  !.missing = SetToSeq(call.asked \ known)]
    /\ UNCHANGED <<threads, served>>

(* The next window of batches, one thread each; without memory it is the     *)
(* end of the call.                                                         *)
Batch(n) == SubSeq(call.missing, (n - 1) * BatchSize + 1,
                   IF n * BatchSize < Len(call.missing) THEN n * BatchSize ELSE Len(call.missing))
Window ==
    /\ Calling("window") /\ call.missing # <<>>
    /\ LET all == (Len(call.missing) + BatchSize - 1) \div BatchSize
           now == IF all < Workers THEN all ELSE Workers IN
       \/ /\ threads' = [n \in 1..now |-> [batch |-> Batch(n), state |-> "running"]]
          /\ call' = [call EXCEPT !.pc = "gather",
                        !.missing = SubSeq(@, now * BatchSize + 1, Len(@))]
       \/ call' = NoCall /\ UNCHANGED threads
    /\ UNCHANGED <<entries, charged, served>>

(* A thread of the window ends, with an answer or an exception.             *)
BatchEnds ==
    /\ \E n \in DOMAIN threads, outcome \in {"answered", "failed"} :
         /\ threads[n].state = "running"
         /\ threads' = [threads EXCEPT ![n].state = outcome]
    /\ UNCHANGED <<entries, charged, call, served>>

(* Mutant of Consume: a product that was not answered does not exist.       *)
ConsumeAll ==
    /\ Calling("gather") /\ threads # <<>> /\ threads[1].state \in {"answered", "failed"}
    /\ LET asked == {threads[1].batch[i] : i \in DOMAIN threads[1].batch} IN
       IF threads[1].state = "answered"
       THEN /\ Settle(InsertAll(entries, threads[1].batch))
            /\ call' = [call EXCEPT !.result = @ \cup (asked \cap InCatalog), !.answered = TRUE]
       ELSE /\ Settle(Insert(entries, threads[1].batch, [p \in Products |-> FALSE]))
            /\ call' = [call EXCEPT !.failed = @ \cup asked]
    /\ threads' = Tail(threads)
    /\ UNCHANGED served

(* consume, batch after batch in the order of the products: what it brought,  *)
(* and, when it was answered, what it did not bring.                        *)
Consume ==
    /\ Calling("gather") /\ threads # <<>> /\ threads[1].state \in {"answered", "failed"}
    /\ LET asked == {threads[1].batch[i] : i \in DOMAIN threads[1].batch} IN
       IF threads[1].state = "answered"
       THEN /\ Settle(InsertAll(entries, threads[1].batch))
            /\ call' = [call EXCEPT !.result = @ \cup (asked \cap InCatalog), !.answered = TRUE]
       ELSE call' = [call EXCEPT !.failed = @ \cup asked] /\ UNCHANGED <<entries, charged>>
    /\ threads' = Tail(threads)
    /\ UNCHANGED served

NextWindow ==
    /\ Calling("gather") /\ threads = <<>> /\ call' = [call EXCEPT !.pc = "window"]
    /\ UNCHANGED <<entries, charged, threads, served>>

(* Every batch has been tried: an error when all have failed and nothing is  *)
(* known, the answer otherwise.                                             *)
AnswerCall ==
    /\ Calling("window") /\ call.missing = <<>>
    /\ Settle(Pruned)
    /\ served' = IF call.failed # {} /\ ~call.answered /\ call.result = {} THEN Nothing
                 ELSE [asked |-> call.asked, result |-> call.result, failed |-> call.failed]
    /\ call' = NoCall
    /\ UNCHANGED threads

(* Cancelled while it waits for a thread: its batches are left to end, and    *)
(* another cancellation meanwhile changes nothing.                          *)
CancelCall ==
    /\ call.pc \in {"prepare", "gather"}
    /\ call' = IF Calling("prepare") THEN NoCall ELSE [call EXCEPT !.pc = "cleanup"]
    /\ IF Calling("prepare") THEN Settle(Pruned) ELSE UNCHANGED <<entries, charged>>
    /\ UNCHANGED <<threads, served>>
CleanUpCall ==
    /\ Calling("cleanup") /\ \A n \in DOMAIN threads : threads[n].state # "running"
    /\ call' = NoCall /\ threads' = <<>>
    /\ UNCHANGED <<entries, charged, served>>

(* Half an hour passes for an entry.                                        *)
InfoAges ==
    /\ \E i \in DOMAIN entries : entries[i].fresh /\ entries' = [entries EXCEPT ![i].fresh = FALSE]
    /\ UNCHANGED <<charged, call, threads, served>>

InfoNext ==
    \/ Admit \/ Prepare \/ Window \/ BatchEnds \/ Consume \/ NextWindow \/ AnswerCall
    \/ CancelCall \/ CleanUpCall \/ InfoAges
InfoSpec == InfoInit /\ [][InfoNext]_infoVars

---------------------------------------------------------- (* Properties *)
InfoTypeOK ==
    /\ entries \in Seq([product : Products, found : BOOLEAN, fresh : BOOLEAN]) /\ charged \in Int
    /\ call \in {NoCall} \cup
         [pc : {"prepare", "window", "gather", "cleanup"}, asked : SUBSET Products,
          missing : Seq(Products), result : SUBSET Products, failed : SUBSET Products,
          answered : BOOLEAN]
    /\ threads \in Seq([batch : Seq(Products), state : {"running", "answered", "failed"}])
    /\ served \in [asked : SUBSET Products, result : SUBSET Products, failed : SUBSET Products]

(* A report misses a product that CatalogVR knows only when the very batch    *)
(* that asked for it failed, and what failed is asked again next time: no    *)
(* failure and no cancellation leaves a "does not exist" in the cache.  The  *)
(* cache stays within its limit and its account is true, and no thread of a  *)
(* call outlives its admission.                                             *)
InfoSound ==
    /\ served.asked \cap InCatalog \subseteq served.result \cup served.failed
    /\ \A i \in DOMAIN entries : entries[i].product \in InCatalog => entries[i].found
    /\ \A p \in Products : Cardinality(EntriesOf(p)) <= 1
    /\ charged = Len(entries) /\ Len(entries) <= MaxEntries
    /\ Calling("none") => threads = <<>>
=============================================================================
