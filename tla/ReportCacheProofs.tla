-------------------------- MODULE ReportCacheProofs --------------------------
(***************************************************************************)
(* One heavy operation at a time, a cache within its limits and answers      *)
(* that are not stale, for any number of requests, processes, waiters,       *)
(* entries and bytes.                                                        *)
(***************************************************************************)
EXTENDS ReportCache, SqlProofs, SequenceTheorems

-----------------------------------------------------------------------------
(* The invariant, in parts.                                                  *)

Versions == [current : Nat, comparison : Nat, catalog : Nat, top : Nat, began : Nat]
Asked    == Kinds \union {"report"}
Keys     == Asked \X Nat \X Nat
Entry    == [key : Keys, data : Versions, size : 1..MaxEntryBytes, expired : BOOLEAN]
Request  == [pc : Pcs, kind : Asked, since : Nat, snapshot : Versions, key : Keys \union {NoKey},
             generation : Nat, data : Versions, cancels : Nat]

(* A change that a process has made and not yet told its cache of is newer   *)
(* than every change the cache has been told of.                             *)
WorldInv ==
    /\ local \in BOOLEAN /\ catalog \in Nat \ {0} /\ moves \in 0..MaxMoves
    /\ sales \in [top : Nat, next : Nat, version : Nat]
    /\ sales.next >= 2 /\ sales.top \in {sales.next - 1, sales.next - 2}
    /\ known \in [Processes -> Nat] /\ told \in [Processes -> Nat]
    /\ \A p \in Processes :
          /\ known[p] <= sales.version /\ told[p] <= sales.version
          /\ told[p] # 0 => known[p] <= told[p]

RequestInv ==
    /\ req \in [Requests -> Request] /\ generation \in [Processes -> Nat]
    /\ \A r \in Requests :
          /\ req[r].snapshot \in Data /\ req[r].data \in Data
          /\ req[r].since <= known[Home[r]] /\ req[r].generation <= generation[Home[r]]

(* Who may hold which lock, and who runs what under it.                      *)
InSlot  == Pcs \ (Gone \union Waiting)
Covered == Pcs \ (Gone \union {"loop"})
QueueInv ==
    /\ queue \in [Processes -> Seq(Requests)]
    /\ \A p \in Processes : \A i \in DOMAIN queue[p] :
          Home[queue[p][i]] = p /\ req[queue[p][i]].pc \notin Gone
    /\ \A p \in Processes : \A i, j \in DOMAIN queue[p] : queue[p][i] = queue[p][j] => i = j
    /\ \A r \in Requests : req[r].pc \notin Gone =>
          \E i \in DOMAIN queue[Home[r]] : queue[Home[r]][i] = r
    /\ \A r \in Requests : req[r].pc \in Covered => queue[Home[r]][1] = r

SlotInv ==
    /\ file \in Requests \union {Nobody}
    /\ \A r \in Requests : req[r].pc \in InSlot <=> file = r
    /\ threads \subseteq {r \in Requests : req[r].pc \in Computing \union {"drain"}}
    /\ open \subseteq {r \in Requests : req[r].pc \in {"transaction", "rollback", "close", "left"}}

AtHome(p, S) == {r \in Requests : Home[r] = p /\ req[r].pc \in S}
WaitersInv ==
    /\ waiters \in [Processes -> Nat]
    /\ \A p \in Processes :
          waiters[p] = Cardinality(AtHome(p, Waiting)) /\ waiters[p] <= MaxWaiters

(* What a kept data set must say.                                            *)
Usable(p, e) ==
    IF local
    THEN /\ e.data.current = e.data.comparison /\ e.key[2] = e.data.top /\ e.key[3] = e.data.catalog
         /\ known[p] <= e.data.began
    ELSE known[p] <= e.data.current /\ known[p] <= e.data.comparison
CacheInv ==
    /\ cache \in [Processes -> Seq(Entry)] /\ bytes \in [Processes -> Nat]
    /\ \A p \in Processes :
          /\ \A i, j \in DOMAIN cache[p] : cache[p][i].key = cache[p][j].key => i = j
          /\ \A i \in DOMAIN cache[p] : cache[p][i].data \in Data /\ Usable(p, cache[p][i])
          /\ Len(cache[p]) <= MaxEntries
          /\ bytes[p] = BytesOf(cache[p]) /\ bytes[p] <= MaxTotalBytes

(* What a loader has read so far, and how often a request was cancelled that *)
(* has not waited for its rollback or for the end of its session.            *)
Read(r, version) ==
    req[r].since <= version /\ (Unchanged(r) => known[Home[r]] <= version)
Reading(r) ==
    LET data == req[r].data
        seen == req[r].snapshot
    IN  /\ req[r].pc = "close" => req[r].cancels >= 1
        /\ req[r].pc = "left" => req[r].cancels >= 2
        /\ seen.current = seen.comparison
        /\ req[r].pc \in {"current", "comparison", "merge", "store"} =>
              req[r].key = Key(r, seen.top, seen.catalog) /\ Read(r, data.began)
        /\ req[r].pc \in {"comparison", "merge", "store"} =>
              IF local THEN data.current = seen.current /\ data.top = seen.top
              ELSE Read(r, data.current)
        /\ req[r].pc \in {"merge", "store"} =>
              IF local THEN data.comparison = seen.comparison /\ data.catalog = seen.catalog
              ELSE Read(r, data.comparison)
        /\ req[r].pc = "answer" =>
              IF local THEN /\ data.current = data.comparison
                            /\ data.top = seen.top /\ data.catalog = seen.catalog
                            /\ req[r].since <= data.began
              ELSE req[r].since <= data.current /\ req[r].since <= data.comparison
LoaderInv == \A r \in Requests : Reading(r)

Inv == WorldInv /\ RequestInv /\ QueueInv /\ SlotInv /\ WaitersInv /\ CacheInv /\ LoaderInv

-----------------------------------------------------------------------------
(* Lists: an element leaves, entries leave from the front, one is appended.  *)

LEMMA RemoveAtFacts ==
    ASSUME NEW S, NEW s \in Seq(S), NEW k \in 1..Len(s)
    PROVE  /\ RemoveAt(s, k) \in Seq(S) /\ Len(RemoveAt(s, k)) = Len(s) - 1
           /\ \A i \in 1..(Len(s) - 1) : RemoveAt(s, k)[i] = IF i < k THEN s[i] ELSE s[i + 1]
<1> DEFINE front == SubSeq(s, 1, k - 1)
           back == SubSeq(s, k + 1, Len(s))
<1>1. Len(s) \in Nat /\ \A i \in 1..Len(s) : s[i] \in S
  BY ElementOfSeq, LenProperties
<1>2. front \in Seq(S) /\ Len(front) = k - 1 /\ \A i \in 1..(k - 1) : front[i] = s[i]
  <2>1. /\ front \in Seq(S) /\ Len(front) = (IF 1 <= k - 1 THEN (k - 1) - 1 + 1 ELSE 0)
        /\ \A i \in 1..((k - 1) - 1 + 1) : front[i] = s[1 + i - 1]
    BY <1>1, SubSeqProperties
  <2> HIDE DEF front
  <2> QED BY <1>1, <2>1
<1>3. back \in Seq(S) /\ Len(back) = Len(s) - k /\ \A i \in 1..(Len(s) - k) : back[i] = s[k + i]
  <2>1. /\ back \in Seq(S)
        /\ Len(back) = (IF k + 1 <= Len(s) THEN Len(s) - (k + 1) + 1 ELSE 0)
        /\ \A i \in 1..(Len(s) - (k + 1) + 1) : back[i] = s[(k + 1) + i - 1]
    BY <1>1, SubSeqProperties
  <2> HIDE DEF back
  <2> QED BY <1>1, <2>1
<1>4. RemoveAt(s, k) = front \o back
  BY DEF RemoveAt
<1> HIDE DEF front, back
<1>5. /\ front \o back \in Seq(S) /\ Len(front \o back) = Len(front) + Len(back)
      /\ \A i \in 1..(Len(front) + Len(back)) :
            (front \o back)[i] = IF i <= Len(front) THEN front[i] ELSE back[i - Len(front)]
  BY <1>2, <1>3, ConcatProperties
<1> QED BY <1>1, <1>2, <1>3, <1>4, <1>5

(* A request leaves a queue in which it stands at most once.                 *)
LEMMA WithoutFacts ==
    ASSUME NEW S, NEW s \in Seq(S), NEW x,
           \A i, j \in DOMAIN s : s[i] = s[j] => i = j
    PROVE  \/ x \notin Range(s) /\ Without(s, x) = s
           \/ \E k \in DOMAIN s : s[k] = x /\ Without(s, x) = RemoveAt(s, k)
<1>1. DOMAIN s = 1..Len(s) /\ Len(s) \in Nat
  BY LenProperties
<1>2. CASE \A i \in 1..Len(s) : s[i] # x
  BY <1>1, <1>2 DEF Without, RemoveFirst, Range
<1>3. CASE \E i \in 1..Len(s) : s[i] = x
  <2>1. PICK k \in 1..Len(s) : s[k] = x
    BY <1>3
  <2>2. {i \in 1..Len(s) : s[i] = x} = {k}
    BY <1>1, <2>1
  <2>3. Min({k}) = k
    BY <1>1 DEF Min
  <2>4. Without(s, x) = RemoveAt(s, k)
    BY <1>3, <2>2, <2>3 DEF Without, RemoveFirst, SelectInSeq
  <2> QED BY <1>1, <2>1, <2>4
<1> QED BY <1>2, <1>3

LEMMA OthersFacts ==
    ASSUME NEW S, NEW s \in Seq(S), NEW key,
           \A i, j \in DOMAIN s : s[i].key = s[j].key => i = j
    PROVE  \/ (\A i \in DOMAIN s : s[i].key # key) /\ Others(s, key) = s /\ Keyed(s, key) = NoEntry
           \/ \E k \in DOMAIN s : /\ s[k].key = key /\ Others(s, key) = RemoveAt(s, k)
                                  /\ Keyed(s, key) = s[k]
<1>1. DOMAIN s = 1..Len(s) /\ Len(s) \in Nat
  BY LenProperties
<1>2. CASE \A i \in 1..Len(s) : s[i].key # key
  BY <1>1, <1>2 DEF Others, RemoveFirstMatch, Keyed
<1>3. CASE \E i \in 1..Len(s) : s[i].key = key
  <2>1. PICK k \in 1..Len(s) : s[k].key = key
    BY <1>3
  <2>2. {i \in 1..Len(s) : s[i].key = key} = {k}
    BY <1>1, <2>1
  <2>3. Min({k}) = k
    BY <1>1 DEF Min
  <2>4. Others(s, key) = RemoveAt(s, k)
    BY <1>3, <2>2, <2>3 DEF Others, RemoveFirstMatch, SelectInSeq
  <2>5. Keyed(s, key) = s[k]
    BY <1>1, <2>1 DEF Keyed
  <2> QED BY <1>1, <2>1, <2>4, <2>5
<1> QED BY <1>2, <1>3

(* The running sums of the sizes, whatever the list.                         *)
Sized(S) == \A e \in S : e.size \in Nat
RunningSum(f, s, n) ==
    f[0] = 0 /\ \A i \in 1..n : f[i] = f[i - 1] + s[i].size

LEMMA SumsExist ==
    ASSUME NEW S, Sized(S), NEW s \in Seq(S)
    PROVE  \E f \in [0..Len(s) -> Nat] : RunningSum(f, s, Len(s))
<1> DEFINE U == {n \in Nat : n <= Len(s) /\ ~\E f \in [0..n -> Nat] : RunningSum(f, s, n)}
<1>1. Len(s) \in Nat /\ \A i \in 1..Len(s) : s[i] \in S /\ s[i].size \in Nat
  BY ElementOfSeq, LenProperties DEF Sized
<1>2. SUFFICES ASSUME U # {} PROVE FALSE
  BY <1>1
<1>3. PICK n \in U : \A m \in U : n <= m
  <2>1. U \in SUBSET Nat
    OBVIOUS
  <2> HIDE DEF U
  <2> QED BY <1>2, <2>1, FirstRow
<1>4. n # 0
  <2>1. [i \in 0..0 |-> 0] \in [0..0 -> Nat] /\ RunningSum([i \in 0..0 |-> 0], s, 0)
    BY DEF RunningSum
  <2> QED BY <1>3, <2>1
<1>5. PICK f \in [0..(n - 1) -> Nat] : RunningSum(f, s, n - 1)
  <2>1. n \in Nat /\ n <= Len(s)
    BY <1>3
  <2>2. n - 1 \notin U
    <3> HIDE DEF U
    <3> QED BY <1>3, <2>1
  <2>3. n - 1 \in Nat /\ n - 1 <= Len(s)
    BY <1>1, <1>4, <2>1
  <2> QED BY <2>2, <2>3
<1> DEFINE g == [i \in 0..n |-> IF i = n THEN f[n - 1] + s[n].size ELSE f[i]]
<1>6. g \in [0..n -> Nat]
  BY <1>1, <1>3, <1>4, <1>5
<1>7. RunningSum(g, s, n)
  BY <1>1, <1>3, <1>4, <1>5 DEF RunningSum
<1> HIDE DEF g
<1> QED BY <1>3, <1>6, <1>7

LEMMA SumsFacts ==
    ASSUME NEW S, Sized(S), NEW s \in Seq(S)
    PROVE  Sums(s) \in [0..Len(s) -> Nat] /\ RunningSum(Sums(s), s, Len(s))
<1>1. PICK f \in [0..Len(s) -> Nat] : RunningSum(f, s, Len(s))
  BY SumsExist
<1>2. Len(s) \in Nat
  BY LenProperties
<1>3. f = [n \in 0..Len(s) |-> IF n = 0 THEN 0 ELSE f[n - 1] + s[n].size]
  <2>1. \A n \in 0..Len(s) : f[n] = IF n = 0 THEN 0 ELSE f[n - 1] + s[n].size
    BY <1>1, <1>2 DEF RunningSum
  <2> QED BY <1>1, <2>1
<1>4. Sums(s) = [n \in 0..Len(s) |-> IF n = 0 THEN 0 ELSE Sums(s)[n - 1] + s[n].size]
  BY <1>3 DEF Sums
<1> DEFINE g == Sums(s)
           U == {n \in Nat : n <= Len(s) /\ g[n] # f[n]}
<1>5. g[0] = 0 /\ \A n \in 1..Len(s) : g[n] = g[n - 1] + s[n].size
  <2> HIDE DEF g
  <2> QED BY <1>2, <1>4 DEF g
<1>6. DOMAIN g = 0..Len(s)
  BY <1>4
<1> HIDE DEF g
<1>7. U = {}
  <2>1. SUFFICES ASSUME U # {} PROVE FALSE
    OBVIOUS
  <2>2. PICK n \in U : \A m \in U : n <= m
    <3>1. U \in SUBSET Nat
      OBVIOUS
    <3> HIDE DEF U
    <3> QED BY <2>1, <3>1, FirstRow
  <2>3. n # 0
    BY <1>1, <1>5, <2>2 DEF RunningSum
  <2>4. g[n - 1] = f[n - 1]
    BY <1>2, <2>2, <2>3
  <2> QED BY <1>1, <1>2, <1>5, <2>2, <2>3, <2>4 DEF RunningSum
<1>8. \A n \in 0..Len(s) : g[n] = f[n]
  BY <1>2, <1>7
<1>9. g = f
  BY <1>1, <1>4, <1>6, <1>8 DEF g
<1> QED BY <1>1, <1>9 DEF g

(* There is no other running sum.                                            *)
LEMMA SumsUnique ==
    ASSUME NEW S, Sized(S), NEW s \in Seq(S), NEW f \in [0..Len(s) -> Int], RunningSum(f, s, Len(s))
    PROVE  f[Len(s)] = BytesOf(s)
<1> DEFINE g == Sums(s)
           U == {n \in Nat : n <= Len(s) /\ g[n] # f[n]}
<1>1. Len(s) \in Nat /\ \A i \in 1..Len(s) : s[i] \in S /\ s[i].size \in Nat
  BY ElementOfSeq, LenProperties DEF Sized
<1>2. g \in [0..Len(s) -> Nat] /\ RunningSum(g, s, Len(s))
  BY SumsFacts
<1> HIDE DEF g
<1>3. U = {}
  <2>1. SUFFICES ASSUME U # {} PROVE FALSE
    OBVIOUS
  <2>2. PICK n \in U : \A m \in U : n <= m
    <3>1. U \in SUBSET Nat
      OBVIOUS
    <3> HIDE DEF U
    <3> QED BY <2>1, <3>1, FirstRow
  <2>3. n # 0
    BY <1>2, <2>2 DEF RunningSum
  <2>4. g[n - 1] = f[n - 1]
    BY <1>1, <2>2, <2>3
  <2> QED BY <1>1, <1>2, <2>2, <2>3, <2>4 DEF RunningSum
<1> QED BY <1>1, <1>3 DEF BytesOf, g

(* What the bytes of a list are when an entry leaves it, when the first n    *)
(* leave it, and when one is appended.                                       *)
LEMMA BytesWithout ==
    ASSUME NEW S, Sized(S), NEW s \in Seq(S), NEW k \in 1..Len(s)
    PROVE  BytesOf(RemoveAt(s, k)) = BytesOf(s) - s[k].size
<1> DEFINE t == RemoveAt(s, k)
           g == Sums(s)
           f == [i \in 0..Len(t) |-> IF i < k THEN g[i] ELSE g[i + 1] - s[k].size]
<1>1. Len(s) \in Nat /\ \A i \in 1..Len(s) : s[i] \in S /\ s[i].size \in Nat
  BY ElementOfSeq, LenProperties DEF Sized
<1>2. /\ t \in Seq(S) /\ Len(t) = Len(s) - 1
      /\ \A i \in 1..(Len(s) - 1) : t[i] = IF i < k THEN s[i] ELSE s[i + 1]
  BY RemoveAtFacts
<1>3. g \in [0..Len(s) -> Nat] /\ RunningSum(g, s, Len(s))
  BY SumsFacts
<1> HIDE DEF t, g
<1>4. f \in [0..Len(t) -> Int]
  BY <1>1, <1>2, <1>3
<1>5. RunningSum(f, t, Len(t))
  <2>1. f[0] = 0
    BY <1>1, <1>2, <1>3 DEF RunningSum
  <2>2. ASSUME NEW i \in 1..Len(t) PROVE f[i] = f[i - 1] + t[i].size
    <3>1. i \in 1..Len(s) /\ i + 1 \in 1..Len(s) /\ i - 1 \in 0..Len(t)
      BY <1>1, <1>2
    <3>2. g[i] = g[i - 1] + s[i].size /\ g[i + 1] = g[i] + s[i + 1].size
      BY <1>1, <1>3, <3>1 DEF RunningSum
    <3>3. CASE i < k
      BY <1>1, <1>2, <1>3, <3>1, <3>2, <3>3
    <3>4. CASE i = k
      <4>1. f[i] = g[k + 1] - s[k].size /\ f[i - 1] = g[k - 1] /\ t[i] = s[k + 1]
        BY <1>1, <1>2, <3>1, <3>4
      <4>2. g[k - 1] \in Nat /\ g[k] \in Nat /\ s[k].size \in Nat /\ s[k + 1].size \in Nat
        <5>1. k - 1 \in 0..Len(s) /\ k \in 0..Len(s) /\ k + 1 \in 1..Len(s)
          BY <1>1, <3>1, <3>4
        <5> QED BY <1>1, <1>3, <5>1
      <4> QED BY SMTT(60), <3>2, <3>4, <4>1, <4>2
    <3>5. CASE i > k
      BY <1>1, <1>2, <1>3, <3>1, <3>2, <3>5
    <3> QED BY <1>1, <3>3, <3>4, <3>5
  <2> HIDE DEF f
  <2> QED BY <2>1, <2>2 DEF RunningSum
<1>6. f[Len(t)] = BytesOf(t)
  <2> HIDE DEF f
  <2> QED BY <1>2, <1>4, <1>5, SumsUnique
<1>7. f[Len(t)] = g[Len(s)] - s[k].size
  <2>1. CASE k = Len(s)
    <3>1. g[k] = g[k - 1] + s[k].size
      BY <1>1, <1>3, <2>1 DEF RunningSum
    <3>2. g[k] \in Nat /\ g[k - 1] \in Nat /\ s[k].size \in Nat
      <4>1. k \in 0..Len(s) /\ k - 1 \in 0..Len(s)
        BY <1>1, <2>1
      <4> QED BY <1>1, <1>3, <4>1
    <3>3. f[Len(t)] = g[k - 1]
      BY <1>1, <1>2, <2>1
    <3> QED BY <2>1, <3>1, <3>2, <3>3
  <2>2. CASE k # Len(s)
    BY <1>1, <1>2, <1>3, <2>2
  <2> QED BY <2>1, <2>2
<1> QED BY <1>6, <1>7 DEF t, g, BytesOf

LEMMA BytesOfRest ==
    ASSUME NEW S, Sized(S), NEW s \in Seq(S), NEW n \in 0..Len(s)
    PROVE  BytesOf(SubSeq(s, n + 1, Len(s))) = BytesOf(s) - Sums(s)[n]
<1> DEFINE t == SubSeq(s, n + 1, Len(s))
           g == Sums(s)
           f == [i \in 0..Len(t) |-> g[n + i] - g[n]]
<1>1. Len(s) \in Nat /\ \A i \in 1..Len(s) : s[i] \in S /\ s[i].size \in Nat
  BY ElementOfSeq, LenProperties DEF Sized
<1>2. t \in Seq(S) /\ Len(t) = Len(s) - n /\ \A i \in 1..Len(t) : t[i] = s[n + i]
  <2>1. /\ t \in Seq(S) /\ Len(t) = (IF n + 1 <= Len(s) THEN Len(s) - (n + 1) + 1 ELSE 0)
        /\ \A i \in 1..(Len(s) - (n + 1) + 1) : t[i] = s[(n + 1) + i - 1]
    BY <1>1, SubSeqProperties
  <2> HIDE DEF t
  <2> QED BY <1>1, <2>1
<1>3. g \in [0..Len(s) -> Nat] /\ RunningSum(g, s, Len(s))
  BY SumsFacts
<1> HIDE DEF t, g
<1>4. f \in [0..Len(t) -> Int]
  <2>1. n \in 0..Len(s) /\ \A i \in 0..Len(t) : n + i \in 0..Len(s)
    BY <1>1, <1>2
  <2>2. \A i \in 0..Len(t) : g[n + i] - g[n] \in Int
    <3>1. \A j \in 0..Len(s) : g[j] \in Nat
      BY <1>3
    <3>2. ASSUME NEW i \in 0..Len(t) PROVE g[n + i] - g[n] \in Int
      <4>1. g[n + i] \in Nat /\ g[n] \in Nat
        BY <2>1, <3>1
      <4> QED BY <4>1
    <3> QED BY <3>2
  <2> QED BY <2>2
<1>5. RunningSum(f, t, Len(t))
  <2>1. f[0] = 0
    BY <1>1, <1>2, <1>3
  <2>2. ASSUME NEW i \in 1..Len(t) PROVE f[i] = f[i - 1] + t[i].size
    <3>1. n + i \in 1..Len(s) /\ (n + i) - 1 = n + (i - 1) /\ i - 1 \in 0..Len(t) /\ i \in 0..Len(t)
      BY <1>1, <1>2
    <3>2. g[n + i] = g[n + (i - 1)] + s[n + i].size
      BY <1>1, <1>3, <3>1 DEF RunningSum
    <3>3. g[n] \in Nat /\ g[n + (i - 1)] \in Nat /\ s[n + i].size \in Nat
      <4>1. n + (i - 1) \in 0..Len(s)
        BY <1>1, <1>2, <3>1
      <4> QED BY <1>1, <1>3, <3>1, <4>1
    <3> QED BY <1>2, <3>1, <3>2, <3>3
  <2> HIDE DEF f
  <2> QED BY <2>1, <2>2 DEF RunningSum
<1>6. f[Len(t)] = BytesOf(t)
  <2> HIDE DEF f
  <2> QED BY <1>2, <1>4, <1>5, SumsUnique
<1>7. f[Len(t)] = g[Len(s)] - g[n]
  BY <1>1, <1>2, <1>3
<1> QED BY <1>6, <1>7 DEF t, g, BytesOf

LEMMA BytesAppended ==
    ASSUME NEW S, Sized(S), NEW s \in Seq(S), NEW e \in S
    PROVE  BytesOf(Append(s, e)) = BytesOf(s) + e.size
<1> DEFINE t == Append(s, e)
           g == Sums(s)
           f == [i \in 0..Len(t) |-> IF i <= Len(s) THEN g[i] ELSE g[Len(s)] + e.size]
<1>1. Len(s) \in Nat /\ e.size \in Nat
  BY LenProperties DEF Sized
<1>2. t \in Seq(S) /\ Len(t) = Len(s) + 1 /\ t[Len(s) + 1] = e /\ \A i \in 1..Len(s) : t[i] = s[i]
  BY AppendProperties
<1>3. g \in [0..Len(s) -> Nat] /\ RunningSum(g, s, Len(s))
  BY SumsFacts
<1> HIDE DEF t, g
<1>4. f \in [0..Len(t) -> Int]
  BY <1>1, <1>2, <1>3
<1>5. RunningSum(f, t, Len(t))
  BY <1>1, <1>2, <1>3 DEF RunningSum
<1>6. f[Len(t)] = BytesOf(t)
  <2> HIDE DEF f
  <2> QED BY <1>2, <1>4, <1>5, SumsUnique
<1>7. f[Len(t)] = g[Len(s)] + e.size
  BY <1>1, <1>2, <1>3
<1> QED BY <1>6, <1>7 DEF t, g, BytesOf

LEMMA BytesOfNothing ==
    ASSUME NEW S, Sized(S)
    PROVE  BytesOf(<<>>) = 0
<1>1. <<>> \in Seq(S) /\ Len(<<>>) = 0
  BY EmptySeq
<1> QED BY <1>1, SumsFacts DEF BytesOf, RunningSum

(* Eviction ends, and the new entry then fits.                               *)
LEMMA RoomFacts ==
    ASSUME NEW S, NEW s \in Seq(S), NEW held, NEW size
    PROVE  MakeRoom(s, held, size) \in 0..Len(s) /\ Fits(s, held, size, MakeRoom(s, held, size))
<1> DEFINE U == {n \in 0..Len(s) : Fits(s, held, size, n)}
<1>1. Len(s) \in Nat
  BY LenProperties
<1>2. Len(s) \in U
  BY <1>1 DEF Fits
<1>3. PICK n \in U : \A m \in U : n <= m
  <2>1. U \in SUBSET Nat
    BY <1>1
  <2> HIDE DEF U
  <2> QED BY <1>2, <2>1, FirstRow
<1>4. \A m \in 0..(n - 1) : ~Fits(s, held, size, m)
  BY <1>1, <1>3
<1> QED BY <1>3, <1>4 DEF MakeRoom

-----------------------------------------------------------------------------
(* The invariant holds at the start.                                         *)

LEMMA InitInv == Init => Inv
<1> SUFFICES ASSUME Init PROVE Inv
  OBVIOUS
<1> USE CacheAssumption
<1>1. WorldInv
  BY DEF Init, WorldInv
<1>2. /\ req \in [Requests -> Request]
      /\ \A r \in Requests : req[r] = NewRequest
  BY DEF Init, NewRequest, Request, Pcs, Gone, Asked, Versions, NoData
<1>3. NoData \in Data
  BY DEF Init, NoData, Data
<1>4. RequestInv
  BY <1>2, <1>3 DEF Init, RequestInv, NewRequest
<1>5. QueueInv
  <2>1. <<>> \in Seq(Requests) /\ Len(<<>>) = 0 /\ DOMAIN <<>> = {}
    BY EmptySeq, LenProperties
  <2> QED BY <1>2, <2>1 DEF Init, QueueInv, NewRequest, Gone, Covered
<1>6. SlotInv
  <2>1. Nobody \notin Requests
    BY DEF Nobody, Requests
  <2> QED BY <1>2, <2>1 DEF Init, SlotInv, NewRequest, Gone, InSlot
<1>7. WaitersInv
  <2>1. \A p \in Processes : AtHome(p, Waiting) = {}
    BY <1>2 DEF AtHome, Waiting, NewRequest
  <2>2. Cardinality({}) = 0
    BY FS_EmptySet
  <2>3. \A p \in Processes : Cardinality(AtHome(p, Waiting)) = 0
    BY <2>1, <2>2
  <2> QED BY <2>3 DEF Init, WaitersInv
<1>8. CacheInv
  <2>1. <<>> \in Seq(Entry) /\ Len(<<>>) = 0 /\ DOMAIN <<>> = {}
    BY EmptySeq, LenProperties
  <2>2. Sized(Entry)
    BY DEF Sized, Entry
  <2>3. BytesOf(<<>>) = 0
    BY <2>2, BytesOfNothing
  <2> QED BY <2>1, <2>3 DEF Init, CacheInv
<1>9. LoaderInv
  BY <1>2 DEF Init, LoaderInv, Reading, NewRequest, NoData
<1> QED BY <1>1, <1>4, <1>5, <1>6, <1>7, <1>8, <1>9 DEF Inv

-----------------------------------------------------------------------------
(* The world moves: versions only grow, what was known stays known.          *)

LEMMA DataGrows ==
    ASSUME WorldInv, sales' \in [top : Nat, next : Nat, version : Nat], catalog' \in Nat,
           sales.version <= sales'.version, sales.next <= sales'.next, catalog <= catalog'
    PROVE  Data \subseteq Data'
BY DEF WorldInv, Data

LEMMA CommitInv ==
    ASSUME Inv, NEW p \in Processes, NEW top, NEW next, Commit(p, top, next), next \in Nat,
           next >= sales.next, top \in {next - 1, next - 2}
    PROVE  Inv'
<1> USE DEF Inv
<1>1. /\ sales' = [top |-> top, next |-> next, version |-> sales.version + 1]
      /\ told' = [told EXCEPT ![p] = sales.version + 1] /\ moves' \in 0..MaxMoves
      /\ UNCHANGED <<local, catalog, known, req, queue, file, waiters, threads, open, cache, bytes,
                     generation>>
  BY CacheAssumption DEF Commit, Move, admission, caches, WorldInv
<1>2. WorldInv'
  BY <1>1 DEF WorldInv
<1>3. Data \subseteq Data'
  BY <1>1, <1>2, DataGrows DEF WorldInv
<1>4. RequestInv'
  BY <1>1, <1>3 DEF RequestInv
<1>5. QueueInv' /\ SlotInv' /\ WaitersInv'
  <2>1. QueueInv'
    BY <1>1 DEF QueueInv
  <2>2. SlotInv'
    BY <1>1 DEF SlotInv
  <2> QED BY <1>1, <2>1, <2>2 DEF WaitersInv, AtHome
<1>6. CacheInv'
  <2>1. \A q \in Processes : \A i \in DOMAIN cache[q] :
           cache[q][i].data \in Data' /\ Usable(q, cache[q][i])'
    BY <1>1, <1>3 DEF CacheInv, Usable
  <2> QED BY <1>1, <2>1 DEF CacheInv
<1>7. LoaderInv'
  BY <1>1 DEF LoaderInv, Reading, Read, Unchanged, Key
<1> QED BY <1>2, <1>4, <1>5, <1>6, <1>7

LEMMA InvalidateInv ==
    ASSUME Inv, NEW p \in Processes, Invalidate(p)
    PROVE  Inv'
<1> USE DEF Inv
<1>1. /\ told[p] # 0
      /\ cache' = [cache EXCEPT ![p] = <<>>] /\ bytes' = [bytes EXCEPT ![p] = 0]
      /\ generation' = [generation EXCEPT ![p] = generation[p] + 1]
      /\ known' = [known EXCEPT ![p] = told[p]] /\ told' = [told EXCEPT ![p] = 0]
      /\ UNCHANGED <<local, sales, catalog, req, queue, file, waiters, threads, open, moves>>
  BY DEF Invalidate, admission
<1>2. WorldInv'
  BY <1>1 DEF WorldInv
<1>3. Data' = Data /\ \A q \in Processes : known[q] <= known'[q]
  BY <1>1 DEF Data, WorldInv
<1>4. \A r \in Requests : Home[r] \in Processes
  BY CacheAssumption
<1>5. RequestInv'
  <2>1. \A q \in Processes : generation[q] <= generation'[q] /\ generation'[q] \in Nat
    BY <1>1 DEF RequestInv
  <2>2. generation' \in [Processes -> Nat]
    BY <1>1 DEF RequestInv
  <2>3. ASSUME NEW r \in Requests
        PROVE  req[r].since <= known'[Home[r]] /\ req[r].generation <= generation'[Home[r]]
    <3>1. req[r].since \in Nat /\ req[r].generation \in Nat
      BY DEF RequestInv, Request
    <3>2. known[Home[r]] \in Nat /\ known'[Home[r]] \in Nat /\ generation[Home[r]] \in Nat
      BY <1>2, <1>4 DEF WorldInv, RequestInv
    <3> QED BY <1>3, <1>4, <2>1, <3>1, <3>2 DEF RequestInv
  <2> QED BY <1>1, <1>3, <2>2, <2>3 DEF RequestInv
<1>6. QueueInv' /\ SlotInv' /\ WaitersInv'
  <2>1. QueueInv'
    BY <1>1 DEF QueueInv
  <2>2. SlotInv'
    BY <1>1 DEF SlotInv
  <2> QED BY <1>1, <2>1, <2>2 DEF WaitersInv, AtHome
<1>7. CacheInv'
  <2>1. <<>> \in Seq(Entry) /\ Len(<<>>) = 0 /\ DOMAIN <<>> = {} /\ BytesOf(<<>>) = 0
    <3>1. Sized(Entry)
      BY DEF Sized, Entry
    <3> QED BY <3>1, EmptySeq, LenProperties, BytesOfNothing
  <2>2. cache' \in [Processes -> Seq(Entry)] /\ bytes' \in [Processes -> Nat]
    BY <1>1, <2>1 DEF CacheInv
  <2>3. ASSUME NEW q \in Processes, q # p
        PROVE  cache'[q] = cache[q] /\ bytes'[q] = bytes[q]
               /\ \A i \in DOMAIN cache[q] : Usable(q, cache[q][i])' <=> Usable(q, cache[q][i])
    BY <1>1, <2>3 DEF CacheInv, WorldInv, Usable
  <2>4. cache'[p] = <<>> /\ bytes'[p] = 0
    BY <1>1 DEF CacheInv
  <2>5. Len(<<>>) <= MaxEntries /\ 0 <= MaxTotalBytes
    BY <2>1, CacheAssumption
  <2>6. ASSUME NEW q \in Processes
        PROVE  /\ \A i, j \in DOMAIN cache'[q] : cache'[q][i].key = cache'[q][j].key => i = j
               /\ \A i \in DOMAIN cache'[q] : cache'[q][i].data \in Data' /\ Usable(q, cache[q][i])'
               /\ Len(cache'[q]) <= MaxEntries
               /\ bytes'[q] = BytesOf(cache'[q]) /\ bytes'[q] <= MaxTotalBytes
    <3>1. CASE q = p
      BY <2>1, <2>4, <2>5, <3>1
    <3>2. CASE q # p
      BY <1>3, <2>3, <3>2 DEF CacheInv
    <3> QED BY <3>1, <3>2
  <2> QED BY <2>2, <2>6 DEF CacheInv
<1>8. LoaderInv'
  <2>1. ASSUME NEW r \in Requests, NEW v \in Nat, Read(r, v) PROVE Read(r, v)'
    <3>1. CASE Home[r] = p
      <4>1. req[r].generation \in Nat /\ generation[p] \in Nat /\ req[r].generation <= generation[p]
        BY <3>1 DEF RequestInv, Request
      <4>2. generation'[p] = generation[p] + 1
        BY <1>1 DEF RequestInv
      <4>3. ~Unchanged(r)'
        BY <1>1, <3>1, <4>1, <4>2 DEF Unchanged
      <4> QED BY <1>1, <2>1, <4>3 DEF Read
    <3>2. CASE Home[r] # p
      BY <1>1, <1>4, <2>1, <3>2 DEF Read, Unchanged, WorldInv, RequestInv
    <3> QED BY <3>1, <3>2
  <2>2. \A r \in Requests : /\ req[r].data.current \in Nat /\ req[r].data.comparison \in Nat
                            /\ req[r].data.began \in Nat
    BY DEF RequestInv, Request, Versions
  <2> QED BY <1>1, <2>1, <2>2 DEF LoaderInv, Reading, Key
<1> QED BY <1>2, <1>5, <1>6, <1>7, <1>8

LEMMA SyncInv ==
    ASSUME Inv, SyncCatalog
    PROVE  Inv'
<1> USE DEF Inv
<1>1. /\ catalog' = catalog + 1 /\ moves' \in 0..MaxMoves
      /\ UNCHANGED <<local, sales, told, known, req, queue, file, waiters, threads, open, cache, bytes,
                     generation>>
  BY CacheAssumption DEF SyncCatalog, Move, admission, caches, WorldInv
<1>2. WorldInv'
  BY <1>1 DEF WorldInv
<1>3. Data \subseteq Data'
  BY <1>1, <1>2, DataGrows DEF WorldInv
<1>4. RequestInv'
  BY <1>1, <1>3 DEF RequestInv
<1>5. QueueInv' /\ SlotInv' /\ WaitersInv'
  <2>1. QueueInv'
    BY <1>1 DEF QueueInv
  <2>2. SlotInv'
    BY <1>1 DEF SlotInv
  <2> QED BY <1>1, <2>1, <2>2 DEF WaitersInv, AtHome
<1>6. CacheInv'
  <2>1. \A q \in Processes : \A i \in DOMAIN cache[q] :
           cache[q][i].data \in Data' /\ Usable(q, cache[q][i])'
    BY <1>1, <1>3 DEF CacheInv, Usable
  <2> QED BY <1>1, <2>1 DEF CacheInv
<1>7. LoaderInv'
  BY <1>1 DEF LoaderInv, Reading, Read, Unchanged, Key
<1> QED BY <1>2, <1>4, <1>5, <1>6, <1>7

LEMMA BytesSame ==
    ASSUME NEW S, Sized(S), NEW s \in Seq(S), NEW t \in Seq(S), Len(t) = Len(s),
           \A i \in 1..Len(s) : t[i].size = s[i].size
    PROVE  BytesOf(t) = BytesOf(s)
<1>1. Sums(s) \in [0..Len(s) -> Nat] /\ RunningSum(Sums(s), s, Len(s))
  BY SumsFacts
<1>2. Sums(s) \in [0..Len(t) -> Int] /\ RunningSum(Sums(s), t, Len(t))
  BY <1>1 DEF RunningSum
<1>3. Sums(s)[Len(t)] = BytesOf(t)
  BY <1>2, SumsUnique
<1> QED BY <1>3 DEF BytesOf

LEMMA ExpireInv ==
    ASSUME Inv, NEW p \in Processes, ExpireEntry(p)
    PROVE  Inv'
<1> USE DEF Inv
<1>1. PICK k \in DOMAIN cache[p] : cache' = [cache EXCEPT ![p][k].expired = TRUE]
  BY DEF ExpireEntry
<1>2. /\ moves' \in 0..MaxMoves
      /\ UNCHANGED <<local, sales, catalog, told, known, req, queue, file, waiters, threads, open,
                     bytes, generation>>
  BY CacheAssumption DEF ExpireEntry, Move, world, admission, WorldInv
<1>3. WorldInv' /\ RequestInv' /\ LoaderInv' /\ Data' = Data
  <2>1. WorldInv'
    BY <1>2 DEF WorldInv
  <2>2. Data' = Data
    BY <1>2 DEF Data
  <2>3. RequestInv'
    BY <1>2, <2>2 DEF RequestInv
  <2>4. LoaderInv'
    BY <1>2 DEF LoaderInv, Reading, Read, Unchanged, Key
  <2> QED BY <2>1, <2>2, <2>3, <2>4
<1>4. QueueInv' /\ SlotInv' /\ WaitersInv'
  <2>1. QueueInv'
    BY <1>2 DEF QueueInv
  <2>2. SlotInv'
    BY <1>2 DEF SlotInv
  <2> QED BY <1>2, <2>1, <2>2 DEF WaitersInv, AtHome
<1>5. CacheInv'
  <2> DEFINE s == cache[p]
             e == [cache[p][k] EXCEPT !.expired = TRUE]
             t == [cache[p] EXCEPT ![k] = e]
  <2>1. cache' = [cache EXCEPT ![p] = t]
    BY <1>1
  <2>2. s \in Seq(Entry) /\ Len(s) \in Nat /\ DOMAIN s = 1..Len(s) /\ k \in 1..Len(s)
    BY <1>1, LenProperties DEF CacheInv
  <2>3. s[k] \in Entry
    BY <2>2, ElementOfSeq
  <2>4. e \in Entry /\ e.key = s[k].key /\ e.data = s[k].data /\ e.size = s[k].size
    BY <2>3 DEF Entry
  <2>5. /\ t \in Seq(Entry) /\ Len(t) = Len(s)
        /\ \A j \in 1..Len(s) : t[j] = IF j = k THEN e ELSE s[j]
    <3> HIDE DEF s, e
    <3> QED BY <2>2, <2>4, ExceptSeq DEF s
  <2>6. DOMAIN t = 1..Len(s)
    BY <2>5, LenProperties
  <2> HIDE DEF e, t
  <2>7. BytesOf(t) = BytesOf(s)
    <3>1. Sized(Entry)
      BY DEF Sized, Entry
    <3>2. \A i \in 1..Len(s) : t[i].size = s[i].size
      BY <2>4, <2>5
    <3> HIDE DEF s
    <3> QED BY <2>2, <2>5, <3>1, <3>2, BytesSame
  <2>8. cache' \in [Processes -> Seq(Entry)] /\ cache'[p] = t
        /\ \A q \in Processes : q # p => cache'[q] = cache[q]
    BY <2>1, <2>5 DEF CacheInv
  <2>9. ASSUME NEW i \in 1..Len(s)
        PROVE  t[i].key = s[i].key /\ t[i].data = s[i].data
    BY <2>4, <2>5
  <2>10. ASSUME NEW q \in Processes
         PROVE  /\ \A i, j \in DOMAIN cache'[q] : cache'[q][i].key = cache'[q][j].key => i = j
                /\ \A i \in DOMAIN cache'[q] : cache'[q][i].data \in Data' /\ Usable(q, cache[q][i])'
                /\ Len(cache'[q]) <= MaxEntries
                /\ bytes'[q] = BytesOf(cache'[q]) /\ bytes'[q] <= MaxTotalBytes
    <3>1. CASE q = p
      <4>1. \A i, j \in DOMAIN t : t[i].key = t[j].key => i = j
        BY <2>2, <2>6, <2>9 DEF CacheInv
      <4>2. \A i \in DOMAIN t : t[i].data \in Data' /\ Usable(p, cache[p][i])'
        <5>1. ASSUME NEW i \in 1..Len(s) PROVE s[i].data \in Data /\ Usable(p, s[i])
          BY <2>2 DEF CacheInv
        <5>2. ASSUME NEW i \in 1..Len(s) PROVE t[i].data \in Data' /\ Usable(p, t[i])
          BY <1>3, <2>9, <5>1 DEF Usable
        <5>3. ASSUME NEW i \in 1..Len(s) PROVE Usable(p, cache[p][i])'
          BY <1>2, <2>8, <5>2 DEF Usable
        <5> QED BY <2>6, <5>2, <5>3
      <4> QED BY <1>2, <2>5, <2>7, <2>8, <3>1, <4>1, <4>2 DEF CacheInv
    <3>2. CASE q # p
      BY <1>2, <1>3, <2>8, <3>2 DEF CacheInv, Usable
    <3> QED BY <3>1, <3>2
  <2> QED BY <1>2, <2>8, <2>10 DEF CacheInv
<1> QED BY <1>3, <1>4, <1>5

-----------------------------------------------------------------------------
(* A step of a request: which locals it changes.                             *)

ChangesOnly(r) ==
    req' \in [Requests -> Request] /\ \A q \in Requests : q # r => req'[q] = req[q]

LEMMA SeenTyped ==
    ASSUME Inv, NEW r \in Requests
    PROVE  Now \in Data /\ Data \subseteq Versions /\ Seen(r) \in Data
<1>1. Now \in Data
  BY DEF Inv, WorldInv, Now, Data
<1>2. Data \subseteq Versions
  BY DEF Inv, WorldInv, Data, Versions
<1> QED BY <1>1, <1>2 DEF Inv, RequestInv, Seen

LEMMA LeaveChanges ==
    ASSUME Inv, NEW r \in Requests, req' = [req EXCEPT ![r] = Ended]
    PROVE  ChangesOnly(r) /\ req'[r] = Ended /\ Ended \in Request /\ NoData \in Data
<1>1. Ended \in Request
  BY DEF Ended, NewRequest, Request, Pcs, Gone, Asked, Versions, NoData
<1>2. NoData \in Data
  BY DEF NoData, Data, Inv, WorldInv
<1> QED BY <1>1, <1>2 DEF Inv, RequestInv, ChangesOnly

LEMMA GotoChanges ==
    ASSUME Inv, NEW r \in Requests, NEW pc \in Pcs, Goto(r, pc)
    PROVE  /\ ChangesOnly(r) /\ req'[r] = [req[r] EXCEPT !.pc = pc]
           /\ req'[r].pc = pc /\ req'[r].kind = req[r].kind /\ req'[r].since = req[r].since
           /\ req'[r].snapshot = req[r].snapshot /\ req'[r].key = req[r].key
           /\ req'[r].generation = req[r].generation /\ req'[r].data = req[r].data
           /\ req'[r].cancels = req[r].cancels
BY DEF Inv, RequestInv, ChangesOnly, Goto, Request

(* Nothing but the place of a request in its slot changes.                   *)
LEMMA SteadyInv ==
    ASSUME Inv, NEW r \in Requests, ChangesOnly(r), UNCHANGED admission,
           req[r].pc \in InSlot, req'[r].pc \in InSlot
    PROVE  QueueInv' /\ WaitersInv' /\ file' \in Requests \union {Nobody}
           /\ \A q \in Requests : req'[q].pc \in InSlot <=> file' = q
<1> USE DEF Inv
<1>1. UNCHANGED <<queue, file, waiters>>
  BY DEF admission
<1>2. \A q \in Requests : /\ req'[q].pc \in InSlot <=> req[q].pc \in InSlot
                          /\ req'[q].pc \in Gone <=> req[q].pc \in Gone
                          /\ req'[q].pc \in Waiting <=> req[q].pc \in Waiting
                          /\ req'[q].pc \in Covered <=> req[q].pc \in Covered
  BY DEF ChangesOnly, InSlot, Gone, Waiting, Covered, Pcs
<1>3. QueueInv'
  <2>1. \A p \in Processes : \A i \in DOMAIN queue[p] : queue[p][i] \in Requests
    BY ElementOfSeq, LenProperties DEF QueueInv
  <2> QED BY <1>1, <1>2, <2>1 DEF QueueInv
<1>4. WaitersInv'
  <2>1. \A p \in Processes : AtHome(p, Waiting)' = AtHome(p, Waiting)
    BY <1>2 DEF AtHome
  <2> QED BY <1>1, <2>1 DEF WaitersInv
<1> QED BY <1>1, <1>2, <1>3, <1>4 DEF SlotInv

(* A request leaves: its place in the queue, the file and its place among    *)
(* the waiters go with it, and nobody else's.                                *)
LEMMA LeaveInv ==
    ASSUME Inv, NEW r \in Requests, Released(r), ChangesOnly(r), req'[r].pc \in Gone, req[r].pc \notin Gone
    PROVE  QueueInv' /\ WaitersInv' /\ file' \in Requests \union {Nobody}
           /\ \A q \in Requests : req'[q].pc \in InSlot <=> file' = q
<1> USE DEF Inv
<1>1. ChangesOnly(r) /\ req'[r].pc \in Gone
  OBVIOUS
<1>2. /\ queue' = [queue EXCEPT ![Home[r]] = Without(queue[Home[r]], r)]
      /\ file' = IF file = r THEN Nobody ELSE file
      /\ waiters' = IF req[r].pc \in Waiting THEN [waiters EXCEPT ![Home[r]] = waiters[Home[r]] - 1]
                    ELSE waiters
  BY DEF Released
<1>3. \A q \in Requests : /\ req[q] \in Request /\ req[q].pc \in Pcs /\ Home[q] \in Processes
                          /\ q # r => req'[q].pc = req[q].pc
  BY <1>1, CacheAssumption DEF ChangesOnly, RequestInv, Request
<1> DEFINE h == Home[r]
           s == queue[h]
           t == Without(s, r)
<1>4. s \in Seq(Requests) /\ Len(s) \in Nat /\ DOMAIN s = 1..Len(s)
      /\ \A i \in 1..Len(s) : s[i] \in Requests
  BY <1>3, ElementOfSeq, LenProperties DEF QueueInv
<1>5. PICK k \in 1..Len(s) : s[k] = r
  BY <1>4 DEF QueueInv
<1>6. \A i, j \in DOMAIN s : s[i] = s[j] => i = j
  BY <1>3 DEF QueueInv
<1>7. t = RemoveAt(s, k)
  <2>1. r \in Range(s)
    BY <1>4, <1>5 DEF Range
  <2>2. \E j \in DOMAIN s : s[j] = r /\ t = RemoveAt(s, j)
    <3> HIDE DEF s
    <3> QED BY <1>4, <1>6, <2>1, WithoutFacts
  <2> QED BY <1>4, <1>5, <1>6, <2>2
<1>8. /\ t \in Seq(Requests) /\ Len(t) = Len(s) - 1 /\ DOMAIN t = 1..(Len(s) - 1)
      /\ \A i \in 1..(Len(s) - 1) : t[i] = IF i < k THEN s[i] ELSE s[i + 1]
  <2>1. /\ t \in Seq(Requests) /\ Len(t) = Len(s) - 1
        /\ \A i \in 1..(Len(s) - 1) : t[i] = IF i < k THEN s[i] ELSE s[i + 1]
    <3> HIDE DEF s, t
    <3> QED BY <1>4, <1>5, <1>7, RemoveAtFacts
  <2> QED BY <2>1, LenProperties
<1>9. queue' \in [Processes -> Seq(Requests)] /\ queue'[h] = t
      /\ \A p \in Processes : p # h => queue'[p] = queue[p]
  BY <1>2, <1>3, <1>8 DEF QueueInv
<1> HIDE DEF t
<1>10. QueueInv'
  <2>1. \A i \in DOMAIN t : t[i] \in Requests /\ t[i] # r /\ \E j \in DOMAIN s : t[i] = s[j]
    <3>1. ASSUME NEW i \in 1..(Len(s) - 1)
          PROVE  \E j \in 1..Len(s) : j # k /\ t[i] = s[j]
      <4>1. i \in 1..Len(s) /\ i + 1 \in 1..Len(s)
        BY <1>4
      <4>2. CASE i < k
        BY <1>8, <4>1, <4>2
      <4>3. CASE ~(i < k)
        <5>1. i + 1 # k /\ t[i] = s[i + 1]
          BY <1>4, <1>8, <4>3
        <5> QED BY <4>1, <5>1
      <4> QED BY <4>2, <4>3
    <3>2. ASSUME NEW i \in 1..(Len(s) - 1) PROVE t[i] \in Requests /\ t[i] # r /\ \E j \in DOMAIN s : t[i] = s[j]
      <4>1. PICK j \in 1..Len(s) : j # k /\ t[i] = s[j]
        BY <3>1
      <4> QED BY <1>4, <1>5, <1>6, <4>1
    <3> QED BY <1>8, <3>2
  <2>2. ASSUME NEW p \in Processes, NEW i \in DOMAIN queue'[p]
        PROVE  Home[queue'[p][i]] = p /\ req'[queue'[p][i]].pc \notin Gone
    <3>1. CASE p = h
      <4>1. PICK j \in DOMAIN s : t[i] = s[j] /\ t[i] # r /\ t[i] \in Requests
        BY <1>9, <2>1, <2>2, <3>1
      <4>2. Home[s[j]] = h /\ req[s[j]].pc \notin Gone
        BY <1>3 DEF QueueInv
      <4> QED BY <1>3, <1>9, <3>1, <4>1, <4>2
    <3>2. CASE p # h
      <4>1. queue'[p][i] \in Requests /\ Home[queue[p][i]] = p
        BY <1>9, <2>2, <3>2, ElementOfSeq, LenProperties DEF QueueInv
      <4> QED BY <1>3, <1>9, <2>2, <3>2, <4>1 DEF QueueInv
    <3> QED BY <3>1, <3>2
  <2>3. ASSUME NEW p \in Processes, NEW i \in DOMAIN queue'[p], NEW j \in DOMAIN queue'[p],
               queue'[p][i] = queue'[p][j]
        PROVE  i = j
    <3>1. CASE p = h
      <4>1. i \in 1..(Len(s) - 1) /\ j \in 1..(Len(s) - 1) /\ t[i] = t[j]
        BY <1>8, <1>9, <2>3, <3>1
      <4>2. PICK u \in 1..Len(s) : t[i] = s[u] /\ u = IF i < k THEN i ELSE i + 1
        BY <1>4, <1>8, <4>1
      <4>3. PICK v \in 1..Len(s) : t[j] = s[v] /\ v = IF j < k THEN j ELSE j + 1
        BY <1>4, <1>8, <4>1
      <4>4. u = v
        BY <1>4, <1>6, <4>1, <4>2, <4>3
      <4> QED BY <4>1, <4>2, <4>3, <4>4
    <3>2. CASE p # h
      BY <1>9, <2>3, <3>2 DEF QueueInv
    <3> QED BY <3>1, <3>2
  <2>4. ASSUME NEW q \in Requests, req'[q].pc \notin Gone
        PROVE  /\ \E i \in DOMAIN queue'[Home[q]] : queue'[Home[q]][i] = q
               /\ req'[q].pc \in Covered => queue'[Home[q]][1] = q
    <3>1. q # r /\ req[q].pc = req'[q].pc
      BY <1>1, <1>3, <2>4 DEF Gone
    <3>2. CASE Home[q] = h
      <4>1. PICK j \in 1..Len(s) : s[j] = q
        BY <1>4, <2>4, <3>1, <3>2 DEF QueueInv
      <4>2. j # k
        BY <1>5, <3>1, <4>1
      <4>3. \E i \in DOMAIN t : t[i] = q
        <5>1. CASE j < k
          <6>1. j \in DOMAIN t /\ t[j] = q
            BY <1>4, <1>5, <1>8, <4>1, <5>1
          <6> QED BY <6>1
        <5>2. CASE j > k
          <6>1. j - 1 \in DOMAIN t /\ t[j - 1] = q
            BY <1>4, <1>5, <1>8, <4>1, <5>2
          <6> QED BY <6>1
        <5> QED BY <1>5, <4>1, <4>2, <5>1, <5>2
      <4>4. ASSUME req[q].pc \in Covered PROVE t[1] = q
        <5>1. s[1] = q
          BY <3>1, <3>2, <4>4 DEF QueueInv
        <5>2. k # 1
          BY <1>5, <3>1, <5>1
        <5> QED BY <1>4, <1>5, <1>8, <5>1, <5>2
      <4> QED BY <1>9, <3>1, <3>2, <4>3, <4>4
    <3>3. CASE Home[q] # h
      BY <1>3, <1>9, <2>4, <3>1, <3>3 DEF QueueInv
    <3> QED BY <3>2, <3>3
  <2>5. \A q \in Requests : req'[q].pc \in Covered => req'[q].pc \notin Gone
    BY DEF Covered
  <2> QED BY <1>9, <2>2, <2>3, <2>4, <2>5 DEF QueueInv
<1>11. WaitersInv'
  <2>1. ASSUME NEW p \in Processes
        PROVE  /\ IsFiniteSet(AtHome(p, Waiting))
               /\ AtHome(p, Waiting)' = AtHome(p, Waiting) \ {r}
    <3>1. AtHome(p, Waiting) \subseteq 1..NumRequests /\ IsFiniteSet(1..NumRequests)
      <4>1. NumRequests \in Int /\ 1 \in Int
        BY CacheAssumption
      <4> QED BY <4>1, FS_Interval DEF AtHome, Requests
    <3>2. IsFiniteSet(AtHome(p, Waiting))
      BY <3>1, FS_Subset
    <3>3. req'[r].pc \notin Waiting
      BY <1>1 DEF Waiting, Gone
    <3> QED BY <1>1, <1>3, <3>2, <3>3 DEF AtHome
  <2>2. ASSUME NEW p \in Processes
        PROVE  waiters'[p] = Cardinality(AtHome(p, Waiting)') /\ waiters'[p] \in Nat
               /\ waiters'[p] <= waiters[p]
    <3>1. CASE r \in AtHome(p, Waiting)
      <4>1. Cardinality(AtHome(p, Waiting) \ {r}) = Cardinality(AtHome(p, Waiting)) - 1
            /\ Cardinality(AtHome(p, Waiting) \ {r}) \in Nat
        BY <2>1, <3>1, FS_RemoveElement, FS_CardinalityType
      <4>2. waiters'[p] = waiters[p] - 1
        BY <1>2, <3>1 DEF AtHome, WaitersInv
      <4>3. Cardinality(AtHome(p, Waiting)') = Cardinality(AtHome(p, Waiting) \ {r})
        BY <2>1
      <4>4. waiters[p] = Cardinality(AtHome(p, Waiting)) /\ waiters[p] \in Nat
        BY DEF WaitersInv
      <4> QED BY <4>1, <4>2, <4>3, <4>4
    <3>2. CASE r \notin AtHome(p, Waiting)
      <4>1. AtHome(p, Waiting) \ {r} = AtHome(p, Waiting)
        BY <3>2
      <4>2. waiters'[p] = waiters[p]
        BY <1>2, <3>2 DEF AtHome, WaitersInv
      <4>3. Cardinality(AtHome(p, Waiting)') = Cardinality(AtHome(p, Waiting))
        BY <2>1, <4>1
      <4>4. waiters[p] = Cardinality(AtHome(p, Waiting)) /\ waiters[p] \in Nat
        BY DEF WaitersInv
      <4> QED BY <4>2, <4>3, <4>4
    <3> QED BY <3>1, <3>2
  <2>3. waiters' = [p \in Processes |-> waiters'[p]]
    BY <1>2 DEF WaitersInv
  <2>4. waiters' \in [Processes -> Nat]
    BY <2>2, <2>3
  <2> QED BY <2>2, <2>4, CacheAssumption DEF WaitersInv
<1>12. file' \in Requests \union {Nobody}
  BY <1>2 DEF SlotInv
<1>13. ASSUME NEW q \in Requests PROVE req'[q].pc \in InSlot <=> file' = q
  <2>1. r # Nobody /\ q # Nobody
    BY DEF Requests, Nobody
  <2>2. req'[r].pc \notin InSlot
    BY <1>1 DEF InSlot
  <2> QED BY <1>1, <1>2, <1>3, <2>1, <2>2 DEF SlotInv
<1> QED BY <1>10, <1>11, <1>12, <1>13

-----------------------------------------------------------------------------
(* What most steps leave alone.                                              *)

LEMMA QuietWorld ==
    ASSUME Inv, UNCHANGED world, moves' \in 0..MaxMoves
    PROVE  WorldInv' /\ Data' = Data
BY DEF Inv, WorldInv, world, Data

LEMMA QuietCaches ==
    ASSUME Inv, UNCHANGED <<world, caches>>
    PROVE  CacheInv'
<1>1. UNCHANGED <<local, sales, catalog, known, cache, bytes>>
  BY DEF world, caches
<1>2. Data' = Data
  BY <1>1 DEF Data
<1>3. \A p \in Processes : \A i \in DOMAIN cache[p] : Usable(p, cache[p][i])' <=> Usable(p, cache[p][i])
  BY <1>1 DEF Usable
<1> QED BY <1>1, <1>2, <1>3 DEF Inv, CacheInv

LEMMA MoveTyped ==
    ASSUME Inv, Move \/ UNCHANGED moves
    PROVE  moves' \in 0..MaxMoves
BY CacheAssumption DEF Inv, WorldInv, Move

(* Of the requests' locals only those of the one that steps matter.          *)
LEMMA OthersKept ==
    ASSUME Inv, NEW r \in Requests, ChangesOnly(r), UNCHANGED <<local, sales, catalog, known, generation>>,
           req'[r].snapshot \in Data, req'[r].data \in Data,
           req'[r].since <= known[Home[r]], req'[r].generation <= generation[Home[r]],
           Reading(r)'
    PROVE  RequestInv' /\ LoaderInv'
<1> USE DEF Inv
<1>1. Data' = Data
  BY DEF Data
<1>2. RequestInv'
  BY <1>1 DEF RequestInv, ChangesOnly
<1>3. ASSUME NEW q \in Requests, q # r PROVE Reading(q)'
  BY <1>3 DEF LoaderInv, Reading, ChangesOnly, Read, Unchanged, Key
<1> QED BY <1>2, <1>3 DEF LoaderInv

(* A request that is gone keeps at most an open transaction.                 *)
LEMMA GoneAll ==
    ASSUME Inv, NEW r \in Requests, NEW n \in Request, req' = [req EXCEPT ![r] = n],
           n.snapshot = NoData, n.data = NoData, n.since = 0, n.generation = 0,
           n.pc \in Gone, n.pc = "left" => n.cancels >= 2,
           QueueInv', WaitersInv', file' \in Requests \union {Nobody},
           \A q \in Requests : req'[q].pc \in InSlot <=> file' = q,
           UNCHANGED <<world, caches>>, Move \/ UNCHANGED moves,
           threads' \subseteq threads \ {r},
           IF n.pc = "left" THEN open' \subseteq open ELSE open' \subseteq open \ {r}
    PROVE  Inv'
<1> USE DEF Inv
<1>1. WorldInv' /\ Data' = Data /\ CacheInv'
  BY MoveTyped, QuietWorld, QuietCaches
<1>2. ChangesOnly(r) /\ req'[r] = n
  BY DEF RequestInv, ChangesOnly
<1>3. NoData \in Data /\ NoData.current = NoData.comparison
  BY DEF NoData, Data, WorldInv
<1>4. SlotInv'
  <2>2. \A q \in threads' : q # r /\ req'[q].pc \in Computing \union {"drain"} /\ q \in Requests
    BY <1>2 DEF SlotInv, ChangesOnly
  <2>3. \A q \in open' : q \in Requests /\ req'[q].pc \in {"transaction", "rollback", "close", "left"}
    BY <1>2 DEF SlotInv, ChangesOnly
  <2> QED BY <2>2, <2>3 DEF SlotInv
<1>5. known[Home[r]] \in Nat /\ generation[Home[r]] \in Nat
  BY CacheAssumption DEF WorldInv, RequestInv
<1>6. Reading(r)'
  BY <1>2, <1>3 DEF Reading, Gone
<1>7. RequestInv' /\ LoaderInv'
  <2>1. req'[r].snapshot \in Data /\ req'[r].data \in Data
        /\ req'[r].since <= known[Home[r]] /\ req'[r].generation <= generation[Home[r]]
    BY <1>2, <1>3, <1>5
  <2> QED BY <1>2, <1>6, <2>1, OthersKept DEF world, caches
<1> QED BY <1>1, <1>4, <1>7

LEMMA EndedFacts ==
    /\ Ended \in Request /\ Ended.snapshot = NoData /\ Ended.data = NoData /\ Ended.since = 0
    /\ Ended.generation = 0 /\ Ended.pc = "done" /\ "done" \in Gone
BY DEF Ended, NewRequest, Request, Pcs, Gone, Asked, Versions, NoData

LEMMA LeaveAll ==
    ASSUME Inv, NEW r \in Requests, Leave(r), req[r].pc \notin Gone, UNCHANGED <<world, caches>>,
           Move \/ UNCHANGED moves, threads' \subseteq threads \ {r}, open' \subseteq open \ {r}
    PROVE  Inv'
<1>1. Released(r) /\ req' = [req EXCEPT ![r] = Ended]
  BY DEF Leave
<1>2. ChangesOnly(r) /\ req'[r] = Ended
  BY <1>1, LeaveChanges
<1>3. QueueInv' /\ WaitersInv' /\ file' \in Requests \union {Nobody}
      /\ \A q \in Requests : req'[q].pc \in InSlot <=> file' = q
  BY <1>1, <1>2, LeaveInv, EndedFacts
<1> HIDE DEF Ended
<1> QED BY <1>1, <1>3, EndedFacts, GoneAll

(* The session's close goes on without the slot.                             *)
LEMMA LeaveOpenInv ==
    ASSUME Inv, NEW r \in Requests, LeaveOpen(r), req[r].pc = "close",
           UNCHANGED <<world, threads, open, caches>>, Move
    PROVE  Inv'
<1>1. req[r].cancels \in Nat /\ req[r].cancels >= 1 /\ r \notin threads
  BY DEF Inv, RequestInv, Request, SlotInv, Computing, LoaderInv, Reading
<1>2. PICK c \in Nat : c = req[r].cancels + 1
  BY <1>1
<1> DEFINE n == [Ended EXCEPT !.pc = "left", !.cancels = c]
<1>3. Released(r) /\ req' = [req EXCEPT ![r] = n]
  BY <1>2 DEF LeaveOpen
<1>4. /\ n \in Request /\ n.snapshot = NoData /\ n.data = NoData /\ n.since = 0 /\ n.generation = 0
      /\ n.pc = "left" /\ n.cancels >= 2
  <2>1. Ended \in Request /\ "left" \in Pcs
    BY EndedFacts DEF Pcs, Gone
  <2>2. n \in Request /\ n.pc = "left" /\ n.cancels = c /\ n.snapshot = Ended.snapshot
        /\ n.data = Ended.data /\ n.since = Ended.since /\ n.generation = Ended.generation
    BY <1>2, <2>1 DEF Request
  <2>3. c >= 2
    BY <1>1, <1>2
  <2> QED BY <2>2, <2>3, EndedFacts
<1> HIDE DEF n
<1>5. ChangesOnly(r) /\ req'[r] = n
  BY <1>3, <1>4 DEF Inv, RequestInv, ChangesOnly
<1>6. "left" \in Gone /\ "close" \notin Gone
  BY DEF Gone
<1>7. QueueInv' /\ WaitersInv' /\ file' \in Requests \union {Nobody}
      /\ \A q \in Requests : req'[q].pc \in InSlot <=> file' = q
  BY <1>3, <1>4, <1>5, <1>6, LeaveInv
<1> QED BY <1>1, <1>3, <1>4, <1>6, <1>7, GoneAll

(* And ends: nothing but its transaction was left of the request.            *)
LEMMA CloseLeftInv ==
    ASSUME Inv, NEW r \in Requests, req[r].pc = "left", req' = [req EXCEPT ![r] = Ended],
           open' = open \ {r}, UNCHANGED <<world, admission, threads, caches, moves>>
    PROVE  Inv'
<1> USE DEF Inv
<1>1. ChangesOnly(r) /\ req'[r] = Ended /\ Ended.pc = "done"
  BY LeaveChanges, EndedFacts
<1>2. UNCHANGED <<queue, file, waiters>>
  BY DEF admission
<1>3. \A q \in Requests : /\ req'[q].pc \in Gone <=> req[q].pc \in Gone
                          /\ req'[q].pc \in Waiting <=> req[q].pc \in Waiting
                          /\ req'[q].pc \in InSlot <=> req[q].pc \in InSlot
                          /\ req'[q].pc \in Covered <=> req[q].pc \in Covered
  BY <1>1 DEF ChangesOnly, Gone, Waiting, Covered, InSlot
<1>4. QueueInv'
  <2>1. \A p \in Processes : \A i \in DOMAIN queue[p] : queue[p][i] \in Requests
    BY ElementOfSeq, LenProperties DEF QueueInv
  <2> QED BY <1>2, <1>3, <2>1 DEF QueueInv
<1>5. WaitersInv'
  <2>1. \A p \in Processes : AtHome(p, Waiting)' = AtHome(p, Waiting)
    BY <1>3 DEF AtHome
  <2> QED BY <1>2, <2>1 DEF WaitersInv
<1>6. file' \in Requests \union {Nobody} /\ \A q \in Requests : req'[q].pc \in InSlot <=> file' = q
  BY <1>2, <1>3 DEF SlotInv
<1>7. r \notin threads
  BY DEF SlotInv, Computing
<1> QED BY <1>4, <1>5, <1>6, <1>7, EndedFacts, GoneAll

(* A step towards the end of a slot that is not the end.                     *)
LEMMA StayAll ==
    ASSUME Inv, NEW r \in Requests, NEW n \in Request, req' = [req EXCEPT ![r] = n],
           n.since = req[r].since, n.snapshot = req[r].snapshot, n.generation = req[r].generation,
           n.data = req[r].data,
           \/ n.pc = "drain" /\ req[r].pc \in Computing
           \/ n.pc = "rollback" /\ req[r].pc = "transaction"
           \/ n.pc = "close" /\ req[r].pc = "rollback" /\ n.cancels >= 1,
           UNCHANGED <<world, admission, threads, open, caches>>, Move \/ UNCHANGED moves
    PROVE  Inv'
<1> USE DEF Inv
<1>1. WorldInv' /\ Data' = Data /\ CacheInv'
  BY MoveTyped, QuietWorld, QuietCaches
<1>2. n.pc \in InSlot /\ req[r].pc \in InSlot
  BY DEF Pcs, InSlot, Gone, Waiting, Computing
<1>3. ChangesOnly(r) /\ req'[r] = n
  BY DEF RequestInv, ChangesOnly
<1>4. QueueInv' /\ WaitersInv' /\ file' \in Requests \union {Nobody}
      /\ \A q \in Requests : req'[q].pc \in InSlot <=> file' = q
  BY <1>2, <1>3, SteadyInv
<1>5. SlotInv'
  BY <1>3, <1>4 DEF SlotInv, ChangesOnly, Computing
<1>6. Reading(r)'
  BY <1>3 DEF LoaderInv, Reading
<1>7. RequestInv' /\ LoaderInv'
  BY <1>3, <1>6, OthersKept DEF RequestInv, world, caches
<1> QED BY <1>1, <1>4, <1>5, <1>7

LEMMA CancelledAll ==
    ASSUME Inv, NEW r \in Requests, NEW pc \in {"drain", "rollback", "close"}, Cancelled(r, pc),
           \/ pc = "drain" /\ req[r].pc \in Computing
           \/ pc = "rollback" /\ req[r].pc = "transaction"
           \/ pc = "close" /\ req[r].pc = "rollback",
           UNCHANGED <<world, threads, open, caches>>, Move
    PROVE  Inv'
<1>1. req[r] \in Request /\ req[r].cancels \in Nat
  BY DEF Inv, RequestInv, Request
<1>2. PICK c \in Nat : c = req[r].cancels + 1
  BY <1>1
<1> DEFINE n == [req[r] EXCEPT !.pc = pc, !.cancels = c]
<1>3. req' = [req EXCEPT ![r] = n] /\ UNCHANGED admission
  BY <1>2 DEF Cancelled
<1>4. /\ n \in Request /\ n.since = req[r].since /\ n.snapshot = req[r].snapshot
      /\ n.generation = req[r].generation /\ n.data = req[r].data /\ n.pc = pc /\ n.cancels >= 1
  <2>1. pc \in Pcs
    BY DEF Pcs
  <2>2. c >= 1
    BY <1>1, <1>2
  <2>3. n \in Request /\ n.since = req[r].since /\ n.snapshot = req[r].snapshot
        /\ n.generation = req[r].generation /\ n.data = req[r].data /\ n.pc = pc /\ n.cancels = c
    BY <1>1, <1>2, <2>1 DEF Request
  <2> QED BY <2>2, <2>3
<1> HIDE DEF n
<1> QED BY <1>3, <1>4, StayAll

-----------------------------------------------------------------------------
(* Admission.                                                                *)

LEMMA ArriveInv ==
    ASSUME Inv, NEW r \in Requests, Arrive(r)
    PROVE  Inv'
<1> USE DEF Inv
<1> DEFINE h == Home[r]
<1>1. PICK kind \in Kinds :
        IF waiters[h] >= MaxWaiters
        THEN req' = [req EXCEPT ![r] = Ended] /\ UNCHANGED <<queue, waiters>>
        ELSE /\ req' = [req EXCEPT ![r] = [[req[r] EXCEPT !.kind = kind, !.since = known[h]] EXCEPT !.pc = "loop"]]
             /\ queue' = [queue EXCEPT ![h] = Append(queue[h], r)]
             /\ waiters' = [waiters EXCEPT ![h] = waiters[h] + 1]
  BY DEF Arrive
<1>2. req[r].pc = "new" /\ UNCHANGED <<world, file, threads, open, caches, moves>>
  BY DEF Arrive, At
<1>3. WorldInv' /\ Data' = Data /\ CacheInv'
  BY <1>2, MoveTyped, QuietWorld, QuietCaches
<1>4. h \in Processes /\ known[h] \in Nat /\ generation[h] \in Nat
  BY CacheAssumption DEF WorldInv, RequestInv
<1>5. r \notin threads /\ r \notin open /\ file # r
  BY <1>2 DEF SlotInv, Computing, InSlot, Gone
<1>6. CASE waiters[h] >= MaxWaiters
  <2>1. req' = [req EXCEPT ![r] = Ended] /\ UNCHANGED <<queue, waiters>>
    BY <1>1, <1>6
  <2>2. ChangesOnly(r) /\ req'[r] = Ended /\ NoData \in Data
    BY <2>1, LeaveChanges
  <2>3. Ended.snapshot = NoData /\ Ended.data = NoData /\ Ended.since = 0 /\ Ended.generation = 0
        /\ Ended.pc = "done" /\ NoData.current = NoData.comparison
    BY DEF Ended, NewRequest, NoData
  <2>4. \A q \in Requests : /\ req'[q].pc \in Gone <=> req[q].pc \in Gone
                            /\ req'[q].pc \in Waiting <=> req[q].pc \in Waiting
                            /\ req'[q].pc \in InSlot <=> req[q].pc \in InSlot
                            /\ req'[q].pc \in Covered <=> req[q].pc \in Covered
    BY <1>2, <2>2, <2>3 DEF ChangesOnly, Gone, Waiting, Covered, InSlot
  <2>5. QueueInv'
    <3>1. \A p \in Processes : \A i \in DOMAIN queue[p] : queue[p][i] \in Requests
      BY ElementOfSeq, LenProperties DEF QueueInv
    <3> QED BY <2>1, <2>4, <3>1 DEF QueueInv
  <2>6. WaitersInv'
    <3>1. \A p \in Processes : AtHome(p, Waiting)' = AtHome(p, Waiting)
      BY <2>4 DEF AtHome
    <3> QED BY <2>1, <3>1 DEF WaitersInv
  <2>7. SlotInv'
    BY <1>2, <1>5, <2>2, <2>4 DEF SlotInv, ChangesOnly
  <2>8. Reading(r)'
    BY <2>2, <2>3 DEF Reading
  <2>9. RequestInv' /\ LoaderInv'
    <3>1. req'[r].snapshot \in Data /\ req'[r].data \in Data
          /\ req'[r].since <= known[h] /\ req'[r].generation <= generation[h]
      BY <1>4, <2>2, <2>3
    <3> QED BY <1>2, <2>2, <2>8, <3>1, OthersKept DEF world, caches
  <2> QED BY <1>3, <2>5, <2>6, <2>7, <2>9
<1>7. CASE ~(waiters[h] >= MaxWaiters)
  <2> DEFINE x == [[req[r] EXCEPT !.kind = kind, !.since = known[h]] EXCEPT !.pc = "loop"]
             s == queue[h]
             t == Append(s, r)
  <2>1. req' = [req EXCEPT ![r] = x] /\ queue' = [queue EXCEPT ![h] = t]
        /\ waiters' = [waiters EXCEPT ![h] = waiters[h] + 1]
    BY <1>1, <1>7
  <2>2. x \in Request /\ x.pc = "loop" /\ x.since = known[h] /\ x.snapshot = req[r].snapshot
        /\ x.data = req[r].data /\ x.generation = req[r].generation
    BY <1>4 DEF RequestInv, Request, Asked, Pcs, Waiting
  <2> HIDE DEF x
  <2>3. ChangesOnly(r) /\ req'[r] = x
    BY <2>1, <2>2 DEF RequestInv, ChangesOnly
  <2>4. s \in Seq(Requests) /\ Len(s) \in Nat /\ DOMAIN s = 1..Len(s)
        /\ \A i \in 1..Len(s) : s[i] \in Requests /\ s[i] # r
    BY <1>2, <1>4, ElementOfSeq, LenProperties DEF QueueInv, Gone
  <2>5. /\ t \in Seq(Requests) /\ Len(t) = Len(s) + 1 /\ DOMAIN t = 1..(Len(s) + 1)
        /\ t[Len(s) + 1] = r /\ \A i \in 1..Len(s) : t[i] = s[i]
    <3>1. /\ t \in Seq(Requests) /\ Len(t) = Len(s) + 1
          /\ t[Len(s) + 1] = r /\ \A i \in 1..Len(s) : t[i] = s[i]
      <4> HIDE DEF s
      <4> QED BY <2>4, AppendProperties
    <3> QED BY <3>1, LenProperties
  <2>6. queue' \in [Processes -> Seq(Requests)] /\ queue'[h] = t
        /\ \A p \in Processes : p # h => queue'[p] = queue[p]
    BY <1>4, <2>1, <2>5 DEF QueueInv
  <2> HIDE DEF t
  <2>7. \A q \in Requests : q # r => req'[q].pc = req[q].pc
    BY <2>3 DEF ChangesOnly
  <2>8. QueueInv'
    <3>1. ASSUME NEW p \in Processes, NEW i \in DOMAIN queue'[p]
          PROVE  Home[queue'[p][i]] = p /\ req'[queue'[p][i]].pc \notin Gone
      <4>1. CASE p = h /\ i = Len(s) + 1
        BY <2>2, <2>3, <2>5, <2>6, <4>1 DEF Gone
      <4>2. CASE p = h /\ i # Len(s) + 1
        <5>1. i \in 1..Len(s) /\ queue'[p][i] = s[i]
          BY <2>4, <2>5, <2>6, <3>1, <4>2
        <5> QED BY <2>4, <2>7, <4>2, <5>1 DEF QueueInv
      <4>3. CASE p # h
        <5>1. queue'[p][i] \in Requests /\ Home[queue[p][i]] = p
          BY <2>6, <3>1, <4>3, ElementOfSeq, LenProperties DEF QueueInv
        <5> QED BY <2>6, <2>7, <3>1, <4>3, <5>1 DEF QueueInv
      <4> QED BY <4>1, <4>2, <4>3
    <3>2. ASSUME NEW p \in Processes, NEW i \in DOMAIN queue'[p], NEW j \in DOMAIN queue'[p],
                 queue'[p][i] = queue'[p][j]
          PROVE  i = j
      <4>1. CASE p = h
        <5>1. \A u, v \in 1..Len(s) : s[u] = s[v] => u = v
          BY <1>4, <2>4 DEF QueueInv
        <5> HIDE DEF s
        <5> QED BY <2>4, <2>5, <2>6, <3>2, <4>1, <5>1
      <4>2. CASE p # h
        BY <2>6, <3>2, <4>2 DEF QueueInv
      <4> QED BY <4>1, <4>2
    <3>3. ASSUME NEW q \in Requests, req'[q].pc \notin Gone
          PROVE  /\ \E i \in DOMAIN queue'[Home[q]] : queue'[Home[q]][i] = q
                 /\ req'[q].pc \in Covered => queue'[Home[q]][1] = q
      <4>1. CASE q = r
        <5>1. Len(s) + 1 \in DOMAIN t /\ t[Len(s) + 1] = r
          BY <2>4, <2>5
        <5>2. "loop" \notin Covered
          BY DEF Covered
        <5> QED BY <2>2, <2>3, <2>6, <4>1, <5>1, <5>2
      <4>2. CASE q # r /\ Home[q] = h
        <5>1. PICK i \in 1..Len(s) : s[i] = q
          BY <2>4, <2>7, <3>3, <4>2 DEF QueueInv
        <5>2. i \in DOMAIN t /\ t[i] = q
          BY <2>4, <2>5, <5>1
        <5>3. 1 \in 1..Len(s) /\ t[1] = s[1]
          BY <2>4, <2>5, <5>1
        <5>4. req[q].pc \in Covered => s[1] = q
          BY <4>2 DEF QueueInv
        <5> QED BY <2>6, <2>7, <4>2, <5>2, <5>3, <5>4
      <4>3. CASE Home[q] # h
        <5>1. q # r /\ Home[q] \in Processes
          BY <4>3, CacheAssumption
        <5> QED BY SMTT(60), <2>6, <2>7, <3>3, <4>3, <5>1 DEF QueueInv
      <4> QED BY <4>1, <4>2, <4>3
    <3>4. \A q \in Requests : req'[q].pc \in Covered => req'[q].pc \notin Gone
      BY DEF Covered
    <3> QED BY <2>6, <3>1, <3>2, <3>3, <3>4 DEF QueueInv
  <2>9. WaitersInv'
    <3>1. ASSUME NEW p \in Processes
          PROVE  /\ IsFiniteSet(AtHome(p, Waiting)) /\ r \notin AtHome(p, Waiting)
                 /\ AtHome(p, Waiting)' = IF p = h THEN AtHome(p, Waiting) \union {r} ELSE AtHome(p, Waiting)
      <4>1. AtHome(p, Waiting) \subseteq 1..NumRequests /\ IsFiniteSet(1..NumRequests)
        <5>1. NumRequests \in Int /\ 1 \in Int
          BY CacheAssumption
        <5> QED BY <5>1, FS_Interval DEF AtHome, Requests
      <4>2. IsFiniteSet(AtHome(p, Waiting))
        BY <4>1, FS_Subset
      <4>3. "new" \notin Waiting /\ "loop" \in Waiting
        BY DEF Waiting
      <4>4. r \notin AtHome(p, Waiting)
        BY <1>2, <4>3 DEF AtHome
      <4>5. r \in AtHome(p, Waiting)' <=> p = h
        BY <2>2, <2>3, <4>3 DEF AtHome
      <4>6. \A q \in Requests : q # r => (q \in AtHome(p, Waiting)' <=> q \in AtHome(p, Waiting))
        BY <2>7 DEF AtHome
      <4>7. AtHome(p, Waiting) \subseteq Requests /\ AtHome(p, Waiting)' \subseteq Requests
        BY DEF AtHome
      <4> HIDE DEF h
      <4> QED BY <4>2, <4>4, <4>5, <4>6, <4>7
    <3>2. ASSUME NEW p \in Processes
          PROVE  waiters'[p] = Cardinality(AtHome(p, Waiting)') /\ waiters'[p] \in Nat
                 /\ waiters'[p] <= MaxWaiters
      <4>1. waiters[p] = Cardinality(AtHome(p, Waiting)) /\ waiters[p] \in Nat
            /\ waiters[p] <= MaxWaiters /\ MaxWaiters \in Nat
        BY CacheAssumption DEF WaitersInv
      <4>2. CASE p = h
        <5>1. Cardinality(AtHome(p, Waiting) \union {r}) = Cardinality(AtHome(p, Waiting)) + 1
          BY <3>1, FS_AddElement
        <5>2. waiters'[p] = waiters[p] + 1
          BY <2>1, <4>2 DEF WaitersInv
        <5>3. Cardinality(AtHome(p, Waiting)') = Cardinality(AtHome(p, Waiting) \union {r})
          BY <3>1, <4>2
        <5> QED BY <1>7, <4>1, <4>2, <5>1, <5>2, <5>3
      <4>3. CASE p # h
        <5>1. Cardinality(AtHome(p, Waiting)') = Cardinality(AtHome(p, Waiting))
          BY <3>1, <4>3
        <5>2. waiters'[p] = waiters[p]
          BY <2>1, <4>3 DEF WaitersInv
        <5> QED BY <4>1, <5>1, <5>2
      <4> QED BY <4>2, <4>3
    <3>3. waiters' = [p \in Processes |-> waiters'[p]]
      BY <2>1 DEF WaitersInv
    <3>4. waiters' \in [Processes -> Nat]
      BY <3>2, <3>3
    <3> QED BY <3>2, <3>4 DEF WaitersInv
  <2>10. SlotInv'
    <3>1. "loop" \notin InSlot
      BY DEF InSlot, Waiting
    <3> QED BY <1>2, <1>5, <2>2, <2>3, <2>7, <3>1 DEF SlotInv
  <2>11. Reading(r)'
    BY <2>2, <2>3 DEF LoaderInv, Reading
  <2>12. RequestInv' /\ LoaderInv'
    <3>1. req'[r].snapshot \in Data /\ req'[r].data \in Data
          /\ req'[r].since <= known[h] /\ req'[r].generation <= generation[h]
      BY <1>4, <2>2, <2>3 DEF RequestInv
    <3> QED BY <1>2, <2>3, <2>11, <3>1, OthersKept DEF world, caches
  <2> QED BY <1>3, <2>8, <2>9, <2>10, <2>12
<1> QED BY <1>6, <1>7

LEMMA EnterLoopInv ==
    ASSUME Inv, NEW r \in Requests, EnterLoop(r)
    PROVE  Inv'
<1> USE DEF Inv
<1>1. /\ req[r].pc = "loop" /\ Head(queue[Home[r]]) = r /\ Goto(r, "file")
      /\ UNCHANGED <<world, admission, threads, open, caches, moves>>
  BY DEF EnterLoop, At
<1>2. UNCHANGED <<queue, file, waiters, threads, open>>
  BY <1>1 DEF admission
<1>3. WorldInv' /\ Data' = Data /\ CacheInv'
  BY <1>1, MoveTyped, QuietWorld, QuietCaches
<1>4. /\ ChangesOnly(r) /\ req'[r].pc = "file" /\ req'[r].since = req[r].since
      /\ req'[r].snapshot = req[r].snapshot /\ req'[r].generation = req[r].generation
      /\ req'[r].data = req[r].data
  <2>1. "file" \in Pcs
    BY DEF Pcs, Waiting
  <2> QED BY <1>1, <2>1, GotoChanges
<1>5. \A q \in Requests : /\ req'[q].pc \in Gone <=> req[q].pc \in Gone
                          /\ req'[q].pc \in Waiting <=> req[q].pc \in Waiting
                          /\ req'[q].pc \in InSlot <=> req[q].pc \in InSlot
                          /\ q # r => req'[q].pc = req[q].pc
  BY <1>1, <1>4 DEF ChangesOnly, Gone, Waiting, InSlot
<1>6. QueueInv'
  <2>1. \A p \in Processes : \A i \in DOMAIN queue[p] : queue[p][i] \in Requests
    BY ElementOfSeq, LenProperties DEF QueueInv
  <2>2. queue[Home[r]][1] = r
    <3>1. Home[r] \in Processes /\ queue[Home[r]] \in Seq(Requests)
      BY CacheAssumption DEF QueueInv
    <3>2. DOMAIN queue[Home[r]] # {}
      BY <1>1 DEF QueueInv, Gone
    <3>3. queue[Home[r]] # <<>>
      BY <3>2, EmptySeq, LenProperties
    <3> QED BY <1>1, <3>1, <3>3
  <2> QED BY <1>2, <1>5, <2>1, <2>2 DEF QueueInv
<1>7. WaitersInv'
  <2>1. \A p \in Processes : AtHome(p, Waiting)' = AtHome(p, Waiting)
    BY <1>5 DEF AtHome
  <2> QED BY <1>2, <2>1 DEF WaitersInv
<1>8. SlotInv'
  <2>1. r \notin threads /\ r \notin open
    BY <1>1 DEF SlotInv, Computing
  <2> QED BY <1>2, <1>5, <2>1 DEF SlotInv
<1>9. Reading(r)'
  BY <1>4 DEF LoaderInv, Reading
<1>10. RequestInv' /\ LoaderInv'
  BY <1>1, <1>4, <1>9, OthersKept DEF RequestInv, world, caches
<1> QED BY <1>3, <1>6, <1>7, <1>8, <1>10

LEMMA EnterFileInv ==
    ASSUME Inv, NEW r \in Requests, EnterFile(r)
    PROVE  Inv'
<1> USE DEF Inv
<1>1. /\ req[r].pc = "file" /\ file = Nobody /\ file' = r
      /\ waiters' = [waiters EXCEPT ![Home[r]] = waiters[Home[r]] - 1]
      /\ UNCHANGED <<world, queue, threads, caches, moves>>
  BY DEF EnterFile, At
<1>2. PICK pc \in {"transaction", "max"} :
         Goto(r, pc) /\ open' = IF pc = "transaction" THEN open \union {r} ELSE open
  BY DEF EnterFile
<1>3. WorldInv' /\ Data' = Data /\ CacheInv'
  BY <1>1, MoveTyped, QuietWorld, QuietCaches
<1>4. pc \in Pcs /\ pc \in InSlot /\ pc \in Covered /\ pc \notin Waiting /\ pc \notin Gone
  BY DEF Pcs, InSlot, Covered, Gone, Waiting, Loading
<1>5. /\ ChangesOnly(r) /\ req'[r].pc = pc /\ req'[r].since = req[r].since
      /\ req'[r].snapshot = req[r].snapshot /\ req'[r].generation = req[r].generation
      /\ req'[r].data = req[r].data
  BY <1>2, <1>4, GotoChanges
<1>6. \A q \in Requests : q # r => req'[q].pc = req[q].pc
  BY <1>5 DEF ChangesOnly
<1>7. QueueInv'
  <2>1. \A p \in Processes : \A i \in DOMAIN queue[p] : queue[p][i] \in Requests
    BY ElementOfSeq, LenProperties DEF QueueInv
  <2>2. \A q \in Requests : /\ req'[q].pc \in Gone <=> req[q].pc \in Gone
                            /\ req'[q].pc \in Covered <=> req[q].pc \in Covered
    BY <1>1, <1>4, <1>5, <1>6 DEF Gone, Covered, Pcs, Waiting
  <2> QED BY SMTT(60), <1>1, <2>1, <2>2 DEF QueueInv
<1>8. WaitersInv'
  <2>1. ASSUME NEW p \in Processes
        PROVE  /\ IsFiniteSet(AtHome(p, Waiting))
               /\ AtHome(p, Waiting)' = AtHome(p, Waiting) \ {r}
    <3>1. AtHome(p, Waiting) \subseteq 1..NumRequests /\ IsFiniteSet(1..NumRequests)
      <4>1. NumRequests \in Int /\ 1 \in Int
        BY CacheAssumption
      <4> QED BY <4>1, FS_Interval DEF AtHome, Requests
    <3>2. IsFiniteSet(AtHome(p, Waiting))
      BY <3>1, FS_Subset
    <3> QED BY <1>4, <1>5, <1>6, <3>2 DEF AtHome
  <2>2. ASSUME NEW p \in Processes
        PROVE  waiters'[p] = Cardinality(AtHome(p, Waiting)') /\ waiters'[p] \in Nat
               /\ waiters'[p] <= waiters[p]
    <3>1. waiters[p] = Cardinality(AtHome(p, Waiting)) /\ waiters[p] \in Nat
      BY DEF WaitersInv
    <3>2. Cardinality(AtHome(p, Waiting)') = Cardinality(AtHome(p, Waiting) \ {r})
      BY <2>1
    <3>3. CASE Home[r] = p
      <4>1. r \in AtHome(p, Waiting)
        BY <1>1, <3>3 DEF AtHome, Waiting
      <4>2. Cardinality(AtHome(p, Waiting) \ {r}) = Cardinality(AtHome(p, Waiting)) - 1
            /\ Cardinality(AtHome(p, Waiting) \ {r}) \in Nat
        BY <2>1, <4>1, FS_RemoveElement, FS_CardinalityType
      <4>3. waiters'[p] = waiters[p] - 1
        BY <1>1, <3>3 DEF WaitersInv
      <4> QED BY <3>1, <3>2, <4>2, <4>3
    <3>4. CASE Home[r] # p
      <4>1. AtHome(p, Waiting) \ {r} = AtHome(p, Waiting)
        BY <3>4 DEF AtHome
      <4>2. waiters'[p] = waiters[p]
        BY <1>1, <3>4 DEF WaitersInv
      <4> QED BY <3>1, <3>2, <4>1, <4>2
    <3> QED BY <3>3, <3>4
  <2>3. waiters' = [p \in Processes |-> waiters'[p]]
    BY <1>1 DEF WaitersInv
  <2>4. waiters' \in [Processes -> Nat]
    BY <2>2, <2>3
  <2> QED BY <2>2, <2>4, CacheAssumption DEF WaitersInv
<1>9. SlotInv'
  <2>1. r \notin threads /\ r \notin open /\ \A q \in Requests : req[q].pc \notin InSlot
    <3>1. \A q \in Requests : q # Nobody
      BY DEF Requests, Nobody
    <3> QED BY <1>1, <3>1 DEF SlotInv, Computing
  <2>2. \A q \in Requests : req'[q].pc \in InSlot <=> q = r
    BY <1>4, <1>5, <1>6, <2>1
  <2> QED BY <1>1, <1>2, <1>5, <1>6, <2>1, <2>2 DEF SlotInv
<1>10. Reading(r)'
  BY <1>5 DEF LoaderInv, Reading
<1>11. RequestInv' /\ LoaderInv'
  BY <1>1, <1>5, <1>10, OthersKept DEF RequestInv, world, caches
<1> QED BY <1>3, <1>7, <1>8, <1>9, <1>11

-----------------------------------------------------------------------------
(* The data set.                                                             *)

LEMMA ReadMaxInv ==
    ASSUME Inv, NEW r \in Requests, ReadMax(r)
    PROVE  Inv'
<1> USE DEF Inv
<1> DEFINE seen == IF local THEN Now ELSE [NoData EXCEPT !.top = sales.top]
<1>1. /\ req[r].pc = "max"
      /\ req' = [req EXCEPT ![r] = [req[r] EXCEPT !.snapshot = seen, !.pc = "lookup"]]
      /\ UNCHANGED <<world, admission, threads, open, caches, moves>>
  BY DEF ReadMax, At
<1>2. WorldInv' /\ Data' = Data /\ CacheInv'
  BY <1>1, MoveTyped, QuietWorld, QuietCaches
<1>3. seen \in Data /\ seen \in Versions /\ seen.current = seen.comparison
  <2>1. Now.current = Now.comparison
    BY DEF Now
  <2>2. [NoData EXCEPT !.top = sales.top] \in Data
        /\ [NoData EXCEPT !.top = sales.top].current = [NoData EXCEPT !.top = sales.top].comparison
    BY DEF NoData, WorldInv, Data
  <2> QED BY <2>1, <2>2, SeenTyped
<1> HIDE DEF seen
<1>4. "lookup" \in Pcs /\ "lookup" \in InSlot /\ "max" \in InSlot
  BY DEF Pcs, InSlot, Gone, Waiting, Loading
<1>5. /\ ChangesOnly(r) /\ req'[r].pc = "lookup" /\ req'[r].since = req[r].since
      /\ req'[r].snapshot = seen /\ req'[r].generation = req[r].generation
      /\ req'[r].data = req[r].data
  BY <1>1, <1>3, <1>4 DEF RequestInv, Request, ChangesOnly
<1>6. QueueInv' /\ WaitersInv' /\ file' \in Requests \union {Nobody}
      /\ \A q \in Requests : req'[q].pc \in InSlot <=> file' = q
  BY <1>1, <1>4, <1>5, SteadyInv
<1>7. SlotInv'
  BY <1>1, <1>5, <1>6 DEF SlotInv, ChangesOnly, Computing
<1>8. Reading(r)'
  BY <1>3, <1>5 DEF Reading
<1>9. RequestInv' /\ LoaderInv'
  BY <1>1, <1>3, <1>5, <1>8, OthersKept DEF RequestInv, world, caches
<1> QED BY <1>2, <1>6, <1>7, <1>9

LEMMA ReadCurrentInv ==
    ASSUME Inv, NEW r \in Requests, ReadCurrent(r)
    PROVE  Inv'
<1> USE DEF Inv
<1> DEFINE x == [req[r] EXCEPT !.data.current = Seen(r).current, !.data.top = Seen(r).top,
                               !.pc = "comparison"]
<1>1. /\ req[r].pc = "current" /\ req' = [req EXCEPT ![r] = x]
      /\ UNCHANGED <<world, admission, threads, open, caches, moves>>
  BY DEF ReadCurrent, At
<1>2. WorldInv' /\ Data' = Data /\ CacheInv'
  BY <1>1, MoveTyped, QuietWorld, QuietCaches
<1>3. Seen(r) \in Data /\ Seen(r) \in Versions /\ req[r] \in Request /\ req[r].data \in Data
  BY SeenTyped DEF RequestInv
<1>4. "comparison" \in Pcs /\ "comparison" \in InSlot /\ "current" \in InSlot
  BY DEF Pcs, InSlot, Gone, Waiting, Loading
<1>5. /\ x \in Request /\ x.pc = "comparison" /\ x.since = req[r].since /\ x.kind = req[r].kind
      /\ x.snapshot = req[r].snapshot /\ x.generation = req[r].generation /\ x.key = req[r].key
      /\ x.data = [current |-> Seen(r).current, comparison |-> req[r].data.comparison,
                   catalog |-> req[r].data.catalog, top |-> Seen(r).top, began |-> req[r].data.began]
  BY <1>3, <1>4 DEF Request, Versions
<1>6. /\ x.data \in Data /\ x.data.current = Seen(r).current /\ x.data.top = Seen(r).top
      /\ x.data.began = req[r].data.began
  <2> HIDE DEF x
  <2> QED BY <1>3, <1>5 DEF Data
<1> HIDE DEF x
<1>7. ChangesOnly(r) /\ req'[r] = x
  BY <1>1, <1>5 DEF RequestInv, ChangesOnly
<1>8. QueueInv' /\ WaitersInv' /\ file' \in Requests \union {Nobody}
      /\ \A q \in Requests : req'[q].pc \in InSlot <=> file' = q
  BY <1>1, <1>4, <1>5, <1>7, SteadyInv
<1>9. SlotInv'
  BY <1>1, <1>5, <1>7, <1>8 DEF SlotInv, ChangesOnly, Computing
<1>10. Reading(r)'
  <2>1. ~local => x.data.current = sales.version
    BY <1>6 DEF Seen, Now
  <2>2. local => x.data.current = req[r].snapshot.current /\ x.data.top = req[r].snapshot.top
    BY <1>6 DEF Seen
  <2>3. known[Home[r]] <= sales.version /\ req[r].since <= sales.version
    <3>1. known[Home[r]] \in Nat /\ known[Home[r]] <= sales.version /\ sales.version \in Nat
      BY CacheAssumption DEF WorldInv
    <3> QED BY <1>3, <3>1 DEF RequestInv, Request
  <2>4. req[r].key = Key(r, req[r].snapshot.top, req[r].snapshot.catalog)
        /\ Read(r, req[r].data.began) /\ req[r].snapshot.current = req[r].snapshot.comparison
    BY <1>1 DEF LoaderInv, Reading
  <2>5. UNCHANGED <<local, known, generation>>
    BY <1>1 DEF world, caches
  <2> QED BY <1>5, <1>6, <1>7, <2>1, <2>2, <2>3, <2>4, <2>5 DEF Reading, Read, Key, Unchanged
<1>11. RequestInv' /\ LoaderInv'
  BY <1>1, <1>5, <1>6, <1>7, <1>10, OthersKept DEF RequestInv, world, caches
<1> QED BY <1>2, <1>8, <1>9, <1>11

LEMMA ReadComparisonInv ==
    ASSUME Inv, NEW r \in Requests, ReadComparison(r)
    PROVE  Inv'
<1> USE DEF Inv
<1> DEFINE x == [req[r] EXCEPT !.data.comparison = Seen(r).comparison,
                               !.data.catalog = Seen(r).catalog, !.pc = "merge"]
<1>1. /\ req[r].pc = "comparison" /\ req' = [req EXCEPT ![r] = x] /\ threads' = threads \union {r}
      /\ UNCHANGED <<world, admission, open, caches, moves>>
  BY DEF ReadComparison, At
<1>2. WorldInv' /\ Data' = Data /\ CacheInv'
  BY <1>1, MoveTyped, QuietWorld, QuietCaches
<1>3. Seen(r) \in Data /\ Seen(r) \in Versions /\ req[r] \in Request /\ req[r].data \in Data
  BY SeenTyped DEF RequestInv
<1>4. "comparison" \in InSlot /\ "merge" \in InSlot /\ "merge" \in Pcs /\ "merge" \in Computing
  BY DEF Pcs, InSlot, Gone, Waiting, Loading, Computing
<1>5. /\ x \in Request /\ x.pc = "merge" /\ x.since = req[r].since /\ x.kind = req[r].kind
      /\ x.snapshot = req[r].snapshot /\ x.generation = req[r].generation /\ x.key = req[r].key
      /\ x.data = [current |-> req[r].data.current, comparison |-> Seen(r).comparison,
                   catalog |-> Seen(r).catalog, top |-> req[r].data.top, began |-> req[r].data.began]
  BY <1>3, <1>4 DEF Request, Versions
<1>6. /\ x.data \in Data /\ x.data.comparison = Seen(r).comparison /\ x.data.catalog = Seen(r).catalog
      /\ x.data.current = req[r].data.current /\ x.data.top = req[r].data.top
      /\ x.data.began = req[r].data.began
  <2> HIDE DEF x
  <2> QED BY <1>3, <1>5 DEF Data
<1> HIDE DEF x
<1>7. ChangesOnly(r) /\ req'[r] = x
  BY <1>1, <1>5 DEF RequestInv, ChangesOnly
<1>8. QueueInv' /\ WaitersInv' /\ file' \in Requests \union {Nobody}
      /\ \A q \in Requests : req'[q].pc \in InSlot <=> file' = q
  BY <1>1, <1>4, <1>5, <1>7, SteadyInv
<1>9. SlotInv'
  BY <1>1, <1>4, <1>5, <1>7, <1>8 DEF SlotInv, ChangesOnly
<1>10. Reading(r)'
  <2>1. ~local => x.data.comparison = sales.version
    BY <1>6 DEF Seen, Now
  <2>2. local => /\ x.data.comparison = req[r].snapshot.comparison
                 /\ x.data.catalog = req[r].snapshot.catalog
    BY <1>6 DEF Seen
  <2>3. known[Home[r]] <= sales.version /\ req[r].since <= sales.version
    <3>1. known[Home[r]] \in Nat /\ known[Home[r]] <= sales.version /\ sales.version \in Nat
      BY CacheAssumption DEF WorldInv
    <3> QED BY <1>3, <3>1 DEF RequestInv, Request
  <2>4. /\ req[r].key = Key(r, req[r].snapshot.top, req[r].snapshot.catalog)
        /\ Read(r, req[r].data.began)
        /\ req[r].snapshot.current = req[r].snapshot.comparison
        /\ IF local THEN /\ req[r].data.current = req[r].snapshot.current
                         /\ req[r].data.top = req[r].snapshot.top
           ELSE Read(r, req[r].data.current)
    BY <1>1 DEF LoaderInv, Reading
  <2>5. UNCHANGED <<local, known, generation>>
    BY <1>1 DEF world, caches
  <2> QED BY <1>5, <1>6, <1>7, <2>1, <2>2, <2>3, <2>4, <2>5 DEF Reading, Read, Key, Unchanged
<1>11. RequestInv' /\ LoaderInv'
  BY <1>1, <1>5, <1>6, <1>7, <1>10, OthersKept DEF RequestInv, world, caches
<1> QED BY <1>2, <1>8, <1>9, <1>11

LEMMA MergeInv ==
    ASSUME Inv, NEW r \in Requests, Merge(r)
    PROVE  Inv'
<1> USE DEF Inv
<1>1. req[r].pc = "merge" /\ UNCHANGED <<world, admission, threads, open, caches, moves>>
  BY DEF Merge, At
<1>2. PICK pc \in {"store", "answer"} : Goto(r, pc)
  BY DEF Merge
<1>3. WorldInv' /\ Data' = Data /\ CacheInv'
  BY <1>1, MoveTyped, QuietWorld, QuietCaches
<1>4. pc \in Pcs /\ pc \in InSlot /\ "merge" \in InSlot /\ pc \in Computing
  BY DEF Pcs, InSlot, Gone, Waiting, Computing
<1>5. /\ ChangesOnly(r) /\ req'[r].pc = pc /\ req'[r].since = req[r].since
      /\ req'[r].snapshot = req[r].snapshot /\ req'[r].generation = req[r].generation
      /\ req'[r].data = req[r].data /\ req'[r].key = req[r].key /\ req'[r].kind = req[r].kind
  BY <1>2, <1>4, GotoChanges
<1>6. QueueInv' /\ WaitersInv' /\ file' \in Requests \union {Nobody}
      /\ \A q \in Requests : req'[q].pc \in InSlot <=> file' = q
  BY <1>1, <1>4, <1>5, SteadyInv
<1>7. SlotInv'
  BY <1>1, <1>4, <1>5, <1>6 DEF SlotInv, ChangesOnly
<1>8. Reading(r)'
  <2>1. UNCHANGED <<local, known, generation>>
    BY <1>1 DEF world, caches
  <2> QED BY <1>1, <1>5, <2>1 DEF LoaderInv, Reading, Read, Key, Unchanged
<1>9. RequestInv' /\ LoaderInv'
  BY <1>1, <1>5, <1>8, OthersKept DEF RequestInv, world, caches
<1> QED BY <1>3, <1>6, <1>7, <1>9

-----------------------------------------------------------------------------
(* The cache: what is left when an entry goes, when the oldest go, and what  *)
(* is there when one has come.                                               *)

NoneOf(s, key) == \A i \in DOMAIN s : s[i].key # key
Kept(p, s) ==
    /\ s \in Seq(Entry)
    /\ \A i, j \in DOMAIN s : s[i].key = s[j].key => i = j
    /\ \A i \in DOMAIN s : s[i].data \in Data /\ Usable(p, s[i])

LEMMA KeptFacts ==
    ASSUME NEW p, NEW s, Kept(p, s)
    PROVE  /\ s \in Seq(Entry) /\ Sized(Entry) /\ Len(s) \in Nat /\ DOMAIN s = 1..Len(s)
           /\ BytesOf(s) \in Nat /\ \A i \in 1..Len(s) : s[i] \in Entry /\ s[i].size \in Nat
<1>1. s \in Seq(Entry)
  BY DEF Kept
<1>2. Sized(Entry)
  BY DEF Sized, Entry
<1>3. Len(s) \in Nat /\ DOMAIN s = 1..Len(s) /\ \A i \in 1..Len(s) : s[i] \in Entry
  BY <1>1, ElementOfSeq, LenProperties
<1>4. BytesOf(s) \in Nat
  BY <1>1, <1>2, <1>3, SumsFacts DEF BytesOf
<1> QED BY <1>1, <1>2, <1>3, <1>4 DEF Sized

LEMMA KeptOthers ==
    ASSUME NEW p, NEW s, Kept(p, s), NEW key
    PROVE  /\ Kept(p, Others(s, key)) /\ NoneOf(Others(s, key), key)
           /\ BytesOf(Others(s, key)) = BytesOf(s) - Keyed(s, key).size
           /\ Len(Others(s, key)) <= Len(s)
           /\ ~Keyed(s, key).expired =>
                 /\ Keyed(s, key) \in Entry /\ Keyed(s, key).key = key
                 /\ Keyed(s, key).data \in Data /\ Usable(p, Keyed(s, key))
                 /\ Len(Others(s, key)) = Len(s) - 1
<1>1. /\ s \in Seq(Entry) /\ Sized(Entry) /\ Len(s) \in Nat /\ DOMAIN s = 1..Len(s)
      /\ BytesOf(s) \in Nat /\ \A i \in 1..Len(s) : s[i] \in Entry /\ s[i].size \in Nat
  BY KeptFacts
<1>2. \A i, j \in DOMAIN s : s[i].key = s[j].key => i = j
  BY DEF Kept
<1>3. \/ (\A i \in DOMAIN s : s[i].key # key) /\ Others(s, key) = s /\ Keyed(s, key) = NoEntry
      \/ \E k \in DOMAIN s : /\ s[k].key = key /\ Others(s, key) = RemoveAt(s, k)
                             /\ Keyed(s, key) = s[k]
  BY <1>1, <1>2, OthersFacts
<1>4. CASE (\A i \in DOMAIN s : s[i].key # key) /\ Others(s, key) = s /\ Keyed(s, key) = NoEntry
  <2>1. NoEntry.size = 0 /\ NoEntry.expired = TRUE
    BY DEF NoEntry
  <2>2. Kept(p, Others(s, key)) /\ NoneOf(Others(s, key), key)
    BY <1>4 DEF NoneOf
  <2>3. BytesOf(Others(s, key)) = BytesOf(s) - Keyed(s, key).size
    BY <1>1, <1>4, <2>1
  <2>4. NoEntry.expired
    BY <2>1
  <2>5. Keyed(s, key).expired
    BY <1>4, <2>4, Zenon
  <2>6. Len(Others(s, key)) <= Len(s)
    BY <1>1, <1>4
  <2> QED BY <2>2, <2>3, <2>5, <2>6
<1>5. CASE \E k \in DOMAIN s : /\ s[k].key = key /\ Others(s, key) = RemoveAt(s, k)
                               /\ Keyed(s, key) = s[k]
  <2>1. PICK k \in 1..Len(s) : /\ s[k].key = key /\ Others(s, key) = RemoveAt(s, k)
                               /\ Keyed(s, key) = s[k]
    BY <1>1, <1>5
  <2> DEFINE t == RemoveAt(s, k)
  <2>2. /\ t \in Seq(Entry) /\ Len(t) = Len(s) - 1
        /\ \A i \in 1..(Len(s) - 1) : t[i] = IF i < k THEN s[i] ELSE s[i + 1]
    BY <1>1, RemoveAtFacts
  <2>3. BytesOf(t) = BytesOf(s) - s[k].size
    BY <1>1, BytesWithout
  <2> HIDE DEF t
  <2>4. DOMAIN t = 1..(Len(s) - 1)
    BY <2>2, LenProperties
  <2>5. ASSUME NEW i \in DOMAIN t
        PROVE  \E u \in 1..Len(s) : u # k /\ t[i] = s[u] /\ u = IF i < k THEN i ELSE i + 1
    <3>1. i \in 1..Len(s) /\ i + 1 \in 1..Len(s) /\ i \in Nat
      BY <1>1, <2>4
    <3>2. CASE i < k
      BY <2>2, <2>4, <3>1, <3>2
    <3>3. CASE ~(i < k)
      <4>1. i + 1 # k
        BY <3>1, <3>3
      <4>2. t[i] = s[i + 1]
        BY <2>2, <2>4, <3>3
      <4> QED BY <3>1, <3>3, <4>1, <4>2
    <3> QED BY <3>2, <3>3
  <2>6. ASSUME NEW i \in DOMAIN t, NEW j \in DOMAIN t, t[i].key = t[j].key PROVE i = j
    <3>1. PICK u \in 1..Len(s) : t[i] = s[u] /\ u = IF i < k THEN i ELSE i + 1
      BY <2>5
    <3>2. PICK v \in 1..Len(s) : t[j] = s[v] /\ v = IF j < k THEN j ELSE j + 1
      BY <2>5
    <3>3. u = v
      BY <1>1, <1>2, <2>6, <3>1, <3>2
    <3>4. i \in Int /\ j \in Int
      BY <2>4
    <3> QED BY <3>1, <3>2, <3>3, <3>4
  <2>7. \A i \in DOMAIN t : t[i].data \in Data /\ Usable(p, t[i]) /\ t[i].key # key
    BY <1>1, <1>2, <2>1, <2>5 DEF Kept
  <2>8. Kept(p, t) /\ NoneOf(t, key)
    BY <2>2, <2>6, <2>7 DEF Kept, NoneOf
  <2>9. s[k].data \in Data /\ Usable(p, s[k])
    BY <1>1 DEF Kept
  <2> QED BY <1>1, <2>1, <2>2, <2>3, <2>8, <2>9 DEF t
<1> QED BY <1>3, <1>4, <1>5

LEMMA KeptAppend ==
    ASSUME NEW p, NEW s, Kept(p, s), NEW e \in Entry, NoneOf(s, e.key), e.data \in Data, Usable(p, e)
    PROVE  /\ Kept(p, Append(s, e)) /\ Len(Append(s, e)) = Len(s) + 1
           /\ BytesOf(Append(s, e)) = BytesOf(s) + e.size
<1> DEFINE t == Append(s, e)
<1>1. /\ s \in Seq(Entry) /\ Sized(Entry) /\ Len(s) \in Nat /\ DOMAIN s = 1..Len(s)
  BY KeptFacts
<1>2. t \in Seq(Entry) /\ Len(t) = Len(s) + 1 /\ t[Len(s) + 1] = e /\ \A i \in 1..Len(s) : t[i] = s[i]
  BY <1>1, AppendProperties
<1>3. BytesOf(t) = BytesOf(s) + e.size
  BY <1>1, BytesAppended
<1> HIDE DEF t
<1>4. DOMAIN t = 1..(Len(s) + 1)
  BY <1>2, LenProperties
<1>5. ASSUME NEW i \in DOMAIN t, NEW j \in DOMAIN t, t[i].key = t[j].key PROVE i = j
  BY <1>1, <1>2, <1>4, <1>5 DEF Kept, NoneOf
<1>6. \A i \in DOMAIN t : t[i].data \in Data /\ Usable(p, t[i])
  <2>1. \A i \in DOMAIN t : i \in 1..Len(s) \/ i = Len(s) + 1
    BY <1>1, <1>4
  <2> QED BY <1>1, <1>2, <2>1 DEF Kept
<1> QED BY <1>2, <1>3, <1>5, <1>6 DEF Kept, t

LEMMA KeptRest ==
    ASSUME NEW p, NEW s, Kept(p, s), NEW n \in 0..Len(s), NEW key, NoneOf(s, key)
    PROVE  /\ Kept(p, SubSeq(s, n + 1, Len(s))) /\ NoneOf(SubSeq(s, n + 1, Len(s)), key)
           /\ Len(SubSeq(s, n + 1, Len(s))) = Len(s) - n
           /\ BytesOf(SubSeq(s, n + 1, Len(s))) = BytesOf(s) - Sums(s)[n]
<1> DEFINE t == SubSeq(s, n + 1, Len(s))
<1>1. /\ s \in Seq(Entry) /\ Sized(Entry) /\ Len(s) \in Nat /\ DOMAIN s = 1..Len(s)
      /\ \A i \in 1..Len(s) : s[i] \in Entry
  BY KeptFacts
<1>2. BytesOf(t) = BytesOf(s) - Sums(s)[n]
  BY <1>1, BytesOfRest
<1>3. t \in Seq(Entry) /\ Len(t) = Len(s) - n /\ \A i \in 1..Len(t) : t[i] = s[n + i]
  <2>1. /\ t \in Seq(Entry) /\ Len(t) = (IF n + 1 <= Len(s) THEN Len(s) - (n + 1) + 1 ELSE 0)
        /\ \A i \in 1..(Len(s) - (n + 1) + 1) : t[i] = s[(n + 1) + i - 1]
    BY <1>1, SubSeqProperties
  <2> HIDE DEF t
  <2>2. n \in Nat /\ n <= Len(s) /\ Len(s) - (n + 1) + 1 = Len(s) - n
    BY <1>1
  <2>3. Len(t) = Len(s) - n
    <3>1. Len(t) = (IF n + 1 <= Len(s) THEN Len(s) - (n + 1) + 1 ELSE 0)
      BY <2>1
    <3>2. Len(s) \in Nat
      BY <1>1
    <3> DEFINE len == Len(s)
               room == Len(t)
    <3>3. len \in Nat /\ n \in Nat /\ n <= len /\ room = (IF n + 1 <= len THEN len - (n + 1) + 1 ELSE 0)
      BY <2>2, <3>1, <3>2
    <3>4. room = len - n
      <4> HIDE DEF len, room
      <4> QED BY <3>3
    <3> QED BY <3>4
  <2>4. \A i \in 1..(Len(s) - n) : (n + 1) + i - 1 = n + i
    BY <2>2
  <2> QED BY <2>1, <2>2, <2>3, <2>4
<1> HIDE DEF t
<1>4. DOMAIN t = 1..Len(t)
  BY <1>3, LenProperties
<1>5. \A i \in DOMAIN t : i \in Int /\ n + i \in DOMAIN s /\ t[i] = s[n + i]
  BY <1>1, <1>3, <1>4
<1>6. ASSUME NEW i \in DOMAIN t, NEW j \in DOMAIN t, t[i].key = t[j].key PROVE i = j
  <2>1. n + i = n + j
    BY <1>5, <1>6 DEF Kept
  <2> QED BY <1>5, <2>1
<1>7. \A i \in DOMAIN t : t[i].data \in Data /\ Usable(p, t[i]) /\ t[i].key # key
  BY <1>5 DEF Kept, NoneOf
<1> QED BY <1>2, <1>3, <1>6, <1>7 DEF Kept, NoneOf, t

LEMMA CacheChanged ==
    ASSUME Inv, NEW p \in Processes, NEW t, cache' = [cache EXCEPT ![p] = t], bytes'[p] = BytesOf(t),
           bytes' = [bytes EXCEPT ![p] = bytes'[p]],
           UNCHANGED <<local, sales, catalog, known>>,
           Kept(p, t), Len(t) <= MaxEntries, BytesOf(t) <= MaxTotalBytes
    PROVE  CacheInv'
<1> USE DEF Inv
<1>1. t \in Seq(Entry) /\ BytesOf(t) \in Nat
  BY KeptFacts
<1>2. cache' \in [Processes -> Seq(Entry)] /\ bytes' \in [Processes -> Nat] /\ cache'[p] = t
      /\ \A q \in Processes : q # p => cache'[q] = cache[q] /\ bytes'[q] = bytes[q]
  <2>1. cache' \in [Processes -> Seq(Entry)] /\ cache'[p] = t
        /\ \A q \in Processes : q # p => cache'[q] = cache[q]
    BY <1>1 DEF CacheInv
  <2>2. PICK b \in Nat : b = BytesOf(t)
    BY <1>1
  <2>3. bytes' = [bytes EXCEPT ![p] = b]
    BY <2>2
  <2> QED BY <2>1, <2>3 DEF CacheInv
<1>3. Data' = Data
  BY DEF Data
<1>4. ASSUME NEW q \in Processes
      PROVE  /\ \A i, j \in DOMAIN cache'[q] : cache'[q][i].key = cache'[q][j].key => i = j
             /\ \A i \in DOMAIN cache'[q] : cache'[q][i].data \in Data' /\ Usable(q, cache[q][i])'
             /\ Len(cache'[q]) <= MaxEntries
             /\ bytes'[q] = BytesOf(cache'[q]) /\ bytes'[q] <= MaxTotalBytes
  <2>1. CASE q = p
    BY <1>2, <1>3, <2>1 DEF Kept, Usable
  <2>2. CASE q # p
    BY <1>2, <1>3, <2>2 DEF CacheInv, Usable
  <2> QED BY <2>1, <2>2
<1> QED BY <1>2, <1>4 DEF CacheInv

LEMMA LookupInv ==
    ASSUME Inv, NEW r \in Requests, Lookup(r)
    PROVE  Inv'
<1> USE DEF Inv
<1> DEFINE h == Home[r]
           seen == req[r].snapshot
           key == Key(r, seen.top, seen.catalog)
           found == Keyed(cache[h], key)
           rest == Others(cache[h], key)
           hit == [req[r] EXCEPT !.data = found.data, !.pc = "answer"]
           miss == [req[r] EXCEPT !.key = key, !.pc = "current", !.generation = generation[h],
                                  !.data.began = known[h]]
<1>1. /\ req[r].pc = "lookup"
      /\ UNCHANGED <<world, admission, open, generation, moves>>
      /\ IF ~found.expired
         THEN /\ cache' = [cache EXCEPT ![h] = Append(rest, found)]
              /\ req' = [req EXCEPT ![r] = hit]
              /\ threads' = threads \union {r} /\ UNCHANGED bytes
         ELSE /\ cache' = [cache EXCEPT ![h] = rest]
              /\ bytes' = [bytes EXCEPT ![h] = bytes[h] - found.size]
              /\ req' = [req EXCEPT ![r] = miss]
              /\ UNCHANGED threads
  BY DEF Lookup, At
<1>2. WorldInv' /\ Data' = Data
  BY <1>1, MoveTyped, QuietWorld
<1>3. h \in Processes /\ req[r] \in Request /\ generation[h] \in Nat
  BY CacheAssumption DEF RequestInv
<1>4. key \in Keys /\ key[2] = seen.top /\ key[3] = seen.catalog
  BY <1>3 DEF Key, Keys, Request, Versions
<1>5. Kept(h, cache[h]) /\ bytes[h] = BytesOf(cache[h]) /\ Len(cache[h]) <= MaxEntries
      /\ bytes[h] <= MaxTotalBytes
  BY <1>3 DEF CacheInv, Kept
<1> HIDE DEF key
<1>6. /\ Kept(h, rest) /\ NoneOf(rest, key)
      /\ BytesOf(rest) = BytesOf(cache[h]) - found.size
      /\ Len(rest) <= Len(cache[h])
      /\ ~found.expired =>
            /\ found \in Entry /\ found.key = key /\ found.data \in Data /\ Usable(h, found)
            /\ Len(rest) = Len(cache[h]) - 1
  BY <1>5, KeptOthers
<1>7. BytesOf(cache[h]) \in Nat /\ BytesOf(rest) \in Nat /\ Len(cache[h]) \in Nat /\ Len(rest) \in Nat
  BY <1>5, <1>6, KeptFacts
<1>8. UNCHANGED <<local, sales, catalog, known>>
  BY <1>1 DEF world
<1> HIDE DEF found, rest
<1>9. MaxEntries \in Nat /\ MaxTotalBytes \in Nat
  BY CacheAssumption
<1>10. "lookup" \in InSlot /\ "answer" \in InSlot /\ "current" \in InSlot /\ "answer" \in Computing
       /\ "answer" \in Pcs /\ "current" \in Pcs
  BY DEF Pcs, InSlot, Gone, Waiting, Computing, Loading
<1>11. CASE ~found.expired
  <2>1. /\ cache' = [cache EXCEPT ![h] = Append(rest, found)] /\ req' = [req EXCEPT ![r] = hit]
        /\ threads' = threads \union {r} /\ UNCHANGED bytes
    BY <1>1, <1>11
  <2>2. found.size \in Nat
    BY <1>6, <1>11 DEF Entry
  <2>3. Kept(h, Append(rest, found)) /\ Len(Append(rest, found)) = Len(rest) + 1
        /\ BytesOf(Append(rest, found)) = BytesOf(rest) + found.size
    BY <1>6, <1>11, KeptAppend
  <2>4. CacheInv'
    <3>1. BytesOf(Append(rest, found)) = bytes[h] /\ Len(Append(rest, found)) <= MaxEntries
      BY <1>5, <1>6, <1>7, <1>9, <1>11, <2>2, <2>3
    <3>2. bytes' = [bytes EXCEPT ![h] = bytes'[h]]
      BY <2>1 DEF CacheInv
    <3> DEFINE t == Append(rest, found)
    <3>3. cache' = [cache EXCEPT ![h] = t] /\ bytes'[h] = BytesOf(t) /\ Kept(h, t)
          /\ Len(t) <= MaxEntries /\ BytesOf(t) <= MaxTotalBytes
      BY <1>5, <2>1, <2>3, <3>1
    <3> HIDE DEF t
    <3> QED BY <1>3, <1>8, <3>2, <3>3, CacheChanged
  <2>5. /\ hit \in Request /\ hit.pc = "answer" /\ hit.since = req[r].since /\ hit.data = found.data
        /\ hit.snapshot = seen /\ hit.generation = req[r].generation
    BY <1>3, <1>6, <1>10, <1>11 DEF Request, Entry
  <2> HIDE DEF hit
  <2>6. ChangesOnly(r) /\ req'[r] = hit
    BY <2>1, <2>5 DEF RequestInv, ChangesOnly
  <2>7. QueueInv' /\ WaitersInv' /\ file' \in Requests \union {Nobody}
        /\ \A q \in Requests : req'[q].pc \in InSlot <=> file' = q
    BY <1>1, <1>10, <2>5, <2>6, SteadyInv
  <2>8. SlotInv'
    BY <1>1, <1>10, <2>1, <2>5, <2>6, <2>7 DEF SlotInv, ChangesOnly
  <2>9. Reading(r)'
    <3>1. local => /\ found.data.current = found.data.comparison
                   /\ found.data.top = seen.top /\ found.data.catalog = seen.catalog
      BY <1>4, <1>6, <1>11 DEF Usable
    <3>2. IF local THEN req[r].since <= found.data.began
          ELSE req[r].since <= found.data.current /\ req[r].since <= found.data.comparison
      <4>1. known[h] \in Nat /\ req[r].since \in Nat /\ req[r].since <= known[h]
        BY <1>3 DEF WorldInv, RequestInv, Request
      <4>2. found.data.current \in Nat /\ found.data.comparison \in Nat /\ found.data.began \in Nat
        BY <1>6, <1>11 DEF Entry, Versions
      <4> QED BY <1>6, <1>11, <4>1, <4>2 DEF Usable
    <3>3. seen.current = seen.comparison
      BY DEF LoaderInv, Reading
    <3> QED BY <1>8, <2>5, <2>6, <3>1, <3>2, <3>3 DEF Reading
  <2>10. RequestInv' /\ LoaderInv'
    <3>1. req'[r].snapshot \in Data /\ req'[r].data \in Data
          /\ req'[r].since <= known[h] /\ req'[r].generation <= generation[h]
      BY <1>6, <1>11, <2>5, <2>6 DEF RequestInv
    <3> QED BY <1>1, <1>8, <2>6, <2>9, <3>1, OthersKept
  <2> QED BY <1>2, <2>4, <2>7, <2>8, <2>10
<1>12. CASE found.expired
  <2>1. /\ cache' = [cache EXCEPT ![h] = rest] /\ req' = [req EXCEPT ![r] = miss]
        /\ bytes' = [bytes EXCEPT ![h] = bytes[h] - found.size]
        /\ UNCHANGED threads
    BY <1>1, <1>12
  <2>2. bytes[h] - found.size = BytesOf(rest)
    BY <1>5, <1>6
  <2>3. bytes'[h] = BytesOf(rest) /\ bytes' = [bytes EXCEPT ![h] = bytes'[h]]
    BY <1>3, <2>1, <2>2 DEF CacheInv
  <2>4. CacheInv'
    <3>1. Len(rest) <= MaxEntries
      BY <1>5, <1>6, <1>7, <1>9
    <3>2. BytesOf(rest) <= BytesOf(cache[h])
      <4>1. CASE Keyed(cache[h], key) = NoEntry
        BY <1>6, <1>7, <4>1 DEF found, NoEntry
      <4>2. CASE Keyed(cache[h], key) # NoEntry
        <5>1. \E k \in DOMAIN cache[h] : Keyed(cache[h], key) = cache[h][k]
          BY <4>2 DEF Keyed
        <5>2. found.size \in Nat
          BY <1>5, <5>1, KeptFacts DEF found
        <5> QED BY <1>6, <1>7, <5>2
      <4> QED BY <4>1, <4>2
    <3>3. BytesOf(rest) <= MaxTotalBytes
      BY <1>5, <1>7, <1>9, <3>2
    <3> QED BY <1>3, <1>6, <1>8, <2>1, <2>3, <3>1, <3>3, CacheChanged
  <2>5. /\ miss \in Request /\ miss.pc = "current" /\ miss.since = req[r].since /\ miss.key = key
        /\ miss.snapshot = seen /\ miss.generation = generation[h] /\ miss.kind = req[r].kind
        /\ miss.data \in Data /\ miss.data.began = known[h]
    <3>1. req[r].data \in Data /\ known[h] \in Nat /\ known[h] \in 0..sales.version /\ req[r].data \in Versions
      BY <1>3, SeenTyped DEF RequestInv, WorldInv
    <3>2. PICK k \in 0..sales.version : k = known[h] /\ k \in Nat
      BY <3>1
    <3> DEFINE d == [req[r].data EXCEPT !.began = k]
    <3>3. d \in Data /\ d \in Versions /\ d.began = k
      BY <3>1, <3>2 DEF Data, Versions
    <3>4. miss = [req[r] EXCEPT !.key = key, !.pc = "current", !.generation = generation[h], !.data = d]
      BY <1>3, <3>2 DEF Request
    <3> HIDE DEF d
    <3> QED BY <1>3, <1>4, <1>10, <3>2, <3>3, <3>4 DEF Request
  <2> HIDE DEF miss
  <2>6. ChangesOnly(r) /\ req'[r] = miss
    BY <2>1, <2>5 DEF RequestInv, ChangesOnly
  <2>7. QueueInv' /\ WaitersInv' /\ file' \in Requests \union {Nobody}
        /\ \A q \in Requests : req'[q].pc \in InSlot <=> file' = q
    BY <1>1, <1>10, <2>5, <2>6, SteadyInv
  <2>8. SlotInv'
    BY <1>1, <2>1, <2>5, <2>6, <2>7 DEF SlotInv, ChangesOnly, Computing
  <2>9. Reading(r)'
    <3>1. seen.current = seen.comparison
      BY DEF LoaderInv, Reading
    <3>2. known[h] \in Nat /\ req[r].since <= known[h]
      BY <1>3 DEF WorldInv, RequestInv
    <3> QED BY <1>8, <2>5, <2>6, <3>1, <3>2 DEF Reading, Read, Key, key
  <2>10. RequestInv' /\ LoaderInv'
    <3>1. req'[r].snapshot \in Data /\ req'[r].data \in Data
          /\ req'[r].since <= known[h] /\ req'[r].generation <= generation[h]
      BY <1>3, <2>5, <2>6 DEF RequestInv
    <3> QED BY <1>1, <1>8, <2>6, <2>9, <3>1, OthersKept
  <2> QED BY <1>2, <2>4, <2>7, <2>8, <2>10
<1> QED BY <1>11, <1>12

(* A publication: the entries that had to go are gone, and the new one is    *)
(* the data set of a loader that nothing has invalidated.                    *)
LEMMA PublishInv ==
    ASSUME Inv, NEW r \in Requests, NEW size \in 1..MaxEntryBytes, Publish(r, size),
           req[r].pc = "store", Unchanged(r), UNCHANGED <<local, sales, catalog, known>>
    PROVE  CacheInv'
<1> USE DEF Inv
<1> DEFINE h == Home[r]
           s == cache[h]
           key == req[r].key
           rest == Others(s, key)
           freed == bytes[h] - Keyed(s, key).size
           gone == MakeRoom(rest, freed, size)
           left == SubSeq(rest, gone + 1, Len(rest))
           entry == [key |-> key, data |-> req[r].data, size |-> size, expired |-> FALSE]
           t == Append(left, entry)
<1>1. /\ cache' = [cache EXCEPT ![h] = t]
      /\ bytes' = [bytes EXCEPT ![h] = freed - Sums(rest)[gone] + size]
  BY DEF Publish
<1>2. h \in Processes /\ req[r] \in Request /\ req[r].data \in Data
  BY CacheAssumption DEF RequestInv
<1>3. Kept(h, s) /\ bytes[h] = BytesOf(s)
  BY <1>2 DEF CacheInv, Kept
<1>4. /\ key = Key(r, req[r].snapshot.top, req[r].snapshot.catalog)
      /\ req[r].snapshot.current = req[r].snapshot.comparison
      /\ IF local THEN /\ req[r].data.current = req[r].snapshot.current
                       /\ req[r].data.top = req[r].snapshot.top
                       /\ req[r].data.comparison = req[r].snapshot.comparison
                       /\ req[r].data.catalog = req[r].snapshot.catalog
         ELSE Read(r, req[r].data.current) /\ Read(r, req[r].data.comparison)
      /\ Read(r, req[r].data.began)
  BY DEF LoaderInv, Reading
<1>5. key \in Keys /\ key[2] = req[r].snapshot.top /\ key[3] = req[r].snapshot.catalog
  BY <1>2, <1>4 DEF Key, Keys, Request, Versions
<1>6. entry \in Entry /\ entry.key = key /\ entry.data = req[r].data /\ entry.size = size
  BY <1>2, <1>5 DEF Entry, Request
<1>7. Usable(h, entry)
  BY <1>4, <1>5, <1>6 DEF Usable, Read
<1> HIDE DEF key, entry
<1>8. /\ Kept(h, rest) /\ NoneOf(rest, key)
      /\ BytesOf(rest) = BytesOf(s) - Keyed(s, key).size
  BY <1>3, KeptOthers
<1>9. rest \in Seq(Entry) /\ Len(rest) \in Nat /\ BytesOf(rest) \in Nat /\ Sized(Entry)
  BY <1>8, KeptFacts
<1>10. gone \in 0..Len(rest) /\ Fits(rest, freed, size, gone)
  BY <1>9, RoomFacts
<1>11. freed = BytesOf(rest)
  BY <1>3, <1>8
<1>12. Sums(rest)[gone] \in Nat /\ Sums(rest)[Len(rest)] = BytesOf(rest)
  BY <1>9, <1>10, SumsFacts DEF BytesOf
<1> HIDE DEF rest, gone, freed
<1>13. /\ Kept(h, left) /\ NoneOf(left, key) /\ Len(left) = Len(rest) - gone
       /\ BytesOf(left) = BytesOf(rest) - Sums(rest)[gone]
  BY <1>8, <1>10, KeptRest
<1>14. BytesOf(left) \in Nat /\ Len(left) \in Nat
  BY <1>13, KeptFacts
<1> HIDE DEF left
<1>15. Kept(h, t) /\ Len(t) = Len(left) + 1 /\ BytesOf(t) = BytesOf(left) + size
  BY <1>2, <1>6, <1>7, <1>13, KeptAppend
<1> HIDE DEF t
<1>16. Len(t) <= MaxEntries /\ BytesOf(t) <= MaxTotalBytes
  <2>1. MaxEntries \in Nat \ {0} /\ MaxTotalBytes \in Nat /\ MaxEntryBytes \in Nat
        /\ MaxTotalBytes >= MaxEntryBytes
    BY CacheAssumption
  <2>2. CASE gone = Len(rest)
    <3>1. Len(left) = 0 /\ BytesOf(left) = 0
      BY <1>9, <1>12, <1>13, <2>2
    <3> QED BY <1>15, <2>1, <3>1
  <2>3. CASE gone # Len(rest)
    <3>1. freed - Sums(rest)[gone] + size <= MaxTotalBytes /\ Len(rest) - gone < MaxEntries
      BY <1>10, <2>3 DEF Fits
    <3> QED BY <1>9, <1>11, <1>12, <1>13, <1>14, <1>15, <2>1, <3>1
  <2> QED BY <2>2, <2>3
<1>17. bytes'[h] = BytesOf(t) /\ bytes' = [bytes EXCEPT ![h] = bytes'[h]]
  <2>1. freed - Sums(rest)[gone] + size = BytesOf(t)
    BY <1>11, <1>13, <1>15
  <2> QED BY <1>1, <1>2, <2>1 DEF CacheInv
<1> QED BY <1>1, <1>2, <1>15, <1>16, <1>17, CacheChanged

LEMMA StoreInv ==
    ASSUME Inv, NEW r \in Requests, Store(r)
    PROVE  Inv'
<1> USE DEF Inv
<1>1. /\ req[r].pc = "store" /\ Goto(r, "answer")
      /\ UNCHANGED <<world, admission, threads, open, generation, moves>>
  BY DEF Store, At
<1>2. PICK size \in Sizes :
        IF size <= MaxEntryBytes /\ Unchanged(r) THEN Publish(r, size) ELSE UNCHANGED <<cache, bytes>>
  BY DEF Store
<1>3. WorldInv' /\ Data' = Data
  BY <1>1, MoveTyped, QuietWorld
<1>4. UNCHANGED <<local, sales, catalog, known>>
  BY <1>1 DEF world
<1>5. CacheInv'
  <2>1. CASE size <= MaxEntryBytes /\ Unchanged(r)
    <3>1. size \in 1..MaxEntryBytes
      BY <2>1, CacheAssumption DEF Sizes
    <3> QED BY <1>1, <1>2, <1>4, <2>1, <3>1, PublishInv
  <2>2. CASE ~(size <= MaxEntryBytes /\ Unchanged(r))
    <3>1. UNCHANGED caches
      BY <1>1, <1>2, <2>2 DEF caches
    <3> QED BY <1>1, <3>1, QuietCaches
  <2> QED BY <2>1, <2>2
<1>6. "answer" \in Pcs /\ "answer" \in InSlot /\ "store" \in InSlot /\ "answer" \in Computing
  BY DEF Pcs, InSlot, Gone, Waiting, Computing
<1>7. /\ ChangesOnly(r) /\ req'[r].pc = "answer" /\ req'[r].since = req[r].since
      /\ req'[r].snapshot = req[r].snapshot /\ req'[r].generation = req[r].generation
      /\ req'[r].data = req[r].data
  BY <1>1, <1>6, GotoChanges
<1>8. QueueInv' /\ WaitersInv' /\ file' \in Requests \union {Nobody}
      /\ \A q \in Requests : req'[q].pc \in InSlot <=> file' = q
  BY <1>1, <1>6, <1>7, SteadyInv
<1>9. SlotInv'
  BY <1>1, <1>6, <1>7, <1>8 DEF SlotInv, ChangesOnly
<1>10. Reading(r)'
  BY <1>1, <1>4, <1>7 DEF LoaderInv, Reading, Read
<1>11. RequestInv' /\ LoaderInv'
  BY <1>1, <1>4, <1>7, <1>10, OthersKept DEF RequestInv
<1> QED BY <1>3, <1>5, <1>8, <1>9, <1>11

-----------------------------------------------------------------------------
(* Every step keeps the invariant.                                           *)

LEMMA EnvironmentInv ==
    ASSUME Inv, Environment
    PROVE  Inv'
<1>1. sales.next \in Nat /\ sales.next >= 2 /\ sales.top \in {sales.next - 1, sales.next - 2}
  BY DEF Inv, WorldInv
<1>2. CASE SyncCatalog
  BY <1>2, SyncInv
<1>3. ASSUME NEW p \in Processes, DeleteSales(p) PROVE Inv'
  <2>1. CASE Commit(p, sales.top, sales.next)
    BY <1>1, <2>1, CommitInv
  <2>2. CASE sales.top = sales.next - 1 /\ Commit(p, sales.top - 1, sales.next)
    <3>1. sales.top - 1 = sales.next - 2
      BY <1>1, <2>2
    <3> QED BY <1>1, <2>2, <3>1, CommitInv
  <2> QED BY <1>3, <2>1, <2>2 DEF DeleteSales
<1>4. ASSUME NEW p \in Processes, ImportSales(p) PROVE Inv'
  <2>1. sales.next + 1 \in Nat /\ sales.next + 1 >= sales.next /\ sales.next = (sales.next + 1) - 1
    BY <1>1
  <2>2. Commit(p, sales.next, sales.next + 1)
    BY <1>4 DEF ImportSales
  <2> DEFINE next == sales.next + 1
  <2>3. sales.next \in {next - 1, next - 2}
    BY <2>1
  <2> QED BY <2>1, <2>2, <2>3, CommitInv
<1>5. ASSUME NEW p \in Processes, Invalidate(p) \/ ExpireEntry(p) PROVE Inv'
  BY <1>5, InvalidateInv, ExpireInv
<1> QED BY <1>2, <1>3, <1>4, <1>5 DEF Environment

(* Every way out of the slot.                                                *)
LEMMA EndInv ==
    ASSUME Inv, NEW r \in Requests,
           GiveUp(r) \/ Rollback(r) \/ Answer(r) \/ Drain(r) \/ Close(r) \/ Fail(r)
    PROVE  Inv'
<1>1. /\ req[r].pc \notin Computing \union {"drain"} => r \notin threads
      /\ req[r].pc \notin {"transaction", "rollback", "close", "left"} => r \notin open
  BY DEF Inv, SlotInv
<1>2. CASE GiveUp(r)
  <2>1. req[r].pc \in Waiting /\ req[r].pc \notin Gone /\ r \notin threads /\ r \notin open
    BY <1>1, <1>2 DEF GiveUp, Waiting, Gone, Computing
  <2>2. Leave(r) /\ UNCHANGED <<world, threads, open, caches, moves>>
    BY <1>2 DEF GiveUp
  <2> QED BY <2>1, <2>2, LeaveAll
<1>3. CASE Rollback(r) \/ (At(r, "close") /\ Close(r))
  <2>1. req[r].pc \in {"rollback", "close"} /\ req[r].pc \notin Gone /\ r \notin threads
    BY <1>1, <1>3 DEF Rollback, At, Gone, Computing
  <2>2. Leave(r) /\ open' = open \ {r} /\ UNCHANGED <<world, threads, caches, moves>>
    BY <1>3 DEF Rollback, Close, At
  <2> QED BY <2>1, <2>2, LeaveAll
<1>4. CASE Answer(r) \/ Drain(r)
  <2>1. req[r].pc \in {"answer", "drain"} /\ req[r].pc \notin Gone /\ r \notin open
    BY <1>1, <1>4 DEF Answer, Drain, At, Gone
  <2>2. Leave(r) /\ threads' = threads \ {r} /\ UNCHANGED <<world, open, caches, moves>>
    BY <1>4 DEF Answer, Drain
  <2> QED BY <2>1, <2>2, LeaveAll
<1>5. CASE Fail(r)
  <2>1. req[r].pc \in Loading \union Computing /\ req[r].pc \notin Gone /\ r \notin open
    BY <1>1, <1>5 DEF Fail, Loading, Computing, Gone
  <2>2. Leave(r) /\ Move /\ threads' = threads \ {r} /\ UNCHANGED <<world, open, caches>>
    BY <1>5 DEF Fail
  <2> QED BY <2>1, <2>2, LeaveAll
<1>6. CASE At(r, "left") /\ Close(r)
  <2>1. req[r].pc = "left" /\ req' = [req EXCEPT ![r] = Ended] /\ open' = open \ {r}
        /\ UNCHANGED <<world, admission, threads, caches, moves>>
    BY <1>6 DEF Close, At
  <2> QED BY <2>1, CloseLeftInv
<1>7. Close(r) => At(r, "close") \/ At(r, "left")
  BY DEF Close
<1> QED BY <1>2, <1>3, <1>4, <1>5, <1>6, <1>7

LEMMA CancelInv ==
    ASSUME Inv, NEW r \in Requests, Cancel(r)
    PROVE  Inv'
<1>1. /\ req[r].pc \notin Computing \union {"drain"} => r \notin threads
      /\ req[r].pc \notin {"transaction", "rollback", "close", "left"} => r \notin open
  BY DEF Inv, SlotInv
<1>2. Move /\ UNCHANGED <<world, threads, open, caches>>
  BY DEF Cancel
<1>3. CASE req[r].pc \in Waiting \union Loading /\ Leave(r)
  <2>1. req[r].pc \notin Gone /\ r \notin threads /\ r \notin open
    BY <1>1, <1>3 DEF Waiting, Loading, Gone, Computing
  <2> QED BY <1>2, <1>3, <2>1, LeaveAll
<1>4. CASE req[r].pc \in Computing /\ Cancelled(r, "drain")
  BY <1>2, <1>4, CancelledAll
<1>5. CASE At(r, "transaction") /\ Cancelled(r, "rollback")
  BY <1>2, <1>5, CancelledAll DEF At
<1>6. CASE At(r, "rollback") /\ Cancelled(r, "close")
  BY <1>2, <1>6, CancelledAll DEF At
<1>7. CASE At(r, "close") /\ LeaveOpen(r)
  BY <1>2, <1>7, LeaveOpenInv DEF At
<1> QED BY <1>3, <1>4, <1>5, <1>6, <1>7 DEF Cancel

LEMMA ReportInv ==
    ASSUME Inv, NEW r \in Requests, Report(r)
    PROVE  Inv'
<1>1. req[r].pc = "transaction" /\ Goto(r, "rollback")
      /\ UNCHANGED <<world, admission, threads, open, caches, moves>>
  BY DEF Report, At
<1> DEFINE n == [req[r] EXCEPT !.pc = "rollback"]
<1>2. req[r] \in Request /\ "rollback" \in Pcs
  BY DEF Inv, RequestInv, Pcs
<1>3. req' = [req EXCEPT ![r] = n]
  BY <1>1 DEF Goto
<1>4. /\ n \in Request /\ n.since = req[r].since /\ n.snapshot = req[r].snapshot
      /\ n.generation = req[r].generation /\ n.data = req[r].data /\ n.pc = "rollback"
  BY <1>2 DEF Request
<1> HIDE DEF n
<1> QED BY <1>1, <1>3, <1>4, StayAll

LEMMA StutterInv ==
    ASSUME Inv, UNCHANGED vars
    PROVE  Inv'
<1> USE DEF Inv
<1>1. UNCHANGED <<local, sales, catalog, told, known, req, queue, file, waiters, threads, open, cache,
                  bytes, generation, moves>>
  BY DEF vars, world, admission, caches
<1>2. WorldInv' /\ RequestInv'
  BY <1>1 DEF WorldInv, RequestInv, Data
<1>3. QueueInv' /\ SlotInv'
  BY <1>1 DEF QueueInv, SlotInv
<1>4. WaitersInv'
  BY <1>1 DEF WaitersInv, AtHome
<1>5. CacheInv'
  <2>1. UNCHANGED <<world, caches>>
    BY <1>1 DEF world, caches
  <2> QED BY <2>1, QuietCaches
<1>6. LoaderInv'
  BY <1>1 DEF LoaderInv, Reading, Read, Unchanged, Key
<1> QED BY <1>2, <1>3, <1>4, <1>5, <1>6

LEMMA NextInv == Inv /\ [Next]_vars => Inv'
<1>1. ASSUME Inv, NEW r \in Requests, Step(r) PROVE Inv'
  BY <1>1, ArriveInv, EnterLoopInv, EnterFileInv, ReportInv, ReadMaxInv, LookupInv, ReadCurrentInv,
     ReadComparisonInv, MergeInv, StoreInv, EndInv DEF Step
<1>2. ASSUME Inv, NEW r \in Requests, Cancel(r) \/ Fail(r) PROVE Inv'
  BY <1>2, CancelInv, EndInv
<1> QED BY <1>1, <1>2, EnvironmentInv, StutterInv DEF Next

(* The invariant holds whatever requests, changes, expiries, cancellations    *)
(* and failures come in what order.                                          *)
THEOREM InvTheorem == Spec => []Inv
<1> QED BY InitInv, NextInv, PTL DEF Spec

-----------------------------------------------------------------------------
(* Every value keeps its type, and the cache its limits and its book-keeping: *)
(* the bytes it counts are those of its entries, whatever was published,     *)
(* expired, evicted or invalidated in what order                             *)
(* (product_analytics_cache._lookup, _publish and invalidate).               *)
THEOREM TypesTheorem == Spec => []TypeOK
<1>1. Inv => TypeOK
  <2> SUFFICES ASSUME Inv PROVE TypeOK
    OBVIOUS
  <2> USE DEF Inv
  <2>1. local \in BOOLEAN /\ catalog \in Nat \ {0} /\ moves \in 0..MaxMoves
        /\ sales.top < sales.next /\ sales.version \in Nat
    BY DEF WorldInv
  <2>2. ASSUME NEW r \in Requests
        PROVE  /\ req[r].pc \in Pcs /\ req[r].since \in 0..sales.version
               /\ req[r].snapshot \in Data /\ req[r].data \in Data
    <3>1. req[r] \in Request /\ req[r].since <= known[Home[r]] /\ known[Home[r]] \in Nat
          /\ known[Home[r]] <= sales.version
      BY CacheAssumption DEF RequestInv, WorldInv
    <3>2. req[r].since \in Nat
      BY <3>1 DEF Request
    <3> QED BY <2>1, <3>1, <3>2 DEF RequestInv, Request
  <2>3. file \in Requests \union {Nobody} /\ threads \subseteq Requests /\ open \subseteq Requests
    BY DEF SlotInv
  <2>4. ASSUME NEW p \in Processes
        PROVE  /\ Range(queue[p]) \subseteq {r \in Requests : Home[r] = p}
               /\ known[p] \in 0..sales.version /\ told[p] \in 0..sales.version
               /\ bytes[p] = BytesOf(cache[p]) /\ bytes[p] <= MaxTotalBytes
               /\ Len(cache[p]) <= MaxEntries
               /\ \A i, j \in DOMAIN cache[p] : (cache[p][i].key = cache[p][j].key => i = j)
               /\ \A i \in DOMAIN cache[p] : cache[p][i].data \in Data
    <3>1. \A i \in DOMAIN queue[p] : queue[p][i] \in Requests /\ Home[queue[p][i]] = p
      BY ElementOfSeq, LenProperties DEF QueueInv
    <3>2. Range(queue[p]) \subseteq {r \in Requests : Home[r] = p}
      BY <3>1 DEF Range
    <3>3. known[p] \in 0..sales.version /\ told[p] \in 0..sales.version
      BY <2>1 DEF WorldInv
    <3> QED BY <3>2, <3>3 DEF CacheInv
  <2> QED BY <2>1, <2>2, <2>3, <2>4 DEF TypeOK
<1> QED BY <1>1, InvTheorem, PTL

(* At most one heavy operation over all processes, and no place is lost or   *)
(* counted twice, however many requests there are and whoever is refused,    *)
(* timed out or cancelled: only a request that was cancelled twice can leave *)
(* the slot before its transaction (heavy_operation, run_cpu,                *)
(* report_transaction, get_db).                                              *)
THEOREM OneAtATimeTheorem == Spec => []OneAtATime
<1>1. Inv => OneAtATime
  <2> SUFFICES ASSUME Inv PROVE OneAtATime
    OBVIOUS
  <2> USE DEF Inv
  <2>1. threads \subseteq {file} /\ \A r \in open : r = file \/ req[r].cancels >= 2
    <3>1. \A r \in threads : r \in Requests /\ req[r].pc \in InSlot
      BY DEF SlotInv, InSlot, Computing, Pcs, Waiting, Gone
    <3>2. \A r \in open : r \in Requests /\ (req[r].pc \in InSlot \/ req[r].pc = "left")
      BY DEF SlotInv, InSlot, Pcs, Waiting, Gone
    <3>3. \A r \in Requests : req[r].pc = "left" => req[r].cancels >= 2
      BY DEF LoaderInv, Reading
    <3> QED BY <3>1, <3>2, <3>3 DEF SlotInv
  <2>2. ASSUME file # Nobody
        PROVE  Head(queue[Home[file]]) = file /\ req[file].pc \notin Waiting \union Gone
    <3>1. file \in Requests /\ req[file].pc \in InSlot
      BY <2>2 DEF SlotInv
    <3>2. Home[file] \in Processes /\ queue[Home[file]] \in Seq(Requests)
      BY <3>1, CacheAssumption DEF QueueInv
    <3>3. req[file].pc \notin Gone /\ req[file].pc \in Covered /\ req[file].pc \notin Waiting
      BY <3>1 DEF InSlot, Covered, Waiting
    <3>4. queue[Home[file]][1] = file /\ \E i \in DOMAIN queue[Home[file]] : queue[Home[file]][i] = file
      BY <3>1, <3>3 DEF QueueInv
    <3>5. Len(queue[Home[file]]) # 0
      BY <3>2, <3>4, LenProperties
    <3>6. Head(queue[Home[file]]) = file
      BY <3>2, <3>4, <3>5
    <3> QED BY <3>3, <3>6 DEF Gone
  <2>3. ASSUME NEW p \in Processes
        PROVE  /\ waiters[p] = Cardinality({r \in Requests : Home[r] = p /\ req[r].pc \in Waiting})
               /\ waiters[p] <= MaxWaiters
               /\ \A i \in DOMAIN queue[p] : req[queue[p][i]].pc \notin Gone
    BY DEF WaitersInv, AtHome, QueueInv, Gone
  <2> QED BY <2>1, <2>2, <2>3 DEF OneAtATime
<1> QED BY <1>1, InvTheorem, PTL

(* An answer is not older than what its process was told before the request, *)
(* though its loader may have begun before the change and ended after it;    *)
(* with the local catalog it is of one moment, and older only if its         *)
(* loader's snapshot already was (_dataset, _cached_product_dataset).        *)
THEOREM AnswersFreshTheorem == Spec => []AnswersFresh
<1>1. Inv => AnswersFresh
  <2> SUFFICES ASSUME Inv, NEW r \in Requests, req[r].pc = "answer"
               PROVE  /\ local => /\ req[r].data.current = req[r].data.comparison
                                  /\ <<req[r].data.top, req[r].data.catalog>>
                                       = <<req[r].snapshot.top, req[r].snapshot.catalog>>
                      /\ \/ {req[r].data.current, req[r].data.comparison} \subseteq req[r].since..sales.version
                         \/ local /\ req[r].data.current < req[r].data.began
    BY DEF AnswersFresh, At
  <2> USE DEF Inv
  <2>1. IF local THEN /\ req[r].data.current = req[r].data.comparison
                      /\ req[r].data.top = req[r].snapshot.top
                      /\ req[r].data.catalog = req[r].snapshot.catalog
                      /\ req[r].since <= req[r].data.began
        ELSE req[r].since <= req[r].data.current /\ req[r].since <= req[r].data.comparison
    BY DEF LoaderInv, Reading
  <2>2. req[r].since \in Nat /\ sales.version \in Nat /\ req[r].data.began \in 0..sales.version
        /\ req[r].data.current \in 0..sales.version /\ req[r].data.comparison \in 0..sales.version
    BY DEF RequestInv, Request, WorldInv, Data
  <2> QED BY <2>1, <2>2
<1> QED BY <1>1, InvTheorem, PTL
=============================================================================
