------------------------ MODULE AnalyticsSignalsProofs ------------------------
EXTENDS AnalyticsSignals, SqlProofs, SequenceTheorems

(* A table whose rows are numbered as they are added.                        *)
Table(s) == Len(s) \in Nat /\ s = [i \in 1..Len(s) |-> s[i]]

LEMMA TableIsSeq ==
    ASSUME NEW s, Table(s)
    PROVE  s \in Seq({s[i] : i \in 1..Len(s)}) /\ DOMAIN s = 1..Len(s)
<1> DEFINE S == {s[i] : i \in 1..Len(s)}
<1>1. s \in [1..Len(s) -> S] /\ Len(s) \in Nat
  BY DEF Table
<1> HIDE DEF S
<1>2. s \in Seq(S)
  BY <1>1
<1> QED
  BY <1>1, <1>2 DEF S

(* A new row comes last.                                                     *)
LEMMA RowAppended ==
    ASSUME NEW s, Table(s), NEW e
    PROVE  /\ Table(Append(s, e)) /\ Len(Append(s, e)) = Len(s) + 1
           /\ \A i \in 1..Len(s) : Append(s, e)[i] = s[i]
           /\ Append(s, e)[Len(s) + 1] = e
<1> DEFINE S == {s[i] : i \in 1..Len(s)} \union {e}
<1>1. s \in Seq(S) /\ e \in S /\ Len(s) \in Nat
  <2>1. {s[i] : i \in 1..Len(s)} \subseteq S
    OBVIOUS
  <2> QED
    BY <2>1, TableIsSeq DEF Table
<1> HIDE DEF S
<1>2. /\ Append(s, e) \in Seq(S) /\ Len(Append(s, e)) = Len(s) + 1
      /\ \A i \in 1..Len(s) : Append(s, e)[i] = s[i]
      /\ Append(s, e)[Len(s) + 1] = e
  BY <1>1
<1>3. Append(s, e) \in [1..Len(Append(s, e)) -> S] /\ Len(Append(s, e)) \in Nat
  BY <1>2, LenProperties
<1>4. Table(Append(s, e))
  BY <1>3, Zenon DEF Table
<1> QED
  BY <1>2, <1>4

(* A row is changed in its place.                                            *)
LEMMA RowChanged ==
    ASSUME NEW s, Table(s), NEW r \in 1..Len(s), NEW e
    PROVE  LET t == [s EXCEPT ![r] = e] IN
           /\ Table(t) /\ Len(t) = Len(s) /\ t[r] = e
           /\ \A i \in 1..Len(s) : i # r => t[i] = s[i]
<1> DEFINE S == {s[i] : i \in 1..Len(s)} \union {e}
           t == [s EXCEPT ![r] = e]
<1>1. s \in [1..Len(s) -> S] /\ e \in S /\ Len(s) \in Nat
  <2>1. {s[i] : i \in 1..Len(s)} \subseteq S
    OBVIOUS
  <2> QED
    BY <2>1 DEF Table
<1> HIDE DEF S
<1>2. t \in [1..Len(s) -> S] /\ t[r] = e /\ \A i \in 1..Len(s) : i # r => t[i] = s[i]
  BY <1>1
<1>3. Len(t) = Len(s) /\ t \in Seq(S)
  BY <1>1, <1>2
<1>4. Table(t)
  BY <1>1, <1>2, <1>3 DEF Table
<1> QED
  BY <1>2, <1>3, <1>4

-----------------------------------------------------------------------------
(* Episodes *)

Episode(s) ==
    s \in [status : Open \union {"RESOLVED"}, reason : {s.reason}, asOf : {s.asOf},
           evidence : {s.evidence}, anchor : {s.anchor}, revision : Nat \ {0}]

(* A purchase closes an open episode with one revision.                      *)
LEMMA EpisodePurchased ==
    ASSUME NEW s, Episode(s), NEW run, NEW facts
    PROVE  LET t == Purchased(run, s, facts) IN
           Episode(t) /\ (t = s \/ (s.status \in Open /\ t.status = "RESOLVED" /\ t.revision = s.revision + 1))
<1>1. s.revision + 1 \in Nat \ {0}
  BY DEF Episode
<1>2. CASE s.status \in Open /\ facts.features.last > s.anchor
  <2> DEFINE t == Purchased(run, s, facts)
  <2>1. t = [s EXCEPT !.status = "RESOLVED", !.reason = "PURCHASE_OCCURRED", !.asOf = run.asOf,
                      !.evidence = Evidence(run, facts), !.revision = s.revision + 1]
    BY <1>2 DEF Purchased
  <2>2. /\ t.status = "RESOLVED" /\ t.reason = "PURCHASE_OCCURRED" /\ t.asOf = run.asOf
        /\ t.evidence = Evidence(run, facts) /\ t.anchor = s.anchor
        /\ t.revision = s.revision + 1
    BY <2>1 DEF Episode
  <2>3. t \in [status : Open \union {"RESOLVED"}, reason : {"PURCHASE_OCCURRED"},
               asOf : {run.asOf}, evidence : {Evidence(run, facts)}, anchor : {s.anchor},
               revision : Nat \ {0}]
    BY <1>1, <2>1 DEF Episode
  <2> HIDE DEF t
  <2>4. Episode(t)
    BY <2>2, <2>3, Zenon DEF Episode
  <2> QED
    BY <1>2, <2>2, <2>4 DEF t
<1> QED
  BY <1>2 DEF Purchased

(* Whatever the verdict, a step of an episode is one revision or none.       *)
LEMMA EpisodeReevaluated ==
    ASSUME NEW s, Episode(s), NEW run, NEW facts
    PROVE  LET t == Reevaluated(run, s, facts) IN
           /\ Episode(t)
           /\ t = s \/ (s.status \in Open /\ t.revision = s.revision + 1)
           /\ s.status \in Open => t.status = Judgement(s, facts).status
<1> DEFINE j == Judgement(s, facts)
           u == [s EXCEPT !.status = j.status, !.reason = j.reason, !.asOf = run.asOf,
                          !.evidence = Evidence(run, facts)]
           t == [u EXCEPT !.revision = @ + 1]
<1>1. j.status \in Open \union {"RESOLVED"} /\ s.revision + 1 \in Nat \ {0}
  BY DEF Judgement, Open, Episode
<1>2. Reevaluated(run, s, facts) = IF s.status \notin Open \/ u = s THEN s ELSE t
  BY DEF Reevaluated
<1> HIDE DEF j
<1>3. u.status = j.status /\ u.revision = s.revision
  BY DEF Episode
<1>4. t = [s EXCEPT !.status = j.status, !.reason = j.reason, !.asOf = run.asOf,
                    !.evidence = Evidence(run, facts), !.revision = s.revision + 1]
  BY <1>3
<1>5. Episode(t) /\ t.status = j.status /\ t.revision = s.revision + 1
  <2> HIDE DEF t, u
  <2>1. /\ t.status = j.status /\ t.reason = j.reason /\ t.asOf = run.asOf
        /\ t.evidence = Evidence(run, facts) /\ t.anchor = s.anchor
        /\ t.revision = s.revision + 1
    BY <1>4 DEF Episode
  <2>2. t \in [status : Open \union {"RESOLVED"}, reason : {j.reason}, asOf : {run.asOf},
               evidence : {Evidence(run, facts)}, anchor : {s.anchor}, revision : Nat \ {0}]
    BY <1>1, <1>4 DEF Episode
  <2> QED
    BY <2>1, <2>2, Zenon DEF Episode
<1> HIDE DEF u, t
<1> QED
  BY <1>2, <1>3, <1>5 DEF j

(* What a batch makes of a client's latest episode.                          *)
Moved(run, s, facts) == Reevaluated(run, Purchased(run, s, facts), facts)

LEMMA EpisodeMoved ==
    ASSUME NEW s, Episode(s), NEW run, NEW facts
    PROVE  LET t == Moved(run, s, facts) IN
           Episode(t) /\ (t = s \/ (s.status \in Open /\ t.revision = s.revision + 1))
<1> DEFINE b == Purchased(run, s, facts)
           t == Moved(run, s, facts)
<1>1. Episode(b) /\ (b = s \/ (s.status \in Open /\ b.status = "RESOLVED" /\ b.revision = s.revision + 1))
  BY EpisodePurchased
<1>2. t = Reevaluated(run, b, facts)
  BY DEF Moved
<1> HIDE DEF b, t
<1>3. Episode(t) /\ (t = b \/ (b.status \in Open /\ t.revision = b.revision + 1))
  BY <1>1, <1>2, EpisodeReevaluated
<1>4. "RESOLVED" \notin Open
  BY DEF Open
<1> QED
  BY <1>1, <1>3, <1>4 DEF t

(* The episodes of a client before and after a batch.                        *)
Follows(old, new) ==
    /\ Table(new) /\ Len(new) \in {Len(old), Len(old) + 1}
    /\ \A e \in 1..Len(new) : Episode(new[e])
    /\ \A e \in 1..Len(old) : new[e] = old[e] \/
          (e = Len(old) /\ old[e].status \in Open /\ new[e].revision = old[e].revision + 1)
    /\ Len(new) = Len(old) + 1 =>
          /\ new[Len(new)].revision = 1 /\ new[Len(new)].status = "ACTIVE"
          /\ Len(old) > 0 => new[Len(old)].status = "RESOLVED"

LEMMA EpisodesFollow ==
    ASSUME NEW c, Table(episodes[c]), \A e \in 1..Len(episodes[c]) : Episode(episodes[c][e]),
           NEW run, NEW facts
    PROVE  Follows(episodes[c], Reconciled(run, c, facts))
<1> DEFINE old  == episodes[c]
           n    == Len(old)
           kept == [e \in 1..n |-> IF e < n THEN old[e]
                                   ELSE Reevaluated(run, Purchased(run, Latest(c), facts), facts)]
           new  == Reconciled(run, c, facts)
           more == NewEpisode(run, facts)
<1>0. n \in Nat
  BY DEF Table
<1>1. new = IF facts.verdict.risk /\ (n = 0 \/ kept[n].status = "RESOLVED")
            THEN Append(kept, more) ELSE kept
  BY DEF Reconciled
<1>2. n > 0 => LET t == kept[n] IN
                 Episode(t) /\ (t = old[n] \/ (old[n].status \in Open /\ t.revision = old[n].revision + 1))
  BY <1>0, EpisodeMoved DEF Moved, Latest
<1>3. Len(kept) = n /\ Table(kept)
  BY <1>0 DEF Table
<1>4. \A e \in 1..n : Episode(kept[e]) /\ (e < n => kept[e] = old[e])
  BY <1>0, <1>2
<1>5. Episode(more) /\ more.revision = 1 /\ more.status = "ACTIVE"
  <2>1. more \in [status : Open \union {"RESOLVED"}, reason : {more.reason}, asOf : {more.asOf},
                  evidence : {more.evidence}, anchor : {more.anchor}, revision : Nat \ {0}]
    BY DEF NewEpisode, Open
  <2> QED
    BY <2>1 DEF NewEpisode, Episode
<1>6. /\ Table(Append(kept, more)) /\ Len(Append(kept, more)) = n + 1
      /\ \A i \in 1..n : Append(kept, more)[i] = kept[i]
      /\ Append(kept, more)[n + 1] = more
  BY <1>3, RowAppended
<1> HIDE DEF kept, new, more, n
<1>n. n = Len(old)
  BY DEF n
<1> HIDE DEF old
<1>9. \A e \in 1..n : kept[e] = old[e] \/
          (e = n /\ old[e].status \in Open /\ kept[e].revision = old[e].revision + 1)
  BY <1>0, <1>2, <1>4
<1>7. ASSUME new = kept PROVE Follows(old, new)
  <2>1. Table(new) /\ Len(new) = n /\ \A e \in 1..n : Episode(new[e])
    BY <1>3, <1>4, <1>7
  <2> QED
    BY <1>0, <1>7, <1>9, <1>n, <2>1 DEF Follows
<1>8. ASSUME new = Append(kept, more), n = 0 \/ kept[n].status = "RESOLVED"
      PROVE  Follows(old, new)
  <2>1. Table(new) /\ Len(new) = n + 1 /\ new[n + 1] = more /\ \A e \in 1..n : new[e] = kept[e]
    BY <1>6, <1>8
  <2>2. \A e \in 1..(n + 1) : Episode(new[e])
    BY <1>0, <1>4, <1>5, <2>1
  <2>3. n > 0 => new[n].status = "RESOLVED"
    BY <1>0, <1>8, <2>1
  <2> QED
    BY <1>0, <1>5, <1>9, <1>n, <2>1, <2>2, <2>3 DEF Follows
<1> QED
  BY <1>1, <1>7, <1>8 DEF new, old

(* A published run's verdict on a client is what the batch has computed.     *)
LEMMA RowTells ==
    ASSUME NEW c, Table(episodes[c]), \A e \in 1..Len(episodes[c]) : Episode(episodes[c][e]),
           NEW run, NEW facts, facts.verdict.risk => facts.verdict.eligible
    PROVE  Row(facts, Reconciled(run, c, facts)).status = "ACTIVE" <=> facts.verdict.risk
<1> DEFINE old  == episodes[c]
           n    == Len(old)
           kept == [e \in 1..n |-> IF e < n THEN old[e]
                                   ELSE Reevaluated(run, Purchased(run, Latest(c), facts), facts)]
           new  == Reconciled(run, c, facts)
           more == NewEpisode(run, facts)
<1>0. n \in Nat
  BY DEF Table
<1>1. new = IF facts.verdict.risk /\ (n = 0 \/ kept[n].status = "RESOLVED")
            THEN Append(kept, more) ELSE kept
  BY DEF Reconciled
<1>2. ASSUME n > 0
      PROVE  /\ facts.verdict.risk => kept[n].status \in {"ACTIVE", "RESOLVED"}
             /\ ~facts.verdict.risk => kept[n].status # "ACTIVE"
  <2> DEFINE b == Purchased(run, old[n], facts)
  <2>1. Episode(old[n])
    BY <1>0, <1>2
  <2>2. Episode(b)
    BY <2>1, EpisodePurchased
  <2>3. kept[n] = Reevaluated(run, b, facts)
    BY <1>0, <1>2 DEF Latest
  <2> HIDE DEF b, kept
  <2>4. kept[n] = b \/ b.status \in Open
    BY <2>2, <2>3, EpisodeReevaluated
  <2>5. b.status \in Open => kept[n].status = Judgement(b, facts).status
    BY <2>2, <2>3, EpisodeReevaluated
  <2>6. b.status \in Open \union {"RESOLVED"}
    BY <2>2 DEF Episode
  <2>7. /\ facts.verdict.risk => Judgement(b, facts).status \in {"ACTIVE", "RESOLVED"}
        /\ ~facts.verdict.risk => Judgement(b, facts).status # "ACTIVE"
    BY DEF Judgement
  <2> QED
    BY <2>4, <2>5, <2>6, <2>7 DEF Open
<1>3. Len(kept) = n /\ Table(kept)
  BY <1>0 DEF Table
<1>4. /\ Len(Append(kept, more)) = n + 1 /\ Append(kept, more)[n + 1] = more
      /\ more.status = "ACTIVE"
  BY <1>3, RowAppended DEF NewEpisode
<1>5. Row(facts, new).status = IF new = <<>> THEN "NORMAL" ELSE new[Len(new)].status
  BY DEF Row
<1> HIDE DEF kept, new, more, n
<1>6. CASE new = Append(kept, more) /\ facts.verdict.risk
  <2>1. Append(kept, more) # <<>>
    <3> DEFINE longer == Append(kept, more)
    <3>1. Len(longer) # 0 /\ Len(<<>>) = 0
      BY <1>0, <1>4
    <3> HIDE DEF longer
    <3>2. longer # <<>>
      BY <3>1, Zenon
    <3> QED
      BY <3>2 DEF longer
  <2> QED
    BY <1>4, <1>5, <1>6, <2>1 DEF new
<1>7. CASE new = kept /\ n = 0 /\ ~facts.verdict.risk
  <2>1. kept = <<>>
    BY <1>3, <1>7 DEF Table
  <2> QED
    BY <1>5, <1>7, <2>1 DEF new
<1>8. CASE new = kept /\ n > 0
             /\ (facts.verdict.risk => kept[n].status # "RESOLVED")
  <2>1. kept # <<>>
    BY <1>3, <1>8
  <2> QED
    BY <1>2, <1>3, <1>5, <1>8, <2>1 DEF new
<1> QED
  BY <1>0, <1>1, <1>6, <1>7, <1>8

-----------------------------------------------------------------------------
(* Pages and sums *)

(* Max is a greatest member where there is one.                              *)
LEMMA Greatest ==
    ASSUME NEW S \in SUBSET Nat, S # {}, NEW n \in Nat, \A x \in S : x <= n
    PROVE  Max(S) \in S /\ \A x \in S : x <= Max(S)
<1> DEFINE T == {n - x : x \in S}
<1>1. T \in SUBSET Nat /\ T # {}
  <2>1. \A x \in S : n - x \in Nat
    OBVIOUS
  <2> QED BY <2>1, Zenon
<1>2. PICK t \in T : \A u \in T : t <= u
  BY <1>1, FirstRow
<1>3. PICK m \in S : t = n - m
  BY <1>2
<1>4. \A x \in S : m >= x
  <2> TAKE x \in S
  <2>1. n - m <= n - x
    BY <1>2, <1>3
  <2> QED BY <2>1
<1>5. Max(S) \in S /\ \A x \in S : Max(S) >= x
  BY <1>4 DEF Max
<1> QED BY <1>5

(* A finite set of rows has a last one.                                      *)
LEMMA LastRow ==
    ASSUME NEW S, IsFiniteSet(S), \A s \in S : s.id \in Nat
    PROVE  \E n \in Nat : \A s \in S : s.id <= n
<1> DEFINE R == StrictSubsetOrdering(S)
           F == FiniteSubsetsOf(S)
           Bounded(T) == \E n \in Nat : \A s \in T : s.id <= n
           U == {T \in F : ~Bounded(T)}
<1>1. IsWellFoundedOn(R, F)
  BY FS_StrictSubsetOrderingWellFounded
<1>2. S \in F
  BY DEF FiniteSubsetsOf
<1>3. SUFFICES ASSUME U # {} PROVE FALSE
  BY <1>2
<1>4. U \subseteq F
  OBVIOUS
<1>5. PICK T \in U : \A V \in U : ~(<<V, T>> \in R)
  <2> HIDE DEF R, F, U
  <2> QED BY <1>1, <1>3, <1>4, WFMin, Zenon
<1>6. T \subseteq S /\ IsFiniteSet(T) /\ ~Bounded(T)
  BY <1>5 DEF FiniteSubsetsOf
<1>7. PICK x \in T : TRUE
  BY <1>6
<1>8. T \ {x} \in F /\ <<T \ {x}, T>> \in R
  <2>1. IsFiniteSet(T \ {x})
    BY <1>6, FS_RemoveElement
  <2>2. T \ {x} \subseteq S /\ T \ {x} # T /\ T \ {x} \subseteq T
    BY <1>6, <1>7
  <2> QED BY <1>6, <2>1, <2>2 DEF FiniteSubsetsOf, StrictSubsetOrdering
<1>9. PICK n \in Nat : \A s \in T \ {x} : s.id <= n
  BY <1>5, <1>8
<1>10. \A s \in T : s.id <= n + x.id
  BY <1>6, <1>7, <1>9
<1> QED BY <1>6, <1>7, <1>10

(* What a page of ORDER BY ... LIMIT is when it is not empty.                 *)
LEMMA PageOf ==
    ASSUME NEW S \in SUBSET Nat, NEW n \in Nat, \A x \in S : x <= n, NEW limit \in Int,
           First(S, limit) # {}
    PROVE  /\ Max(First(S, limit)) \in S
           /\ \A x \in S : x \in First(S, limit) <=> x <= Max(First(S, limit))
<1> DEFINE P == First(S, limit)
<1>1. P \subseteq S /\ P \in SUBSET Nat /\ IsFiniteSet(S)
  BY FS_BoundedSetOfNaturals DEF First
<1>2. Max(P) \in P /\ \A x \in P : x <= Max(P)
  <2> HIDE DEF P
  <2> QED BY <1>1, Greatest DEF P
<1>3. \A x \in S : x <= Max(P) => x \in P
  BY <1>1, <1>2, FirstIsPrefix
<1> QED BY <1>1, <1>2, <1>3

(* What the purchase days must say of a set of sales.                        *)
DaysOf(S) == {<<s.client, s.date>> : s \in S}
On(S, k) == {s \in S : <<s.client, s.date>> = k}
Counts(S) ==
    [k \in DaysOf(S) |->
        [checks |-> Cardinality({s \in S : <<s.client, s.date>> = k}),
         positive |-> Cardinality({s \in S : <<s.client, s.date>> = k /\ s.positive})]]

(* What a page of sales B adds to the purchase days D.                        *)
Added(D, B) ==
    LET old(k) == IF k \in DOMAIN D THEN D[k] ELSE [checks |-> 0, positive |-> 0]
    IN  [k \in DOMAIN D \union DaysOf(B) |->
            [checks |-> old(k).checks + Cardinality(On(B, k)),
             positive |-> old(k).positive + Cardinality({s \in On(B, k) : s.positive})]]

(* Sums of disjoint pages add up.                                            *)
LEMMA CountsAddUp ==
    ASSUME NEW A, NEW B, IsFiniteSet(A), IsFiniteSet(B), A \cap B = {}
    PROVE  Counts(A \union B) = Added(Counts(A), B)
<1> DEFINE D == Counts(A)
           old(k) == IF k \in DOMAIN D THEN D[k] ELSE [checks |-> 0, positive |-> 0]
           OnP(S, k) == {s \in S : <<s.client, s.date>> = k /\ s.positive}
<1>1. DOMAIN D = DaysOf(A) /\ DaysOf(A \union B) = DaysOf(A) \union DaysOf(B)
  BY DEF Counts, DaysOf
<1>2. ASSUME NEW k
      PROVE  /\ Cardinality(On(A \union B, k)) = old(k).checks + Cardinality(On(B, k))
             /\ Cardinality(OnP(A \union B, k)) = old(k).positive + Cardinality(OnP(B, k))
  <2>1. /\ On(A, k) \in SUBSET A /\ On(B, k) \in SUBSET B
        /\ OnP(A, k) \in SUBSET A /\ OnP(B, k) \in SUBSET B
    BY DEF On
  <2>2. /\ IsFiniteSet(On(A, k)) /\ IsFiniteSet(On(B, k))
        /\ IsFiniteSet(OnP(A, k)) /\ IsFiniteSet(OnP(B, k))
    BY <2>1, FS_Subset
  <2>3. /\ On(A \union B, k) = On(A, k) \union On(B, k) /\ On(A, k) \cap On(B, k) = {}
        /\ OnP(A \union B, k) = OnP(A, k) \union OnP(B, k) /\ OnP(A, k) \cap OnP(B, k) = {}
    BY DEF On
  <2>4. old(k).checks = Cardinality(On(A, k)) /\ old(k).positive = Cardinality(OnP(A, k))
    <3>1. CASE k \in DaysOf(A)
      BY <1>1, <3>1 DEF Counts, On
    <3>2. CASE k \notin DaysOf(A)
      <4>1. On(A, k) = {} /\ OnP(A, k) = {}
        BY <3>2 DEF On, DaysOf
      <4> QED BY <1>1, <3>2, <4>1, FS_EmptySet
    <3> QED BY <3>1, <3>2
  <2> HIDE DEF old, OnP
  <2>5. \A S, T : IsFiniteSet(S) /\ IsFiniteSet(T) /\ S \cap T = {} =>
                     Cardinality(S \union T) = Cardinality(S) + Cardinality(T)
    <3> TAKE S, T
    <3> HAVE IsFiniteSet(S) /\ IsFiniteSet(T) /\ S \cap T = {}
    <3>1. Cardinality(S) \in Nat /\ Cardinality(T) \in Nat
      BY FS_CardinalityType
    <3>2. Cardinality(S \union T) = Cardinality(S) + Cardinality(T) - Cardinality(S \cap T)
      BY FS_Union, Zenon
    <3>3. Cardinality(S \cap T) = 0
      BY FS_EmptySet
    <3> QED BY <3>1, <3>2, <3>3
  <2> QED BY <2>2, <2>3, <2>4, <2>5
<1>3. \A k : {s \in On(B, k) : s.positive} = OnP(B, k)
  BY DEF On
<1>4. Counts(A \union B) = [k \in DaysOf(A \union B) |->
          [checks |-> Cardinality(On(A \union B, k)), positive |-> Cardinality(OnP(A \union B, k))]]
  BY DEF Counts, On
<1>5. Added(D, B) = [k \in DOMAIN D \union DaysOf(B) |->
          [checks |-> old(k).checks + Cardinality(On(B, k)),
           positive |-> old(k).positive + Cardinality(OnP(B, k))]]
  BY <1>3 DEF Added
<1> HIDE DEF old, OnP, D
<1> QED BY <1>1, <1>2, <1>4, <1>5 DEF D

-----------------------------------------------------------------------------
(* The inductive invariant *)

Phases == {"scan", "evaluate", "blocked", "complete"}

SourceOK ==
    /\ IsFiniteSet(sales)
    /\ sales \subseteq [id : Nat \ {0}, client : ClientKeys, date : Nat \ {0}, positive : BOOLEAN]
    /\ revision \in Nat /\ today \in Days
    /\ importing \in {"none", "queued", "processing", "dead"}
    /\ directory \in [ClientKeys -> SUBSET BuyerTypes] \union {Unavailable}

IsRun(run) ==
    /\ run \in [status : Resumable \union Closed, phase : Phases, asOf : Days,
                decision : {run.decision}, scope : {run.scope}, policy : {run.policy},
                cursor : Nat, clientCursor : 0..NumClients, beat : Nat,
                days : {run.days}, rows : {run.rows}]
    /\ run.decision.requested \in Days /\ run.decision.revision \in Nat
    /\ run.decision.upper \in Nat /\ run.cursor <= run.decision.upper
    /\ run.scope.keys \subseteq ClientKeys
    /\ DOMAIN run.days \subseteq run.scope.keys \X Days
    /\ DOMAIN run.rows \subseteq run.scope.keys
    /\ run.status \in Resumable => run.phase \in {"scan", "evaluate"}
    /\ run.status = "SUCCEEDED" <=> run.phase = "complete"
    /\ run.phase = "scan" => run.clientCursor = 0 /\ DOMAIN run.rows = {}

RunsOK ==
    Table(runs) /\ \A r \in 1..Len(runs) : IsRun(runs[r]) /\ runs[r].decision.revision <= revision

(* Only the newest run is worked on; the published ones are in order.        *)
ControlOK ==
    /\ control \in [enabled : BOOLEAN, active : Nat, published : Nat]
    /\ control.active # None => control.active = Len(runs)
                                /\ runs[control.active].status \in Resumable \union {"BLOCKED"}
    /\ control.published = IF Len(published) = 0 THEN None ELSE published[Len(published)]
    /\ Table(published)
    /\ \A i \in 1..Len(published) :
          published[i] \in 1..Len(runs) /\ runs[published[i]].status = "SUCCEEDED"
    /\ \A i, j \in 1..Len(published) : i < j => published[i] < published[j]
    /\ Active # None /\ control.published # None
         => runs[control.published].asOf <= runs[Active].asOf

WorkersOK ==
    /\ leader \in Workers \union {Nobody}
    /\ worker \in [Workers -> [pc : {"off", "top", "ready", "failed", "stopping"},
                               target : Days \union {None}, run : Nat, beat : Nat]]

EpisodesOK ==
    \A c \in ClientKeys :
        Table(episodes[c]) /\ \A e \in 1..Len(episodes[c]) : Episode(episodes[c][e])

Log(c, e) == {x \in changes : x.client = c /\ x.episode = e}

(* Change rows of a later run come later in every client's history.          *)
ChangesOK ==
    /\ \A x \in changes :
          /\ x.client \in ClientKeys /\ x.run \in 1..Len(runs)
          /\ x.episode \in 1..Len(episodes[x.client])
          /\ x.revision \in 1..episodes[x.client][x.episode].revision
    /\ \A c \in ClientKeys, e \in Nat : IsFiniteSet(Log(c, e))
    /\ \A x, y \in changes : x.client = y.client /\ x.run < y.run
          => x.episode < y.episode \/ (x.episode = y.episode /\ x.revision < y.revision)

ReaderOK ==
    /\ reader.at \in Nat
    /\ reader.run = None => reader.seen = {}
    /\ reader.run # None => reader.run \in 1..Len(runs) /\ runs[reader.run].status = "SUCCEEDED"
    /\ ReportIsOneRun

(* A run's verdicts are those of its purchase days, nobody up to its cursor   *)
(* is left out, and its purchase days are those of the sales it has read.     *)
RowsTell(run) ==
    \A c \in DOMAIN run.rows : (run.rows[c].status = "ACTIVE") <=> Facts(run, c).verdict.risk

Reached(run) ==
    run.phase = "evaluate" =>
        \A c \in Evaluated(run) : c <= run.clientCursor => c \in DOMAIN run.rows

ReadTo(run, n) == {s \in sales : s.id <= n /\ s.date <= run.asOf /\ s.client \in run.scope.keys}
Projected(run) ==
    run.days = Counts(ReadTo(run, IF run.phase = "evaluate" THEN run.decision.upper ELSE run.cursor))

EvaluationOK == Active # None => RowsTell(runs[Active]) /\ Reached(runs[Active])

SignalsInv ==
    /\ SourceOK /\ RunsOK /\ ControlOK /\ WorkersOK /\ EpisodesOK /\ ChangesOK /\ ReaderOK
    /\ EvaluationOK /\ ProjectionExact /\ EpisodesSound

LEMMA ProjectionIs ==
    ProjectionExact <=>
        ((Active # None /\ importing \in {"none", "queued"} /\ runs[Active].decision.revision = revision)
            => Projected(runs[Active]))
BY DEF ProjectionExact, Projected, ReadTo, Counts, DaysOf

LEMMA ProjectionIsNext ==
    ProjectionExact' <=>
        ((Active' # None /\ importing' \in {"none", "queued"} /\ runs'[Active'].decision.revision = revision')
            => Projected(runs[Active])')
BY DEF ProjectionExact, Projected, ReadTo, Counts, DaysOf

(* What EpisodesSound says of one episode and its change rows.               *)
SoundHistory(history, e, log) ==
    LET s == history[e]
    IN  /\ e < Len(history) => s.status = "RESOLVED"
        /\ {x.revision : x \in log} = 1..s.revision /\ Cardinality(log) = s.revision
        /\ \E x \in log : /\ x.revision = s.revision
                          /\ (x.kind \in {"RESOLVED", "SUSPENDED"} => s.status = x.kind)
                          /\ (s.status = "RESOLVED" => x.kind = "RESOLVED")

LEMMA HistoriesSound ==
    EpisodesSound <=>
        \A c \in ClientKeys : \A e \in DOMAIN episodes[c] : SoundHistory(episodes[c], e, Log(c, e))
BY DEF EpisodesSound, SoundHistory, Log

LEMMA HistoriesSoundNext ==
    EpisodesSound' <=>
        \A c \in ClientKeys : \A e \in DOMAIN episodes'[c] : SoundHistory(episodes'[c], e, Log(c, e)')
BY DEF EpisodesSound, SoundHistory, Log

LEMMA SignalsInit == Init => SignalsInv
<1> SUFFICES ASSUME Init PROVE SignalsInv
  OBVIOUS
<1> USE DEF Init, None
<1>1. SourceOK
  <2>1. FirstDay \in Days
    BY SignalsAssumption DEF Days
  <2> QED
    BY <2>1, SignalsAssumption DEF SourceOK
<1>2. Len(runs) = 0 /\ Table(runs) /\ Len(published) = 0 /\ Table(published) /\ Active = None
  BY DEF Table, Active
<1>3. RunsOK /\ ControlOK
  BY <1>2 DEF RunsOK, ControlOK
<1>4. WorkersOK
  BY DEF WorkersOK, Off
<1>5. EpisodesOK /\ ChangesOK /\ EpisodesSound
  BY FS_EmptySet DEF EpisodesOK, ChangesOK, EpisodesSound, Table, Log
<1>6. ReaderOK /\ EvaluationOK /\ ProjectionExact
  BY <1>2 DEF ReaderOK, EvaluationOK, ProjectionExact, ReportIsOneRun, NoLine
<1> QED
  BY <1>1, <1>3, <1>4, <1>5, <1>6 DEF SignalsInv

-----------------------------------------------------------------------------
(* Steps around the batches *)

(* A step that leaves the tables and the pointers alone keeps the invariant, *)
(* and if it is one of the source, an answer is found out of date by its     *)
(* revision or by the import that is under way.                              *)
LEMMA StillStep ==
    ASSUME SignalsInv, UNCHANGED <<runs, episodes, changes, published>>, SourceOK',
           revision <= revision',
           \/ UNCHANGED <<sales, revision>> /\ (importing' \in {"none", "queued"} => importing \in {"none", "queued"})
           \/ importing' \notin {"none", "queued"}
           \/ revision' = revision + 1,
           control' \in [enabled : BOOLEAN, active : Nat, published : Nat],
           control'.active = control.active, control'.published = control.published,
           WorkersOK', ReaderOK'
    PROVE  SignalsInv'
<1>1. Active' = Active
  BY DEF Active
<1>2. RunsOK'
  <2>1. revision \in Nat /\ revision' \in Nat
    BY DEF SignalsInv, SourceOK
  <2>2. \A r \in 1..Len(runs) : runs[r].decision.revision \in Nat
    BY DEF SignalsInv, RunsOK, IsRun
  <2> QED
    BY <2>1, <2>2 DEF SignalsInv, RunsOK
<1>3. EpisodesOK' /\ ChangesOK'
  BY DEF SignalsInv, EpisodesOK, ChangesOK, Log
<1>4. ControlOK'
  BY <1>1 DEF SignalsInv, ControlOK
<1>5. EpisodesSound'
  <2>1. episodes' = episodes /\ changes' = changes /\ EpisodesSound
    BY DEF SignalsInv
  <2>2. \A c, e : Log(c, e)' = Log(c, e)
    BY <2>1 DEF Log
  <2> QED
    BY <2>1, <2>2, HistoriesSound, HistoriesSoundNext
<1>6. EvaluationOK'
  BY <1>1 DEF SignalsInv, EvaluationOK, RowsTell, Reached, Evaluated
<1>7. ProjectionExact'
  <2>1. CASE UNCHANGED <<sales, revision>> /\ (importing' \in {"none", "queued"} => importing \in {"none", "queued"})
    BY <1>1, <2>1 DEF SignalsInv, ProjectionExact
  <2>2. CASE importing' \notin {"none", "queued"}
    BY <2>2 DEF ProjectionExact
  <2>3. CASE revision' = revision + 1
    <3>1. Active # None => runs[Active].decision.revision \in Nat /\ runs[Active].decision.revision <= revision
      BY DEF SignalsInv, RunsOK, ControlOK, IsRun, Active, None
    <3>2. revision \in Nat
      BY DEF SignalsInv, SourceOK
    <3> QED
      BY <1>1, <2>3, <3>1, <3>2 DEF ProjectionExact
  <2> QED
    BY <2>1, <2>2, <2>3
<1> QED
  BY <1>2, <1>3, <1>4, <1>5, <1>6, <1>7 DEF SignalsInv

(* Imports, deletions, the directory, days and releases.                     *)
LEMMA SourceStep ==
    ASSUME SignalsInv, Source
    PROVE  SignalsInv' /\ UNCHANGED <<signalVars, control, leader, worker, reader>>
<1> DEFINE Type == [id : Nat \ {0}, client : ClientKeys, date : Nat \ {0}, positive : BOOLEAN]
<1>1. UNCHANGED <<signalVars, control, leader, worker, reader>>
  BY DEF Source, Upload, StartImport, ImportRow, FinishImport, CrashImport, DeleteSale,
         ChangeDirectory, PassDay, Deploy
<1>0. SourceOK
  BY DEF SignalsInv
<1>2. /\ SourceOK' /\ revision <= revision'
      /\ \/ UNCHANGED <<sales, revision>> /\ (importing' \in {"none", "queued"} => importing \in {"none", "queued"})
         \/ importing' \notin {"none", "queued"}
         \/ revision' = revision + 1
  <2>1. CASE Upload \/ StartImport \/ CrashImport \/ FinishImport
    BY <1>0, <2>1 DEF Upload, StartImport, CrashImport, FinishImport, SourceOK, Move
  <2>2. CASE Deploy \/ ChangeDirectory
    BY <1>0, <2>2, SignalsAssumption DEF Deploy, ChangeDirectory, SourceOK
  <2>3. CASE PassDay
    BY <1>0, <2>3, SignalsAssumption DEF PassDay, SourceOK, Days
  <2>4. CASE ImportRow
    <3>1. PICK row \in Rows, last \in 0..(Cardinality(InitialSales) + MaxMoves) :
             sales' = sales \union {[id |-> last + 1, client |-> row.client, date |-> row.date,
                                     positive |-> row.positive]}
      BY <2>4 DEF ImportRow
    <3>2. [id |-> last + 1, client |-> row.client, date |-> row.date, positive |-> row.positive] \in Type
      <4>1. last + 1 \in Nat \ {0}
        BY <3>1
      <4>2. row \in [client : ClientKeys, date : Nat \ {0}, positive : BOOLEAN]
        BY SignalsAssumption
      <4> QED BY <4>1, <4>2
    <3>3. IsFiniteSet(sales') /\ sales' \subseteq Type
      BY <1>0, <3>1, <3>2, FS_AddElement DEF SourceOK
    <3>4. UNCHANGED <<revision, importing, directory, today>> /\ importing = "processing"
      BY <2>4 DEF ImportRow
    <3> QED BY <1>0, <3>3, <3>4 DEF SourceOK
  <2>5. CASE DeleteSale
    <3>1. PICK s \in sales : sales' = sales \ {s}
      BY <2>5 DEF DeleteSale
    <3>2. IsFiniteSet(sales') /\ sales' \subseteq Type
      BY <1>0, <3>1, FS_RemoveElement DEF SourceOK
    <3>3. UNCHANGED <<importing, directory, today>> /\ revision' = revision + 1
      BY <2>5 DEF DeleteSale
    <3> QED BY <1>0, <3>2, <3>3 DEF SourceOK
  <2> QED BY <2>1, <2>2, <2>3, <2>4, <2>5 DEF Source
<1>3. WorkersOK' /\ ReaderOK' /\ control \in [enabled : BOOLEAN, active : Nat, published : Nat]
  BY <1>1 DEF signalVars, SignalsInv, WorkersOK, ReaderOK, ReportIsOneRun, ControlOK
<1> QED BY <1>1, <1>2, <1>3, StillStep DEF signalVars

(* The workers' and the operator's steps that write no run.                  *)
LEMMA IdleStep ==
    ASSUME SignalsInv,
           \/ \E w \in Workers :
                 \/ Start(w) \/ ReadCheckpoint(w) \/ Fault(w) \/ Shutdown(w) \/ Leave(w)
                 \/ Disabled(w) \/ Busy(w)
                 \/ \E now \in {Decision(AsOf(w))} : Refuse(w, now)
           \/ LoseLeadership \/ Enable
    PROVE  SignalsInv' /\ UNCHANGED <<sourceVars, signalVars, reader>>
<1> USE DEF sourceVars, signalVars
<1>0. /\ control \in [enabled : BOOLEAN, active : Nat, published : Nat]
      /\ worker \in [Workers -> [pc : {"off", "top", "ready", "failed", "stopping"},
                                 target : Days \union {None}, run : Nat, beat : Nat]]
      /\ leader \in Workers \union {Nobody} /\ SourceOK
  BY DEF SignalsInv, ControlOK, WorkersOK
<1>1. CASE LoseLeadership \/ Enable
  <2>1. /\ UNCHANGED <<sourceVars, signalVars, worker, reader>> /\ leader' \in Workers \union {Nobody}
        /\ control' \in [enabled : BOOLEAN, active : Nat, published : Nat]
        /\ control'.active = control.active /\ control'.published = control.published
    BY <1>0, <1>1 DEF LoseLeadership, Enable
  <2>2. WorkersOK' /\ ReaderOK' /\ SourceOK' /\ revision <= revision'
    BY <1>0, <2>1 DEF SignalsInv, WorkersOK, ReaderOK, ReportIsOneRun, SourceOK
  <2> QED
    BY <2>1, <2>2, StillStep
<1>2. ASSUME NEW w \in Workers,
             \/ Start(w) \/ ReadCheckpoint(w) \/ Fault(w) \/ Shutdown(w) \/ Leave(w)
             \/ Disabled(w) \/ Busy(w)
             \/ \E now \in {Decision(AsOf(w))} : Refuse(w, now)
      PROVE  SignalsInv' /\ UNCHANGED <<sourceVars, signalVars, reader>>
  <2>1. UNCHANGED <<sourceVars, signalVars, control, reader>>
    BY <1>2 DEF Start, ReadCheckpoint, Fault, Shutdown, Leave, Disabled, Busy, Refuse
  <2>2. ReaderOK' /\ SourceOK' /\ revision <= revision'
    BY <1>0, <2>1 DEF SignalsInv, ReaderOK, ReportIsOneRun, SourceOK
  <2>3. WorkersOK'
    <3>1. CASE Start(w) \/ Fault(w) \/ Shutdown(w) \/ Leave(w) \/ Disabled(w)
      BY <1>0, <3>1 DEF Start, Fault, Shutdown, Leave, Disabled, Off, None, WorkersOK
    <3>2. CASE Busy(w) \/ \E now \in {Decision(AsOf(w))} : Refuse(w, now)
      BY <1>0, <3>2 DEF Busy, Refuse, Off, None, WorkersOK
    <3>3. CASE ReadCheckpoint(w)
      <4>1. control.active \in Nat /\ (control.active # None => runs[control.active].beat \in Nat)
        BY DEF SignalsInv, ControlOK, RunsOK, IsRun, None
      <4>2. Active # None => runs[Active].decision.requested \in Days
        BY DEF SignalsInv, ControlOK, RunsOK, IsRun, None, Active
      <4>3. FirstDay..LastDay \subseteq Days /\ today \in Days
        BY SignalsAssumption DEF SignalsInv, SourceOK, Days
      <4> QED
        BY <1>0, <3>3, <4>1, <4>2, <4>3 DEF ReadCheckpoint, WorkersOK, None
    <3> QED
      BY <1>2, <3>1, <3>2, <3>3
  <2> QED
    BY <1>0, <2>1, <2>2, <2>3, StillStep
<1> QED
  BY <1>1, <1>2

(* The report goes on by a page of the same run, or begins again.            *)
LEMMA ReadStep ==
    ASSUME SignalsInv, ReadPage \/ Conflict
    PROVE  SignalsInv' /\ UNCHANGED <<sourceVars, signalVars>>
<1> USE DEF sourceVars, signalVars
<1>1. UNCHANGED <<sourceVars, signalVars, control, leader, worker>>
  BY DEF ReadPage, Conflict
<1>2. ReaderOK'
  <2>1. CASE Conflict
    BY <2>1 DEF Conflict, NoLine, ReaderOK, ReportIsOneRun, None
  <2>2. CASE ReadPage
    <3> DEFINE p    == control.published
               rows == DOMAIN runs[p].rows
               from == IF reader.run = None THEN 0 ELSE reader.at
               S    == {c \in rows : c > from}
               page == First(S, 1)
    <3>1. p \in 1..Len(runs) /\ runs[p].status = "SUCCEEDED" /\ IsRun(runs[p])
      BY <2>2 DEF ReadPage, SignalsInv, ControlOK, RunsOK, None, Table
    <3>2. rows \subseteq 1..NumClients /\ NumClients \in Nat
      BY <3>1, SignalsAssumption DEF IsRun, ClientKeys
    <3>3. from \in Nat /\ S \in SUBSET Nat /\ \A x \in S : x <= NumClients
      BY <3>2 DEF SignalsInv, ReaderOK, None
    <3>4. page # {} /\ reader.run \in {None, p}
          /\ reader' = [run |-> p, at |-> Max(page),
                        seen |-> reader.seen \union {<<c, runs[p].rows[c]>> : c \in page}]
      BY <2>2 DEF ReadPage
    <3> HIDE DEF page
    <3>5. Max(page) \in S /\ \A x \in S : x \in page <=> x <= Max(page)
      <4>1. First(S, 1) # {} /\ 1 \in Int /\ NumClients \in Nat
        BY <3>2, <3>4 DEF page
      <4> HIDE DEF S
      <4>2. /\ Max(First(S, 1)) \in S
            /\ \A x \in S : x \in First(S, 1) <=> x <= Max(First(S, 1))
        BY <3>3, <4>1, PageOf, Zenon
      <4> QED BY <4>2 DEF page
    <3>6. page \subseteq S
      BY DEF page, First
    <3>7. reader.seen = {<<c, runs[p].rows[c]>> : c \in {d \in rows : d <= from}}
      <4>1. CASE reader.run = None
        <5>1. {d \in rows : d <= 0} = {}
          BY <3>2
        <5> QED BY <4>1, <5>1 DEF SignalsInv, ReaderOK
      <4>2. CASE reader.run # None
        BY <3>4, <4>2 DEF SignalsInv, ReaderOK, ReportIsOneRun
      <4> QED BY <4>1, <4>2
    <3>8. {d \in rows : d <= Max(page)} = {d \in rows : d <= from} \union page
      <4>1. ASSUME NEW d \in rows PROVE (d <= Max(page)) <=> (d <= from \/ d \in page)
        <5>1. d \in Nat /\ Max(page) \in Nat /\ Max(page) > from
          BY <3>2, <3>3, <3>5
        <5> QED BY <3>3, <3>5, <3>6, <5>1
      <4> QED BY <3>6, <4>1
    <3>9. reader'.seen = {<<c, runs[p].rows[c]>> : c \in {d \in rows : d <= Max(page)}}
      <4> HIDE DEF rows, from, S
      <4> QED BY <3>4, <3>7, <3>8
    <3>10. reader'.run = p /\ reader'.at = Max(page) /\ Max(page) \in Nat /\ runs' = runs
      BY <1>1, <3>3, <3>4, <3>5
    <3> HIDE DEF p, page
    <3> QED
      BY <3>1, <3>9, <3>10 DEF ReaderOK, ReportIsOneRun, rows, None
  <2> QED BY <2>1, <2>2
<1>3. WorkersOK' /\ control \in [enabled : BOOLEAN, active : Nat, published : Nat]
      /\ SourceOK' /\ revision <= revision'
  BY <1>1 DEF SignalsInv, WorkersOK, ControlOK, SourceOK
<1> QED BY <1>1, <1>2, <1>3, StillStep

-----------------------------------------------------------------------------
(* Runs *)

(* What marking a run does not touch.                                        *)
SameWork(t, run) ==
    /\ t.phase = run.phase /\ t.asOf = run.asOf /\ t.decision = run.decision
    /\ t.scope = run.scope /\ t.policy = run.policy /\ t.cursor = run.cursor
    /\ t.clientCursor = run.clientCursor /\ t.days = run.days /\ t.rows = run.rows

LEMMA SameWorkSame ==
    ASSUME NEW run, NEW t, SameWork(t, run)
    PROVE  /\ RowsTell(run) => RowsTell(t)
           /\ Reached(run) => Reached(t)
           /\ Projected(run) => Projected(t)
<1>1. \A c : Facts(t, c) = Facts(run, c)
  BY DEF SameWork, Facts, PurchasesOf
<1>2. Evaluated(t) = Evaluated(run)
  BY DEF SameWork, Evaluated
<1>3. \A n : ReadTo(t, n) = ReadTo(run, n)
  BY DEF SameWork, ReadTo
<1>4. RowsTell(run) => RowsTell(t)
  BY <1>1 DEF SameWork, RowsTell
<1>5. Reached(run) => Reached(t)
  BY <1>2 DEF SameWork, Reached
<1>6. Projected(run) => Projected(t)
  BY <1>3 DEF SameWork, Projected
<1> QED BY <1>4, <1>5, <1>6

(* A checkpoint may be marked, with or without a beat.                       *)
LEMMA RunMarked ==
    ASSUME NEW run, IsRun(run), run.status \in Resumable,
           NEW st \in Resumable \union {"SUPERSEDED"}, NEW t,
           \/ t = [run EXCEPT !.status = st]
           \/ t = [run EXCEPT !.status = st, !.beat = run.beat + 1]
    PROVE  IsRun(t) /\ t.status = st /\ SameWork(t, run)
<1>1. t.status = st /\ SameWork(t, run)
  BY DEF IsRun, SameWork
<1>2. /\ t \in [status : Resumable \union Closed, phase : Phases, asOf : Days,
                decision : {run.decision}, scope : {run.scope}, policy : {run.policy},
                cursor : Nat, clientCursor : 0..NumClients, beat : Nat,
                days : {run.days}, rows : {run.rows}]
  <2>1. st \in Resumable \union Closed /\ run.beat + 1 \in Nat
    BY DEF Closed, IsRun
  <2>2. CASE t = [run EXCEPT !.status = st]
    BY <2>1, <2>2 DEF IsRun
  <2>3. CASE t = [run EXCEPT !.status = st, !.beat = run.beat + 1]
    BY <2>1, <2>3 DEF IsRun
  <2> QED BY <2>2, <2>3
<1>3. t \in [status : Resumable \union Closed, phase : Phases, asOf : Days,
             decision : {t.decision}, scope : {t.scope}, policy : {t.policy},
             cursor : Nat, clientCursor : 0..NumClients, beat : Nat,
             days : {t.days}, rows : {t.rows}]
  BY <1>1, <1>2, Zenon DEF SameWork
<1>4. run.phase \in {"scan", "evaluate"} /\ st # "SUCCEEDED"
  BY DEF IsRun, Resumable
<1> QED BY <1>1, <1>3, <1>4 DEF IsRun, SameWork

(* A row of runs is changed or added; the closed ones stay.                   *)
LEMMA RunSaved ==
    ASSUME RunsOK, ControlOK, NEW run, runs' = Saved(OpenedId, run)
    PROVE  /\ OpenedId \in Nat \ {0} /\ Len(runs) \in Nat /\ Len(runs) <= OpenedId
           /\ Table(runs') /\ Len(runs') = OpenedId /\ runs'[OpenedId] = run
           /\ \A r \in 1..Len(runs) : r # OpenedId => r < OpenedId /\ runs'[r] = runs[r]
           /\ \A r \in 1..Len(runs) : runs[r].status \in Closed /\ Active # None => r # OpenedId
           /\ Active = None => OpenedId = Len(runs) + 1
           /\ Active # None => OpenedId = Active /\ Active \in 1..Len(runs)
<1>1. Table(runs) /\ Len(runs) \in Nat
  BY DEF RunsOK, Table
<1>2. CASE Active = None
  <2>1. OpenedId = Len(runs) + 1 /\ runs' = Append(runs, run)
    BY <1>1, <1>2 DEF OpenedId, Saved
  <2>2. /\ Table(Append(runs, run)) /\ Len(Append(runs, run)) = Len(runs) + 1
        /\ \A i \in 1..Len(runs) : Append(runs, run)[i] = runs[i]
        /\ Append(runs, run)[Len(runs) + 1] = run
    BY <1>1, RowAppended
  <2> DEFINE longer == Append(runs, run)
  <2> HIDE DEF longer
  <2>3. /\ Table(longer) /\ Len(longer) = Len(runs) + 1 /\ longer[Len(runs) + 1] = run
        /\ \A i \in 1..Len(runs) : longer[i] = runs[i]
    BY <2>2 DEF longer
  <2>4. runs' = longer
    BY <2>1 DEF longer
  <2>5. \A r \in 1..Len(runs) : r < OpenedId
    BY <1>1, <2>1
  <2> QED BY <1>1, <1>2, <2>1, <2>3, <2>4, <2>5
<1>3. CASE Active # None
  <2>1. OpenedId = Active /\ Active = Len(runs) /\ Active \in 1..Len(runs)
        /\ runs[Active].status \in Resumable
    BY <1>1, <1>3 DEF OpenedId, ControlOK, Active, None
  <2>2. runs' = [runs EXCEPT ![Active] = run]
    BY <1>1, <2>1 DEF Saved
  <2>3. /\ Table(runs') /\ Len(runs') = Len(runs) /\ runs'[Active] = run
        /\ \A i \in 1..Len(runs) : i # Active => runs'[i] = runs[i]
    BY SMTT(60), <1>1, <2>1, <2>2, RowChanged
  <2>4. Resumable \cap Closed = {}
    BY DEF Resumable, Closed
  <2> QED BY <1>1, <1>3, <2>1, <2>3, <2>4
<1> QED BY <1>2, <1>3

(* Closed runs stay with their change rows (ClosedRunsStay).                 *)
RowsStay ==
    \A r \in DOMAIN runs : runs[r].status \in Closed =>
        runs'[r] = runs[r] /\ {x \in changes' : x.run = r} = {x \in changes : x.run = r}

(* A step that works on a run and does not publish it.                       *)
LEMMA WorkStep ==
    ASSUME SignalsInv, NEW run, IsRun(run), run.decision.revision <= revision,
           runs' = Saved(OpenedId, run),
           UNCHANGED <<sales, revision, importing, directory, today, published, reader>>,
           control' \in [enabled : BOOLEAN, active : Nat, published : Nat],
           control'.published = control.published,
           \/ control'.active = None
           \/ control'.active = OpenedId /\ run.status \in Resumable \union {"BLOCKED"},
           run.status \in Resumable =>
              /\ control.published # None => runs[control.published].asOf <= run.asOf
              /\ RowsTell(run) /\ Reached(run)'
              /\ importing \in {"none", "queued"} /\ run.decision.revision = revision => Projected(run),
           WorkersOK', EpisodesOK', ChangesOK', EpisodesSound',
           \A r \in 1..Len(runs) : r # OpenedId =>
              {x \in changes' : x.run = r} = {x \in changes : x.run = r}
    PROVE  SignalsInv' /\ RowsStay /\ feed' = feed
<1>0. SourceOK /\ RunsOK /\ ControlOK /\ WorkersOK /\ ReaderOK
  BY DEF SignalsInv
<1> DEFINE o == OpenedId
<1>1. /\ o \in Nat \ {0} /\ Len(runs) \in Nat /\ Len(runs) <= o
      /\ Table(runs') /\ Len(runs') = o /\ runs'[o] = run
      /\ \A r \in 1..Len(runs) : r # o => r < o /\ runs'[r] = runs[r]
      /\ \A r \in 1..Len(runs) : runs[r].status \in Closed /\ Active # None => r # o
      /\ Active = None => o = Len(runs) + 1
      /\ Active # None => o \in 1..Len(runs)
  BY <1>0, RunSaved
<1> HIDE DEF o
<1>2. \A r \in 1..Len(runs) : runs[r].status \in Closed => r # o /\ runs'[r] = runs[r] /\ r \in 1..o
  BY <1>1
<1>3. "SUCCEEDED" \in Closed /\ "BLOCKED" \notin Resumable
  BY DEF Closed, Resumable
<1>4. SourceOK'
  BY <1>0 DEF SourceOK
<1>5. RunsOK'
  <2>1. \A r \in 1..o : r # o => r \in 1..Len(runs)
    BY <1>1
  <2> QED
    BY <1>0, <1>1, <2>1 DEF RunsOK
<1>6. Active' = IF control'.active = o /\ run.status \in Resumable THEN o ELSE None
  BY <1>1, <1>3 DEF Active, None, o
<1>7. \A i \in 1..Len(published) :
         /\ published[i] \in 1..Len(runs) /\ runs[published[i]].status = "SUCCEEDED"
         /\ runs'[published[i]] = runs[published[i]] /\ published[i] \in 1..o
  BY <1>0, <1>2, <1>3 DEF ControlOK
<1>8. control.published # None =>
         control.published \in 1..Len(runs) /\ runs'[control.published] = runs[control.published]
  BY <1>0, <1>7 DEF ControlOK, Table
<1>9. ControlOK'
  <2>1. Table(published) /\ \A i, j \in 1..Len(published) : i < j => published[i] < published[j]
    BY <1>0 DEF ControlOK
  <2>2. control.published = IF Len(published) = 0 THEN None ELSE published[Len(published)]
    BY <1>0 DEF ControlOK
  <2>3. control'.active # None => control'.active = Len(runs') /\ runs'[control'.active].status \in Resumable \union {"BLOCKED"}
    BY <1>1 DEF o
  <2>4. Active' # None /\ control'.published # None => runs'[control'.published].asOf <= runs'[Active'].asOf
    BY <1>1, <1>6, <1>8
  <2>5. \A i \in 1..Len(published) : published[i] \in 1..Len(runs') /\ runs'[published[i]].status = "SUCCEEDED"
    BY <1>1, <1>7
  <2> QED BY <2>1, <2>2, <2>3, <2>4, <2>5 DEF ControlOK
<1>10. ReaderOK'
  <2>1. reader.run # None => runs'[reader.run] = runs[reader.run] /\ reader.run \in 1..Len(runs')
    BY <1>0, <1>1, <1>2, <1>3 DEF ReaderOK
  <2> QED BY <1>0, <2>1 DEF ReaderOK, ReportIsOneRun
<1>11. EvaluationOK'
  <2>1. RowsTell(run) => RowsTell(run)'
    BY DEF RowsTell
  <2>2. SUFFICES ASSUME Active' # None PROVE RowsTell(run)' /\ Reached(run)'
    BY <1>1, <1>6 DEF EvaluationOK, RowsTell, Reached, Evaluated
  <2> QED BY <1>6, <2>1, <2>2
<1>12. ProjectionExact'
  <2>1. Projected(run) => Projected(run)'
    BY DEF Projected, ReadTo
  <2>2. Active' # None => runs'[Active'] = run
    BY <1>1, <1>6
  <2>3. Active' # None /\ Projected(run)' => Projected(runs[Active])'
    BY <2>2 DEF Projected, ReadTo
  <2> QED BY <1>6, <2>1, <2>2, <2>3, ProjectionIsNext
<1>13. SignalsInv'
  BY <1>4, <1>5, <1>9, <1>10, <1>11, <1>12 DEF SignalsInv
<1>14. RowsStay
  <2>1. DOMAIN runs = 1..Len(runs)
    BY <1>0, TableIsSeq DEF RunsOK
  <2> QED BY <1>2, <2>1 DEF RowsStay, o
<1>15. feed' = feed
  <2>1. DOMAIN published = 1..Len(published)
    BY <1>0, TableIsSeq DEF ControlOK
  <2>2. published' = published
        /\ \A i \in DOMAIN published : runs'[published'[i]] = runs[published[i]]
    BY <1>7, <2>1
  <2> QED BY <2>2, Zenon DEF feed
<1> QED BY <1>13, <1>14, <1>15

(* The same with the episodes left alone.                                    *)
LEMMA QuietStep ==
    ASSUME SignalsInv, NEW run, IsRun(run), run.decision.revision <= revision,
           runs' = Saved(OpenedId, run),
           UNCHANGED <<sales, revision, importing, directory, today, published, reader, episodes, changes>>,
           control' \in [enabled : BOOLEAN, active : Nat, published : Nat],
           control'.published = control.published,
           \/ control'.active = None
           \/ control'.active = OpenedId /\ run.status \in Resumable \union {"BLOCKED"},
           run.status \in Resumable =>
              /\ control.published # None => runs[control.published].asOf <= run.asOf
              /\ RowsTell(run) /\ Reached(run)
              /\ importing \in {"none", "queued"} /\ run.decision.revision = revision => Projected(run),
           WorkersOK'
    PROVE  SignalsInv' /\ RowsStay /\ feed' = feed
<1>1. Reached(run) => Reached(run)'
  BY DEF Reached, Evaluated
<1>2. EpisodesOK'
  BY DEF SignalsInv, EpisodesOK
<1>3. ChangesOK'
  <2>1. Len(runs) \in Nat /\ Len(runs') \in Nat /\ Len(runs) <= Len(runs')
    BY RunSaved DEF SignalsInv
  <2> QED BY <2>1 DEF SignalsInv, ChangesOK, Log
<1>4. EpisodesSound'
  <2>1. episodes' = episodes /\ changes' = changes /\ EpisodesSound
    BY DEF SignalsInv
  <2>2. \A c, e : Log(c, e)' = Log(c, e)
    BY <2>1 DEF Log
  <2> QED
    BY <2>1, <2>2, HistoriesSound, HistoriesSoundNext
<1> QED BY <1>1, <1>2, <1>3, <1>4, WorkStep

LEMMA NothingMoves ==
    ASSUME UNCHANGED <<runs, changes, published>>
    PROVE  RowsStay /\ feed' = feed
<1>1. RowsStay
  BY DEF RowsStay
<1>2. feed' = feed
  BY Zenon DEF feed
<1> QED BY <1>1, <1>2

(* A checkpoint is marked: failed, paused or superseded.                      *)
LEMMA MarkStep ==
    ASSUME SignalsInv, Active # None, NEW st \in Resumable \union {"SUPERSEDED"},
           \/ runs' = [runs EXCEPT ![Active] = [runs[Active] EXCEPT !.status = st]]
           \/ runs' = [runs EXCEPT ![Active] =
                         [runs[Active] EXCEPT !.status = st, !.beat = runs[Active].beat + 1]],
           UNCHANGED <<sales, revision, importing, directory, today, published, reader, episodes, changes>>,
           control' \in [enabled : BOOLEAN, active : Nat, published : Nat],
           control'.published = control.published,
           control'.active = IF st = "SUPERSEDED" THEN None ELSE control.active,
           WorkersOK'
    PROVE  SignalsInv' /\ RowsStay /\ feed' = feed
<1> DEFINE run == runs[Active]
<1>1. /\ Active = control.active /\ Active \in 1..Len(runs) /\ Active = Len(runs) /\ Len(runs) \in Nat
      /\ OpenedId = Active
  BY DEF Active, OpenedId, SignalsInv, ControlOK, RunsOK, Table, None
<1>2. IsRun(run) /\ run.status \in Resumable /\ run.decision.revision <= revision
  BY <1>1 DEF SignalsInv, RunsOK, Active, None
<1>3. PICK t : /\ runs' = [runs EXCEPT ![Active] = t]
               /\ \/ t = [run EXCEPT !.status = st]
                  \/ t = [run EXCEPT !.status = st, !.beat = run.beat + 1]
  OBVIOUS
<1> HIDE DEF run
<1>4. IsRun(t) /\ t.status = st /\ SameWork(t, run)
  BY <1>2, <1>3, RunMarked
<1>5. runs' = Saved(OpenedId, t)
  BY <1>1, <1>3 DEF Saved
<1>6. /\ RowsTell(run) /\ Reached(run)
      /\ importing \in {"none", "queued"} /\ run.decision.revision = revision => Projected(run)
      /\ control.published # None => runs[control.published].asOf <= run.asOf
  BY ProjectionIs DEF SignalsInv, EvaluationOK, ControlOK, run
<1>7. /\ RowsTell(t) /\ Reached(t)
      /\ importing \in {"none", "queued"} /\ t.decision.revision = revision => Projected(t)
      /\ control.published # None => runs[control.published].asOf <= t.asOf
      /\ t.decision.revision <= revision
  BY <1>2, <1>4, <1>6, SameWorkSame DEF SameWork
<1>8. \/ control'.active = None
      \/ control'.active = OpenedId /\ t.status \in Resumable \union {"BLOCKED"}
  BY <1>1, <1>4
<1> QED BY <1>4, <1>5, <1>7, <1>8, QuietStep

-----------------------------------------------------------------------------
(* Marks and refusals *)

LEMMA AsOfDay ==
    ASSUME SignalsInv, NEW w \in Workers
    PROVE  AsOf(w) \in Days
<1>1. worker[w].target \in Days \union {None} /\ today \in Days
  BY DEF SignalsInv, WorkersOK, SourceOK
<1>2. Active # None => runs[Active].decision.requested \in Days
  BY DEF SignalsInv, ControlOK, RunsOK, IsRun, None, Active
<1> QED BY <1>1, <1>2 DEF AsOf

LEMMA RestingOK ==
    ASSUME SignalsInv, NEW w \in Workers, NEW r \in Nat, NEW beat \in Nat, Resting(w, r, beat)
    PROVE  WorkersOK' /\ UNCHANGED <<sourceVars, leader, reader>>
BY DEF Resting, SignalsInv, WorkersOK, Off, None

LEMMA Marks ==
    ASSUME SignalsInv,
           \/ \E w \in Workers : \/ RecordFailure(w) \/ PauseOnShutdown(w)
                                 \/ \E now \in {Decision(AsOf(w))} : Supersede(w, now)
           \/ Pause
    PROVE  SignalsInv' /\ RowsStay /\ feed' = feed
<1> USE DEF sourceVars
<1>0. /\ control \in [enabled : BOOLEAN, active : Nat, published : Nat]
      /\ worker \in [Workers -> [pc : {"off", "top", "ready", "failed", "stopping"},
                                 target : Days \union {None}, run : Nat, beat : Nat]]
      /\ leader \in Workers \union {Nobody} /\ SourceOK /\ ReaderOK
  BY DEF SignalsInv, ControlOK, WorkersOK
<1>1. {"FAILED", "PAUSED", "RUNNING"} \subseteq Resumable
  BY DEF Resumable
(* What leaves the runs alone.                                               *)
<1>2. ASSUME runs' = runs, UNCHANGED <<sourceVars, published, reader, episodes, changes>>,
             control' \in [enabled : BOOLEAN, active : Nat, published : Nat],
             control'.active = control.active, control'.published = control.published, WorkersOK'
      PROVE  SignalsInv' /\ RowsStay /\ feed' = feed
  <2>1. SourceOK' /\ ReaderOK' /\ revision <= revision'
    BY <1>0, <1>2 DEF SourceOK, ReaderOK, ReportIsOneRun
  <2> QED BY <1>2, <2>1, StillStep, NothingMoves
<1>3. CASE Pause
  <2>1. /\ UNCHANGED <<sourceVars, published, reader, episodes, changes>> /\ WorkersOK'
        /\ control' \in [enabled : BOOLEAN, active : Nat, published : Nat]
        /\ control'.active = control.active /\ control'.published = control.published
    BY <1>0, <1>3 DEF Pause, SignalsInv, WorkersOK
  <2>2. CASE control.active # None /\ runs[control.active].status = "RUNNING"
    <3>1. Active = control.active
      BY <1>1, <2>2 DEF Active
    <3>2. runs' = [runs EXCEPT ![Active] = [runs[Active] EXCEPT !.status = "PAUSED"]]
      BY <1>3, <2>2, <3>1 DEF Pause
    <3> QED BY <1>1, <2>1, <2>2, <3>1, <3>2, MarkStep
  <2>3. CASE ~(control.active # None /\ runs[control.active].status = "RUNNING")
    <3>1. runs' = runs
      BY <1>3, <2>3 DEF Pause
    <3> QED BY <1>2, <2>1, <3>1
  <2> QED BY <2>2, <2>3
<1>4. ASSUME NEW w \in Workers, RecordFailure(w) PROVE SignalsInv' /\ RowsStay /\ feed' = feed
  <2>1. /\ UNCHANGED <<sourceVars, published, reader, episodes, changes, control>> /\ WorkersOK'
    BY <1>0, <1>4 DEF RecordFailure, WorkersOK, Off, None
  <2> DEFINE r == worker[w].run
             fenced == /\ w # Automation /\ r # None /\ worker[w].beat # 0
                       /\ control.active = r /\ control.enabled
                       /\ runs[r].status \in {"RUNNING", "FAILED"}
                       /\ runs[r].beat = worker[w].beat
  <2>2. runs' = IF fenced THEN [runs EXCEPT ![r].status = "FAILED", ![r].beat = @ + 1] ELSE runs
    BY <1>4 DEF RecordFailure
  <2>3. CASE fenced
    <3>1. Active = r /\ Active = control.active /\ Active # None
      BY <1>1, <2>3 DEF Active
    <3>2. r \in DOMAIN runs
      BY <3>1, TableIsSeq DEF SignalsInv, ControlOK, RunsOK, Table, None
    <3>3. IsRun(runs[r])
      BY <3>1 DEF SignalsInv, ControlOK, RunsOK, Table, None
    <3>4. runs' = [runs EXCEPT ![r] = [runs[r] EXCEPT !.status = "FAILED", !.beat = runs[r].beat + 1]]
      <4>1. [runs EXCEPT ![r].status = "FAILED"][r] = [runs[r] EXCEPT !.status = "FAILED"]
        BY <3>2
      <4>2. [runs[r] EXCEPT !.status = "FAILED"].beat = runs[r].beat
        BY <3>3 DEF IsRun
      <4> QED BY <2>2, <2>3, <3>2, <3>3, <4>1, <4>2 DEF IsRun
    <3> QED BY <1>0, <1>1, <2>1, <3>1, <3>4, MarkStep
  <2>4. CASE ~fenced
    BY <1>0, <1>2, <2>1, <2>2, <2>4
  <2> QED BY <2>3, <2>4
<1>5. ASSUME NEW w \in Workers, PauseOnShutdown(w) PROVE SignalsInv' /\ RowsStay /\ feed' = feed
  <2>1. /\ UNCHANGED <<sourceVars, published, reader, episodes, changes, control>> /\ WorkersOK'
    BY <1>0, <1>5 DEF PauseOnShutdown, WorkersOK, Off, None
  <2> DEFINE r == worker[w].run
             own == /\ w # Automation /\ r # None /\ control.active = r
                    /\ runs[r].status = "RUNNING"
                    /\ worker[w].beat # 0 /\ runs[r].beat = worker[w].beat
  <2>2. runs' = IF own THEN [runs EXCEPT ![r].status = "PAUSED"] ELSE runs
    BY <1>5 DEF PauseOnShutdown
  <2>3. CASE own
    <3>1. Active = r /\ Active = control.active /\ Active # None
      BY <1>1, <2>3 DEF Active
    <3>2. runs' = [runs EXCEPT ![r] = [runs[r] EXCEPT !.status = "PAUSED"]]
      BY <2>2, <2>3
    <3> QED BY <1>0, <1>1, <2>1, <3>1, <3>2, MarkStep
  <2>4. CASE ~own
    BY <1>0, <1>2, <2>1, <2>2, <2>4
  <2> QED BY <2>3, <2>4
<1>6. ASSUME NEW w \in Workers, NEW now, Supersede(w, now)
      PROVE  SignalsInv' /\ RowsStay /\ feed' = feed
  <2>1. Active # None /\ Active \in Nat /\ Active \in DOMAIN runs /\ IsRun(runs[Active])
    <3>1. Active # None
      BY <1>6 DEF Supersede
    <3>2. ControlOK /\ Table(runs) /\ DOMAIN runs = 1..Len(runs) /\ \A r \in 1..Len(runs) : IsRun(runs[r])
      BY TableIsSeq DEF SignalsInv, RunsOK
    <3>3. Active = control.active /\ Active = Len(runs) /\ Len(runs) \in Nat
      BY <3>1, <3>2 DEF Active, ControlOK, Table
    <3>4. Active \in 1..Len(runs)
      BY <3>1, <3>3 DEF None
    <3> QED BY <3>1, <3>2, <3>3, <3>4
  <2>2. /\ UNCHANGED <<sourceVars, published, reader, episodes, changes>> /\ WorkersOK'
    BY <1>6, <2>1, RestingOK DEF Supersede
  <2>3. runs' = [runs EXCEPT ![Active].status = "SUPERSEDED", ![Active].beat = @ + 1]
        /\ control' = [control EXCEPT !.active = None]
    BY <1>6 DEF Supersede
  <2>4. runs' = [runs EXCEPT ![Active] =
                   [runs[Active] EXCEPT !.status = "SUPERSEDED", !.beat = runs[Active].beat + 1]]
    <3> DEFINE r == Active
    <3> HIDE DEF r
    <3>0. runs' = [runs EXCEPT ![r].status = "SUPERSEDED", ![r].beat = @ + 1]
          /\ r \in DOMAIN runs /\ IsRun(runs[r])
      BY <2>1, <2>3 DEF r
    <3>1. [runs EXCEPT ![r].status = "SUPERSEDED"][r] = [runs[r] EXCEPT !.status = "SUPERSEDED"]
      BY <3>0
    <3>2. [runs[r] EXCEPT !.status = "SUPERSEDED"].beat = runs[r].beat
      BY <3>0 DEF IsRun
    <3>3. runs' = [runs EXCEPT ![r] =
                   [runs[r] EXCEPT !.status = "SUPERSEDED", !.beat = runs[r].beat + 1]]
      BY <3>0, <3>1, <3>2 DEF IsRun
    <3> QED BY <3>3 DEF r
  <2>5. /\ control' \in [enabled : BOOLEAN, active : Nat, published : Nat]
        /\ control'.active = None /\ control'.published = control.published
    BY <1>0, <2>3 DEF None
  <2> QED BY <2>1, <2>2, <2>4, <2>5, MarkStep
<1> QED BY <1>3, <1>4, <1>5, <1>6

-----------------------------------------------------------------------------
(* What a batch finds *)

LEMMA ScopeKeys ==
    ASSUME SourceOK
    PROVE  Scope.keys \subseteq ClientKeys /\ Context.keys \subseteq ClientKeys
           /\ (~Pending => Context = Scope)
BY DEF Scope, Context, SourceOK

LEMMA Decided ==
    ASSUME SourceOK, ControlOK, RunsOK, NEW asOf \in Days
    PROVE  LET d == Judged(Decision(asOf)) IN
           /\ Decision(asOf).requested = asOf /\ d.requested = asOf /\ d.closed = today
           /\ Decision(asOf).revision = revision /\ d.revision = revision
           /\ Decision(asOf).upper = d.upper /\ d.upper \in Nat /\ \A s \in sales : s.id <= d.upper
           /\ Decision(asOf).allowed => ~Pending
           /\ d.effective \in Days \union {None}
           /\ d.allowed => /\ ~Pending /\ d.effective \in Days
                           /\ control.published # None => runs[control.published].asOf <= d.effective
<1> DEFINE e == Decision(asOf)
           d == Judged(e)
           ids == {s.id : s \in sales} \union {0}
<1>1. /\ e.requested = asOf /\ e.closed = today /\ e.revision = revision /\ e.upper = Max(ids)
      /\ e.allowed => ~Pending
      /\ e.effective = IF e.allowed THEN Earlier(asOf, today) ELSE None
  BY DEF Decision
<1>2. Max(ids) \in Nat /\ \A s \in sales : s.id <= Max(ids)
  <2>1. PICK n \in Nat : \A s \in sales : s.id <= n
    BY LastRow DEF SourceOK
  <2>2. ids \in SUBSET Nat /\ ids # {} /\ \A x \in ids : x <= n
    BY <2>1 DEF SourceOK
  <2>3. Max(ids) \in ids /\ \A x \in ids : x <= Max(ids)
    <3> HIDE DEF ids
    <3> QED BY <2>2, Greatest
  <2> QED BY <2>2, <2>3
<1>3. Earlier(asOf, today) \in Days /\ Days \subseteq Nat
  BY SignalsAssumption DEF Earlier, SourceOK, Days
<1>4. /\ d.requested = e.requested /\ d.closed = e.closed /\ d.revision = e.revision
      /\ d.upper = e.upper /\ d.effective = e.effective
      /\ d.allowed => e.allowed /\ ~(control.published # None /\ e.effective # None
                                     /\ runs[control.published].asOf > e.effective)
  <2> DEFINE why == e.reasons
  <2>1. e = [requested |-> e.requested, closed |-> e.closed, effective |-> e.effective,
             revision |-> e.revision, upper |-> e.upper, allowed |-> e.allowed, reasons |-> why]
    BY DEF Decision
  <2> HIDE DEF e, why
  <2> QED BY <2>1 DEF Judged
<1> HIDE DEF e, d, ids
<1>5. control.published # None => runs[control.published].asOf \in Nat
  BY SMTT(60), <1>3 DEF ControlOK, RunsOK, IsRun, Table
<1>6. None \notin Days
  BY SignalsAssumption DEF Days, None
<1>7. d.allowed => d.effective \in Days /\ (control.published # None => runs[control.published].asOf <= d.effective)
  <2>1. d.allowed => d.effective \in Days /\ d.effective \in Nat
    BY <1>1, <1>3, <1>4
  <2>2. d.allowed /\ control.published # None => ~(runs[control.published].asOf > d.effective)
    BY <1>4, <1>6, <2>1
  <2> QED BY <1>5, <2>1, <2>2
<1>8. d.effective \in Days \union {None}
  BY <1>1, <1>3, <1>4
<1> QED BY <1>1, <1>2, <1>4, <1>7, <1>8 DEF e, d

(* A run that has read nothing.                                              *)
LEMMA NewRunOK ==
    ASSUME SourceOK, ControlOK, RunsOK, NEW asOf \in Days
    PROVE  LET d == Judged(Decision(asOf))
               run == NewRun(d)
           IN  /\ IsRun(run) /\ run.decision = d /\ run.scope = Context
               /\ run.status = (IF d.allowed THEN "RUNNING" ELSE "BLOCKED")
               /\ d.allowed => /\ run.phase = "scan" /\ run.asOf = d.effective
                               /\ RowsTell(run) /\ Reached(run) /\ Projected(run)
<1> DEFINE d == Judged(Decision(asOf))
           run == NewRun(d)
<1>1. /\ d.requested = asOf /\ d.closed = today /\ d.revision = revision /\ d.upper \in Nat
      /\ d.effective \in Days \union {None}
      /\ d.allowed => d.effective \in Days
  BY Decided
<1> HIDE DEF d
<1>2. DOMAIN (<<>>) = {}
  OBVIOUS
<1>3. /\ run.status = (IF d.allowed THEN "RUNNING" ELSE "BLOCKED")
      /\ run.phase = (IF d.allowed THEN "scan" ELSE "blocked")
      /\ run.asOf = (IF d.effective # None THEN d.effective ELSE Earlier(asOf, today))
      /\ run.decision = d /\ run.scope = Context /\ run.policy = release /\ run.cursor = 0
      /\ run.clientCursor = 0 /\ run.beat = 0 /\ run.days = <<>> /\ run.rows = <<>>
  BY <1>1 DEF NewRun
<1>4. None \notin Days /\ Earlier(asOf, today) \in Days
  BY SignalsAssumption DEF Days, None, Earlier, SourceOK
<1>5. run.asOf \in Days /\ (d.allowed => run.asOf = d.effective)
  BY <1>1, <1>3, <1>4
<1>6. run \in [status : Resumable \union Closed, phase : Phases, asOf : Days,
               decision : {run.decision}, scope : {run.scope}, policy : {run.policy},
               cursor : Nat, clientCursor : 0..NumClients, beat : Nat,
               days : {run.days}, rows : {run.rows}]
  <2>1. /\ run.status \in Resumable \union Closed /\ run.phase \in Phases
        /\ 0 \in 0..NumClients
    BY <1>3, SignalsAssumption DEF Resumable, Closed, Phases
  <2>2. run = [status |-> run.status, phase |-> run.phase, asOf |-> run.asOf,
               decision |-> run.decision, scope |-> run.scope, policy |-> run.policy,
               cursor |-> run.cursor, clientCursor |-> run.clientCursor,
               beat |-> run.beat, days |-> run.days, rows |-> run.rows]
    BY DEF NewRun
  <2> HIDE DEF run
  <2> QED BY <1>3, <1>5, <2>1, <2>2
<1> HIDE DEF run
<1>7. IsRun(run)
  <2>1. run.scope.keys \subseteq ClientKeys
    BY <1>3, ScopeKeys
  <2>2. DOMAIN run.days = {} /\ DOMAIN run.rows = {}
    BY <1>2, <1>3
  <2>3. revision \in Nat
    BY DEF SourceOK
  <2>4. /\ run.status \in Resumable => run.phase \in {"scan", "evaluate"}
        /\ run.status = "SUCCEEDED" <=> run.phase = "complete"
    BY <1>3 DEF Resumable
  <2> QED BY <1>1, <1>3, <1>6, <2>1, <2>2, <2>3, <2>4 DEF IsRun
<1>8. ASSUME d.allowed PROVE RowsTell(run) /\ Reached(run) /\ Projected(run)
  <2>1. run.phase = "scan" /\ run.rows = <<>> /\ run.days = <<>> /\ run.cursor = 0
    BY <1>3, <1>8
  <2>2. ReadTo(run, 0) = {}
    BY DEF ReadTo, SourceOK
  <2>3. Counts({}) = <<>>
    BY DEF Counts, DaysOf
  <2> QED BY <1>2, <2>1, <2>2, <2>3 DEF RowsTell, Reached, Projected
<1> QED BY <1>3, <1>5, <1>7, <1>8 DEF d, run

(* The run a batch goes on with: frozen before, it still answers for now.     *)
LEMMA OpenedRun ==
    ASSUME SignalsInv, NEW asOf \in Days, NEW run \in Opened(Decision(asOf))
    PROVE  /\ IsRun(run) /\ run.status = "RUNNING" /\ run.decision.revision = revision
           /\ ~Pending /\ run.scope = Context
           /\ \A s \in sales : s.id <= run.decision.upper
           /\ RowsTell(run) /\ Reached(run) /\ Projected(run)
           /\ control.published # None => runs[control.published].asOf <= run.asOf
           /\ run.phase = "evaluate" => Active # None
           /\ Active # None => run.asOf = runs[Active].asOf
<1>0. SourceOK /\ ControlOK /\ RunsOK
  BY DEF SignalsInv
<1> DEFINE e == Decision(asOf)
           d == Judged(e)
<1>1. /\ e.revision = revision /\ d.revision = revision /\ e.upper = d.upper
      /\ \A s \in sales : s.id <= d.upper
      /\ e.allowed => ~Pending
      /\ d.allowed => ~Pending /\ (control.published # None => runs[control.published].asOf <= d.effective)
  BY <1>0, Decided
<1>2. CASE Active = None
  <2>1. run = NewRun(d) /\ d.allowed
    BY <1>2 DEF Opened
  <2>2. /\ IsRun(run) /\ run.decision = d /\ run.scope = Context /\ run.status = "RUNNING"
        /\ run.phase = "scan" /\ run.asOf = d.effective
        /\ RowsTell(run) /\ Reached(run) /\ Projected(run)
    BY <1>0, <2>1, NewRunOK
  <2> HIDE DEF d, e
  <2> QED BY <1>1, <1>2, <2>1, <2>2
<1>3. CASE Active # None
  <2> DEFINE old == runs[Active]
  <2>1. run = [old EXCEPT !.status = "RUNNING"] /\ ~Blocker(old, e)
    BY <1>3 DEF Opened
  <2>2. Active \in 1..Len(runs) /\ old.status \in Resumable /\ IsRun(old)
    BY <1>0, <1>3 DEF Active, ControlOK, RunsOK, Table, None
  <2> HIDE DEF old, d, e
  <2>3. /\ old.decision.revision = e.revision /\ old.decision.upper = e.upper
        /\ e.allowed /\ old.scope = Context
    BY <2>1 DEF Blocker
  <2>4. IsRun(run) /\ run.status = "RUNNING" /\ SameWork(run, old)
    <3>1. "RUNNING" \in Resumable
      BY DEF Resumable
    <3> QED BY <2>1, <2>2, <3>1, RunMarked
  <2>5. importing \in {"none", "queued"}
    BY <1>0, <1>1, <2>3 DEF Pending, SourceOK
  <2>6. RowsTell(old) /\ Reached(old) /\ Projected(old)
    BY <1>1, <1>3, <2>3, <2>5, ProjectionIs DEF SignalsInv, EvaluationOK, old
  <2>7. RowsTell(run) /\ Reached(run) /\ Projected(run)
    BY <2>4, <2>6, SameWorkSame
  <2>8. control.published # None => runs[control.published].asOf <= old.asOf
    BY <1>0, <1>3 DEF ControlOK, old
  <2> QED BY <1>1, <1>3, <2>3, <2>4, <2>7, <2>8 DEF SameWork, old
<1> QED BY <1>2, <1>3

(* An answer given before is given again, or it is put down that there is none. *)
LEMMA RepeatStep ==
    ASSUME SignalsInv, NEW w \in Workers, Repeat(w, Decision(AsOf(w)))
    PROVE  SignalsInv' /\ RowsStay /\ feed' = feed
<1> USE DEF sourceVars
<1>0. SourceOK /\ ControlOK /\ RunsOK /\ ReaderOK /\ Len(runs) \in Nat
      /\ control \in [enabled : BOOLEAN, active : Nat, published : Nat]
  BY DEF SignalsInv, ControlOK, RunsOK, Table
<1> DEFINE d == Judged(Decision(AsOf(w)))
<1>1. AsOf(w) \in Days
  BY AsOfDay
<1>2. Active = None /\ UNCHANGED <<episodes, changes, published>>
  BY DEF Repeat
<1>3. CASE UNCHANGED <<runs, control>> /\ Resting(w, Candidate, 0)
  <2>1. Candidate \in Nat
    BY <1>0 DEF Candidate
  <2>2. WorkersOK' /\ UNCHANGED <<sourceVars, reader>>
    BY <1>3, <2>1, RestingOK
  <2>3. SourceOK' /\ ReaderOK' /\ revision <= revision'
    BY <1>0, <1>3, <2>2 DEF SourceOK, ReaderOK, ReportIsOneRun
  <2> QED BY <1>0, <1>2, <1>3, <2>2, <2>3, StillStep, NothingMoves
<1>4. CASE /\ ~d.allowed /\ runs' = Append(runs, NewRun(d))
           /\ control' = [control EXCEPT !.active = Len(runs) + 1]
           /\ Resting(w, Len(runs) + 1, 0)
  <2>0. Len(runs) + 1 \in Nat /\ 0 \in Nat /\ Resting(w, Len(runs) + 1, 0)
    BY <1>0, <1>4
  <2>1. WorkersOK' /\ UNCHANGED <<sourceVars, reader>>
    BY <2>0, RestingOK, Zenon
  <2>2. OpenedId = Len(runs) + 1 /\ runs' = Saved(OpenedId, NewRun(d))
    BY <1>0, <1>2, <1>4 DEF OpenedId, Saved
  <2>3. IsRun(NewRun(d)) /\ NewRun(d).status = "BLOCKED" /\ NewRun(d).decision.revision = revision
    BY <1>0, <1>1, <1>4, NewRunOK, Decided
  <2>4. /\ control' \in [enabled : BOOLEAN, active : Nat, published : Nat]
        /\ control'.active = OpenedId /\ control'.published = control.published
    BY <1>0, <1>4, <2>2
  <2>5. "BLOCKED" \notin Resumable /\ revision <= revision
    BY <1>0 DEF Resumable, SourceOK
  <2> HIDE DEF d
  <2> QED BY <1>2, <2>1, <2>2, <2>3, <2>4, <2>5, QuietStep
<1> QED BY <1>3, <1>4 DEF Repeat

-----------------------------------------------------------------------------
(* A page of sales *)

LEMMA ScannedRun ==
    ASSUME SourceOK, NEW run, IsRun(run), run.phase = "scan", run.status = "RUNNING", Projected(run)
    PROVE  LET t == [Scanned(run) EXCEPT !.beat = @ + 1] IN
           /\ IsRun(t) /\ t.status = "RUNNING" /\ t.asOf = run.asOf /\ t.decision = run.decision
           /\ RowsTell(t) /\ Reached(t) /\ Projected(t)
<1> DEFINE u     == run.decision.upper
           S     == {s.id : s \in {t \in sales : t.id > run.cursor /\ t.id <= run.decision.upper}}
           ids   == First(S, ScanSize)
           batch == {s \in sales : s.id \in ids /\ s.date <= run.asOf /\ s.client \in run.scope.keys}
           A     == ReadTo(run, run.cursor)
           t     == [Scanned(run) EXCEPT !.beat = @ + 1]
<1>0. /\ run.cursor \in Nat /\ u \in Nat /\ run.cursor <= u /\ run.asOf \in Days /\ run.beat + 1 \in Nat
      /\ \A s \in sales : s.id \in Nat \ {0} /\ s.client \in ClientKeys /\ s.date \in Nat \ {0}
      /\ ScanSize \in Nat \ {0} /\ Days \subseteq Nat
  BY SignalsAssumption DEF IsRun, SourceOK, Days
<1>1. S \in SUBSET Nat /\ \A x \in S : x <= u /\ x > run.cursor
  BY <1>0
<1>2. run.days = Counts(A) /\ run.clientCursor = 0 /\ DOMAIN run.rows = {}
  BY DEF Projected, IsRun
<1>3. CASE ids = {}
  <2>1. t = [run EXCEPT !.phase = "evaluate", !.beat = run.beat + 1]
    BY <1>3 DEF Scanned, IsRun
  <2>2. /\ t.status = "RUNNING" /\ t.phase = "evaluate" /\ t.asOf = run.asOf
        /\ t.decision = run.decision /\ t.scope = run.scope /\ t.policy = run.policy
        /\ t.cursor = run.cursor /\ t.clientCursor = 0 /\ t.days = run.days /\ t.rows = run.rows
    BY <1>2, <2>1 DEF IsRun
  <2>3. t \in [status : Resumable \union Closed, phase : Phases, asOf : Days,
               decision : {run.decision}, scope : {run.scope}, policy : {run.policy},
               cursor : Nat, clientCursor : 0..NumClients, beat : Nat,
               days : {run.days}, rows : {run.rows}]
    BY <1>0, <2>1 DEF IsRun, Phases
  <2> HIDE DEF t
  <2>4. IsRun(t)
    <3>1. t \in [status : Resumable \union Closed, phase : Phases, asOf : Days,
                 decision : {t.decision}, scope : {t.scope}, policy : {t.policy},
                 cursor : Nat, clientCursor : 0..NumClients, beat : Nat,
                 days : {t.days}, rows : {t.rows}]
      BY <2>2, <2>3, Zenon
    <3> QED BY <2>2, <3>1 DEF IsRun
  <2>5. S = {}
    <3> HIDE DEF S
    <3> QED BY <1>0, <1>1, <1>3, FirstIsEmpty
  <2>6. ReadTo(t, u) = A
    <3>1. \A s \in sales : s.id <= u <=> s.id <= run.cursor
      <4> TAKE s \in sales
      <4>1. ~(s.id > run.cursor /\ s.id <= u)
        BY <2>5
      <4> QED BY <1>0, <4>1
    <3> QED BY <2>2, <3>1 DEF ReadTo
  <2>7. Projected(t)
    BY <1>2, <2>2, <2>6 DEF Projected
  <2>8. Reached(t)
    <3>1. Evaluated(t) \subseteq ClientKeys
      <4>1. DOMAIN t.days \subseteq t.scope.keys \X Days /\ t.scope.keys \subseteq ClientKeys
        BY <2>4 DEF IsRun
      <4> QED BY <4>1 DEF Evaluated
    <3> QED BY <2>2, <3>1 DEF Reached, ClientKeys
  <2> QED BY <1>2, <2>2, <2>4, <2>7, <2>8 DEF RowsTell, t
<1>4. CASE ids # {}
  <2> DEFINE m     == Max(ids)
             days  == Added(run.days, batch)
  <2>1. m \in S /\ \A x \in S : x \in ids <=> x <= m
    <3>1. First(S, ScanSize) # {}
      BY <1>4
    <3> HIDE DEF S, u
    <3>2. ScanSize \in Int /\ u \in Nat /\ \A x \in S : x <= u
      BY <1>0, <1>1
    <3> QED BY <1>1, <3>1, <3>2, PageOf, Zenon
  <2>2. m \in Nat /\ m <= u /\ m > run.cursor
    BY <1>1, <2>1
  <2>3. Scanned(run) = [run EXCEPT !.cursor = m, !.days = days]
    BY <1>4 DEF Scanned, Added, On, DaysOf
  <2>4. \A s \in sales : s.id \in ids <=> (s.id > run.cursor /\ s.id <= m)
    <3> TAKE s \in sales
    <3>1. s.id \in S <=> (s.id > run.cursor /\ s.id <= u)
      BY <1>1
    <3>2. s.id \in ids => s.id \in S
      BY DEF First
    <3> HIDE DEF ids, S, m
    <3> QED BY <1>0, <2>1, <2>2, <3>1, <3>2
  <2> HIDE DEF ids, S, m, days
  <2>5. t = [run EXCEPT !.cursor = m, !.days = days, !.beat = run.beat + 1]
    BY <2>3 DEF IsRun
  <2>6. /\ t.status = "RUNNING" /\ t.phase = "scan" /\ t.asOf = run.asOf
        /\ t.decision = run.decision /\ t.scope = run.scope /\ t.policy = run.policy
        /\ t.cursor = m /\ t.clientCursor = 0 /\ t.days = days /\ t.rows = run.rows
    BY <1>2, <2>5 DEF IsRun
  <2>7. t \in [status : Resumable \union Closed, phase : Phases, asOf : Days,
               decision : {run.decision}, scope : {run.scope}, policy : {run.policy},
               cursor : Nat, clientCursor : 0..NumClients, beat : Nat,
               days : {days}, rows : {run.rows}]
    BY <1>0, <2>2, <2>5 DEF IsRun
  <2> HIDE DEF t
  <2>8. DOMAIN days \subseteq run.scope.keys \X Days
    <3>1. DOMAIN days = DOMAIN run.days \union DaysOf(batch)
      BY DEF days, Added
    <3>2. \A s \in batch : s.client \in run.scope.keys /\ s.date \in Days
      <4>1. run.asOf \in Nat /\ LastDay \in Nat /\ run.asOf <= LastDay
        BY <1>0, SignalsAssumption DEF Days
      <4> QED BY <1>0, <4>1 DEF Days
    <3>3. DaysOf(batch) \subseteq run.scope.keys \X Days
      BY <3>2 DEF DaysOf
    <3> QED BY <3>1, <3>3 DEF IsRun
  <2>9. IsRun(t)
    <3>1. t \in [status : Resumable \union Closed, phase : Phases, asOf : Days,
                 decision : {t.decision}, scope : {t.scope}, policy : {t.policy},
                 cursor : Nat, clientCursor : 0..NumClients, beat : Nat,
                 days : {t.days}, rows : {t.rows}]
      BY <2>6, <2>7, Zenon
    <3> QED BY <1>2, <2>2, <2>6, <2>8, <3>1 DEF IsRun
  <2>10. ReadTo(t, m) = A \union batch
    <3>1. \A s \in sales : s.id <= m <=> (s.id <= run.cursor \/ s.id \in ids)
      BY <1>0, <2>2, <2>4
    <3> QED BY <2>6, <3>1 DEF ReadTo
  <2>11. A \cap batch = {} /\ IsFiniteSet(A) /\ IsFiniteSet(batch)
    <3>1. A \in SUBSET sales /\ batch \in SUBSET sales
      BY DEF ReadTo
    <3>2. \A s \in sales : s.id \in ids => ~(s.id <= run.cursor)
      BY <1>0, <2>2, <2>4
    <3>3. A \cap batch = {}
      BY <3>2 DEF ReadTo
    <3> QED BY <3>1, <3>3, FS_Subset DEF SourceOK
  <2>12. Counts(A \union batch) = days
    <3> HIDE DEF A, batch
    <3> QED BY <1>2, <2>11, CountsAddUp DEF days
  <2>13. Projected(t)
    BY <2>6, <2>10, <2>12 DEF Projected
  <2> QED BY <1>2, <2>6, <2>9, <2>13 DEF RowsTell, Reached, t
<1> QED BY <1>3, <1>4

LEMMA ScanStep ==
    ASSUME SignalsInv, NEW w \in Workers, Scan(w, Decision(AsOf(w)))
    PROVE  SignalsInv' /\ RowsStay /\ feed' = feed
<1> USE DEF sourceVars
<1>0. SourceOK /\ ControlOK /\ RunsOK /\ control \in [enabled : BOOLEAN, active : Nat, published : Nat]
  BY DEF SignalsInv, ControlOK
<1>1. AsOf(w) \in Days
  BY AsOfDay
<1>2. PICK run \in Opened(Decision(AsOf(w))) :
        /\ run.phase = "scan"
        /\ runs' = Saved(OpenedId, [Scanned(run) EXCEPT !.beat = @ + 1])
        /\ control' = [control EXCEPT !.active = OpenedId]
        /\ Resting(w, OpenedId, run.beat + 1)
  BY DEF Scan
<1>3. UNCHANGED <<episodes, changes, published>>
  BY DEF Scan
<1>4. /\ IsRun(run) /\ run.status = "RUNNING" /\ run.decision.revision = revision /\ Projected(run)
      /\ control.published # None => runs[control.published].asOf <= run.asOf
  BY <1>1, OpenedRun
<1> DEFINE t == [Scanned(run) EXCEPT !.beat = @ + 1]
<1>5. /\ IsRun(t) /\ t.status = "RUNNING" /\ t.asOf = run.asOf /\ t.decision = run.decision
      /\ RowsTell(t) /\ Reached(t) /\ Projected(t)
  BY <1>0, <1>2, <1>4, ScannedRun
<1> HIDE DEF t
<1>6. runs' = Saved(OpenedId, t)
  BY <1>2 DEF t
<1>7. OpenedId \in Nat /\ run.beat + 1 \in Nat
  BY <1>0, <1>4, <1>6, RunSaved DEF IsRun
<1>8. WorkersOK' /\ UNCHANGED <<sourceVars, reader>>
  BY <1>2, <1>7, RestingOK, Zenon
<1>9. /\ control' \in [enabled : BOOLEAN, active : Nat, published : Nat]
      /\ control'.active = OpenedId /\ control'.published = control.published
  BY <1>0, <1>2, <1>7
<1>10. "RUNNING" \in Resumable /\ revision <= revision
  BY <1>0 DEF Resumable, SourceOK
<1> QED BY <1>3, <1>4, <1>5, <1>6, <1>8, <1>9, <1>10, QuietStep

-----------------------------------------------------------------------------
(* A page of clients *)

RowsOf(e, R) == {x \in R : x.episode = e}

(* An episode and its change rows before and after a batch.                  *)
HistoryBefore(old, new, e, log) ==
    /\ Table(old) /\ \A d \in 1..Len(old) : Episode(old[d])
    /\ Follows(old, new) /\ e \in 1..Len(new) /\ IsFiniteSet(log)
    /\ e \in 1..Len(old) => SoundHistory(old, e, log)
    /\ e \notin 1..Len(old) => log = {}

LEMMA HistoryMoved ==
    ASSUME NEW c, NEW r, NEW old, NEW new, NEW e, NEW log, HistoryBefore(old, new, e, log)
    PROVE  SoundHistory(new, e, log \union RowsOf(e, Recorded(r, c, old, new)))
           /\ IsFiniteSet(log \union RowsOf(e, Recorded(r, c, old, new)))
<1>b. /\ Table(old) /\ \A d \in 1..Len(old) : Episode(old[d])
      /\ Follows(old, new) /\ e \in 1..Len(new) /\ IsFiniteSet(log)
      /\ e \in 1..Len(old) => SoundHistory(old, e, log)
      /\ e \notin 1..Len(old) => log = {}
  BY DEF HistoryBefore
<1> DEFINE n     == Len(old)
           m     == Len(new)
           more  == RowsOf(e, Recorded(r, c, old, new))
           moved == e > n \/ new[e].revision # old[e].revision
           kind  == IF e > n THEN "CREATED" ELSE Kind(old[e].status, new[e].status)
           row   == [client |-> c, episode |-> e, revision |-> new[e].revision, run |-> r, kind |-> kind]
<1>0. /\ n \in Nat /\ m \in Nat /\ (m = n \/ m = n + 1) /\ e \in 1..m /\ DOMAIN new = 1..m
      /\ e \in 1..n => SoundHistory(old, e, log)
      /\ e \notin 1..n => log = {}
  BY <1>b, TableIsSeq DEF Table, Follows
<1>n. m = Len(new) /\ n = Len(old)
  OBVIOUS
<1>1. more = IF moved THEN {row} ELSE {}
  <2>1. ASSUME NEW x \in more PROVE moved /\ x = row
    <3>1. PICK i \in {k \in DOMAIN new : k > Len(old) \/ new[k].revision # old[k].revision} :
            x = [client |-> c, episode |-> i, revision |-> new[i].revision, run |-> r,
                 kind |-> IF i > Len(old) THEN "CREATED" ELSE Kind(old[i].status, new[i].status)]
      BY <2>1 DEF Recorded, RowsOf
    <3>2. i = e
      BY <2>1, <3>1 DEF RowsOf
    <3> QED BY <3>1, <3>2
  <2>2. ASSUME moved PROVE row \in more
    <3>1. e \in {k \in DOMAIN new : k > Len(old) \/ new[k].revision # old[k].revision}
      BY <1>0, <2>2
    <3>2. row \in Recorded(r, c, old, new)
      BY <3>1 DEF Recorded
    <3> QED BY <3>2 DEF RowsOf
  <2> HIDE DEF more, moved, row
  <2> QED BY <2>1, <2>2
<1>2. /\ row.revision = new[e].revision /\ row.kind = kind
  OBVIOUS
<1> HIDE DEF row, more, n, m
(* What Follows says of this episode.                                        *)
<1>f. /\ e \in 1..n => new[e] = old[e] \/
            (e = n /\ old[e].status \in Open /\ new[e].revision = old[e].revision + 1)
      /\ e \in 1..n /\ e = n /\ m = n + 1 => new[e].status = "RESOLVED"
      /\ e = m /\ m = n + 1 => new[e].revision = 1 /\ new[e].status = "ACTIVE"
      /\ Episode(new[e]) /\ (e \in 1..n => Episode(old[e]))
  <2>1. Episode(new[e]) /\ (e \in 1..n => Episode(old[e]))
    BY <1>b, <1>0, <1>n DEF Follows
  <2>2. e \in 1..n => new[e] = old[e] \/
            (e = n /\ old[e].status \in Open /\ new[e].revision = old[e].revision + 1)
    BY <1>b, <1>n DEF Follows
  <2>3. m = n + 1 => /\ new[m].revision = 1 /\ new[m].status = "ACTIVE"
                     /\ n > 0 => new[n].status = "RESOLVED"
    BY <1>b, <1>n DEF Follows
  <2> QED BY <1>0, <2>1, <2>2, <2>3
<1>3. new[e].revision \in Nat \ {0} /\ new[e].status \in Open \union {"RESOLVED"}
      /\ (e \in 1..n => old[e].revision \in Nat \ {0} /\ old[e].status \in Open \union {"RESOLVED"})
  BY <1>f DEF Episode
<1>4. kind \in {"RESOLVED", "SUSPENDED"} => new[e].status = kind
  BY DEF Kind
<1>5. e \in 1..n => (kind = "RESOLVED" <=> new[e].status = "RESOLVED")
  <2> HAVE e \in 1..n
  <2>1. ~(e > n)
    BY <1>0
  <2> QED BY <2>1 DEF Kind
<1>6. e < m => new[e].status = "RESOLVED"
  <2> HAVE e < m
  <2>1. e \in 1..n
    BY <1>0
  <2>2. CASE e < n
    <3>1. new[e] = old[e]
      BY <1>0, <1>f, <2>1, <2>2
    <3>2. old[e].status = "RESOLVED"
      BY <1>0, <1>n, <2>1, <2>2 DEF SoundHistory
    <3> QED BY <3>1, <3>2
  <2>3. CASE e = n
    BY <1>0, <1>f, <2>1, <2>3
  <2> QED BY <1>0, <2>1, <2>2, <2>3
<1>7. CASE ~moved
  <2>1. e \in 1..n
    BY <1>0, <1>7
  <2>2. new[e] = old[e] /\ log \union more = log
    BY <1>1, <1>3, <1>7, <1>f, <2>1
  <2> QED BY <1>b, <1>0, <1>6, <1>n, <2>1, <2>2 DEF SoundHistory, more
<1>8. CASE moved /\ e \in 1..n
  <2>0. ~(e > n)
    BY <1>0, <1>8
  <2>1. new[e].revision = old[e].revision + 1
    BY <1>8, <1>f, <2>0
  <2>2. {x.revision : x \in log} = 1..old[e].revision /\ Cardinality(log) = old[e].revision
    BY <1>0, <1>8 DEF SoundHistory
  <2> DEFINE k == old[e].revision
  <2>k. k \in Nat /\ new[e].revision = k + 1
    BY <1>3, <1>8, <2>1
  <2> HIDE DEF k
  <2>3. row \notin log
    <3>1. \A x \in log : x.revision \in 1..k
      BY <2>2 DEF k
    <3> QED BY <1>2, <2>k, <3>1
  <2>4. log \union more = log \union {row}
    BY <1>1, <1>8
  <2>5. IsFiniteSet(log \union {row}) /\ Cardinality(log \union {row}) = k + 1
    BY <1>b, <2>2, <2>3, FS_AddElement DEF k
  <2>6. {x.revision : x \in log \union {row}} = 1..(k + 1)
    <3>1. {x.revision : x \in log \union {row}} = (1..k) \union {k + 1}
      BY <1>2, <2>2, <2>k DEF k
    <3>2. (1..k) \union {k + 1} = 1..(k + 1)
      BY <2>k
    <3> QED BY <3>1, <3>2
  <2>7. SoundHistory(new, e, log \union {row})
    <3>1. row \in log \union {row} /\ (new[e].status = "RESOLVED" => kind = "RESOLVED")
      BY <1>5, <1>8
    <3> HIDE DEF kind
    <3> QED BY <1>2, <1>4, <1>6, <1>n, <2>5, <2>6, <2>k, <3>1 DEF SoundHistory
  <2> QED BY <2>4, <2>5, <2>7 DEF more
<1>9. CASE e \notin 1..n
  <2>1. e = m /\ m = n + 1 /\ e > n
    BY <1>0, <1>9
  <2>2. new[e].revision = 1 /\ new[e].status = "ACTIVE" /\ moved
    BY <1>f, <2>1
  <2>3. log \union more = {row}
    BY <1>0, <1>1, <1>9, <2>2
  <2>4. IsFiniteSet({row}) /\ Cardinality({row}) = 1
    BY FS_Singleton
  <2>5. {x.revision : x \in {row}} = 1..1
    BY <1>2, <2>2
  <2>6. SoundHistory(new, e, {row})
    <3> HIDE DEF kind
    <3> QED BY <1>2, <1>4, <1>6, <1>n, <2>2, <2>4, <2>5 DEF SoundHistory
  <2> QED BY <2>3, <2>4, <2>6 DEF more
<1> QED
  <2>1. moved \/ ~moved
    OBVIOUS
  <2> QED BY <1>7, <1>8, <1>9

(* What a batch over clients Q does to episodes and change rows.              *)
AllRecorded(a, Q, done) == UNION {Recorded(a, c, episodes[c], done[c]) : c \in Q}

ClientsBatch(a, Q, done) ==
    /\ Q \subseteq ClientKeys /\ \A c \in Q : Follows(episodes[c], done[c])
    /\ \A c \in ClientKeys : episodes'[c] = IF c \in Q THEN done[c] ELSE episodes[c]
    /\ changes' = changes \union AllRecorded(a, Q, done)
    /\ a \in Nat /\ \A x \in changes : x.run <= a
    /\ Len(runs) \in Nat /\ Len(runs') \in Nat /\ Len(runs) <= Len(runs') /\ a \in 1..Len(runs')

LEMMA ClientsMoved ==
    ASSUME SignalsInv, NEW a, NEW Q, NEW done, ClientsBatch(a, Q, done)
    PROVE  /\ EpisodesOK' /\ ChangesOK' /\ EpisodesSound'
           /\ \A r : r # a => {x \in changes' : x.run = r} = {x \in changes : x.run = r}
<1> SUFFICES ASSUME Q \subseteq ClientKeys, \A c \in Q : Follows(episodes[c], done[c]),
                    \A c \in ClientKeys : episodes'[c] = IF c \in Q THEN done[c] ELSE episodes[c],
                    changes' = changes \union AllRecorded(a, Q, done),
                    a \in Nat, \A x \in changes : x.run <= a,
                    Len(runs) \in Nat, Len(runs') \in Nat, Len(runs) <= Len(runs'), a \in 1..Len(runs')
             PROVE  /\ EpisodesOK' /\ ChangesOK' /\ EpisodesSound'
                    /\ \A r : r # a => {x \in changes' : x.run = r} = {x \in changes : x.run = r}
  BY Zenon DEF ClientsBatch
<1> DEFINE N(c) == Recorded(a, c, episodes[c], done[c])
<1>0. EpisodesOK /\ ChangesOK /\ EpisodesSound
  BY DEF SignalsInv
<1>1. \A c \in Q : /\ Table(episodes[c]) /\ \A e \in 1..Len(episodes[c]) : Episode(episodes[c][e])
                   /\ Table(done[c]) /\ Len(episodes[c]) \in Nat /\ Len(done[c]) \in Nat
                   /\ Len(done[c]) \in {Len(episodes[c]), Len(episodes[c]) + 1}
                   /\ DOMAIN done[c] = 1..Len(done[c])
  BY <1>0, TableIsSeq DEF EpisodesOK, Table, Follows
<1>2. \A c \in ClientKeys : episodes'[c] = IF c \in Q THEN done[c] ELSE episodes[c]
  OBVIOUS
(* The new change rows.                                                      *)
<1>3. ASSUME NEW c \in Q, NEW x \in N(c)
      PROVE  /\ x.client = c /\ x.run = a /\ x.episode \in 1..Len(done[c])
             /\ x.revision = done[c][x.episode].revision
             /\ \/ x.episode = Len(episodes[c]) + 1
                \/ /\ x.episode = Len(episodes[c])
                   /\ x.revision = episodes[c][x.episode].revision + 1
  <2>1. PICK e \in 1..Len(done[c]) :
          /\ e > Len(episodes[c]) \/ done[c][e].revision # episodes[c][e].revision
          /\ x.client = c /\ x.run = a /\ x.episode = e /\ x.revision = done[c][e].revision
    BY SMTT(60), <1>1 DEF Recorded
  <2>2. CASE e > Len(episodes[c])
    BY <1>1, <2>1, <2>2
  <2>3. CASE ~(e > Len(episodes[c]))
    <3>1. e \in 1..Len(episodes[c]) /\ done[c][e] # episodes[c][e]
      BY <1>1, <2>1, <2>3
    <3> QED BY <2>1, <3>1 DEF Follows
  <2> QED BY <2>2, <2>3
<1>4. /\ \A x \in changes' : x \in changes \/ \E c \in Q : x \in N(c)
      /\ \A c \in Q : N(c) \subseteq changes'
  BY DEF AllRecorded
<1>5. \A c \in ClientKeys : \A e : Log(c, e)' =
         IF c \in Q THEN Log(c, e) \union RowsOf(e, N(c)) ELSE Log(c, e)
  <2> TAKE c \in ClientKeys
  <2> TAKE e
  <2>1. \A x \in changes' : x.client = c => x \in changes \/ (c \in Q /\ x \in N(c))
    BY <1>3, <1>4
  <2>2. c \in Q => \A x \in N(c) : x \in changes' /\ x.client = c
    BY <1>3, <1>4
  <2>3. changes \subseteq changes'
    OBVIOUS
  <2> HIDE DEF N
  <2> QED BY <2>1, <2>2, <2>3 DEF Log, RowsOf
<1>6. \A c \in ClientKeys : \A e : e \notin 1..Len(episodes[c]) => Log(c, e) = {}
  BY <1>0 DEF ChangesOK, Log
<1>7. \A c \in ClientKeys : Table(episodes[c]) /\ DOMAIN episodes[c] = 1..Len(episodes[c]) /\ Len(episodes[c]) \in Nat
  BY <1>0, TableIsSeq DEF EpisodesOK, Table
<1>8. ASSUME NEW c \in ClientKeys, NEW e \in DOMAIN episodes'[c]
      PROVE  SoundHistory(episodes'[c], e, Log(c, e)') /\ IsFiniteSet(Log(c, e)')
  <2>1. \A d \in 1..Len(episodes[c]) : SoundHistory(episodes[c], d, Log(c, d))
    BY <1>0, <1>7, HistoriesSound
  <2>2. \A d \in Nat : IsFiniteSet(Log(c, d))
    BY <1>0 DEF ChangesOK
  <2>3. CASE c \notin Q
    BY <1>2, <1>5, <1>7, <1>8, <2>1, <2>2, <2>3
  <2>4. CASE c \in Q
    <3>1. e \in 1..Len(done[c]) /\ e \in Nat /\ episodes'[c] = done[c]
      BY <1>1, <1>2, <1>8, <2>4
    <3>2. /\ SoundHistory(done[c], e, Log(c, e) \union RowsOf(e, Recorded(a, c, episodes[c], done[c])))
          /\ IsFiniteSet(Log(c, e) \union RowsOf(e, Recorded(a, c, episodes[c], done[c])))
      <4>1. HistoryBefore(episodes[c], done[c], e, Log(c, e))
        BY <1>1, <1>6, <2>1, <2>2, <2>4, <3>1 DEF HistoryBefore
      <4> QED BY <4>1, HistoryMoved, Zenon
    <3> QED BY <1>5, <2>4, <3>1, <3>2
  <2> QED BY <2>3, <2>4
<1>9. EpisodesSound'
  BY <1>8, HistoriesSoundNext
<1>10. EpisodesOK'
  <2>1. \A c \in Q : Table(done[c]) /\ \A e \in 1..Len(done[c]) : Episode(done[c][e])
    BY DEF Follows
  <2> QED BY <1>0, <1>2, <2>1 DEF EpisodesOK
<1>11. \A x \in changes' :
          /\ x.client \in ClientKeys /\ x.run \in 1..Len(runs')
          /\ x.episode \in 1..Len(episodes'[x.client])
          /\ x.revision \in 1..episodes'[x.client][x.episode].revision
  <2>1. ASSUME NEW c \in Q, NEW x \in N(c)
        PROVE  /\ x.client \in ClientKeys /\ x.run \in 1..Len(runs')
               /\ x.episode \in 1..Len(episodes'[x.client])
               /\ x.revision \in 1..episodes'[x.client][x.episode].revision
    <3>1. done[c][x.episode].revision \in Nat \ {0}
      BY <1>3, <2>1 DEF Follows, Episode
    <3> HIDE DEF N
    <3> QED BY <1>2, <1>3, <2>1, <3>1
  <2>2. ASSUME NEW x \in changes
        PROVE  /\ x.client \in ClientKeys /\ x.run \in 1..Len(runs')
               /\ x.episode \in 1..Len(episodes'[x.client])
               /\ x.revision \in 1..episodes'[x.client][x.episode].revision
    <3> DEFINE c == x.client
               e == x.episode
    <3>1. /\ c \in ClientKeys /\ x.run \in 1..Len(runs) /\ e \in 1..Len(episodes[c])
          /\ x.revision \in 1..episodes[c][e].revision
      BY <1>0 DEF ChangesOK
    <3>2. CASE c \notin Q
      BY <1>2, <3>1, <3>2
    <3>3. CASE c \in Q
      <4>1. episodes[c][e].revision \in Nat
        BY <1>1, <3>1, <3>3 DEF Episode
      <4>2. done[c][e].revision \in {episodes[c][e].revision, episodes[c][e].revision + 1}
        BY <3>1, <3>3 DEF Follows
      <4>3. e \in 1..Len(done[c])
        BY <1>1, <3>1, <3>3
      <4>4. episodes'[c][e].revision = done[c][e].revision /\ Len(episodes'[c]) = Len(done[c])
        BY <1>2, <3>1, <3>3
      <4> HIDE DEF c, e
      <4>5. x.revision \in 1..done[c][e].revision
        BY <3>1, <4>1, <4>2
      <4> QED BY <3>1, <4>3, <4>4, <4>5 DEF c, e
    <3> QED BY <3>2, <3>3
  <2> HIDE DEF N
  <2> QED BY <1>4, <2>1, <2>2
<1>12. \A c \in ClientKeys, e \in Nat : IsFiniteSet(Log(c, e)')
  <2> TAKE c \in ClientKeys, e \in Nat
  <2>1. CASE e \in DOMAIN episodes'[c]
    BY <1>8, <2>1
  <2>2. CASE e \notin DOMAIN episodes'[c]
    <3>1. c \in Q => RowsOf(e, N(c)) = {}
      BY <1>1, <1>2, <1>3, <2>2 DEF RowsOf
    <3>2. IsFiniteSet(Log(c, e))
      BY <1>0 DEF ChangesOK
    <3> HIDE DEF N
    <3>3. Log(c, e)' = Log(c, e)
      BY <1>5, <3>1
    <3> QED BY <3>2, <3>3
  <2> QED BY <2>1, <2>2
<1>13. \A x, y \in changes' : x.client = y.client /\ x.run < y.run
          => x.episode < y.episode \/ (x.episode = y.episode /\ x.revision < y.revision)
  <2> SUFFICES ASSUME NEW x \in changes', NEW y \in changes', x.client = y.client, x.run < y.run
               PROVE  x.episode < y.episode \/ (x.episode = y.episode /\ x.revision < y.revision)
    OBVIOUS
  <2>1. CASE y \in changes
    <3>1. x \in changes
      <4>1. \A c \in Q : x \in N(c) => x.run = a
        BY <1>3
      <4>2. y.run <= a /\ y.run \in Nat
        BY <1>0, <2>1 DEF ChangesOK
      <4> HIDE DEF N
      <4> QED BY <1>4, <4>1, <4>2
    <3> QED BY <1>0, <2>1, <3>1 DEF ChangesOK
  <2>2. ASSUME NEW c \in Q, y \in N(c)
        PROVE  x.episode < y.episode \/ (x.episode = y.episode /\ x.revision < y.revision)
    <3>1. /\ y.client = c /\ y.run = a
          /\ \/ y.episode = Len(episodes[c]) + 1
             \/ y.episode = Len(episodes[c]) /\ y.revision = episodes[c][y.episode].revision + 1
      BY <1>3, <2>2
    <3>2. x \in changes
      <4>1. \A d \in Q : x \in N(d) => x.run = a
        BY <1>3
      <4> HIDE DEF N
      <4> QED BY <1>4, <3>1, <4>1
    <3>3. x.episode \in 1..Len(episodes[c]) /\ x.revision \in 1..episodes[c][x.episode].revision
      BY <1>0, <3>1, <3>2 DEF ChangesOK
    <3>4. episodes[c][x.episode].revision \in Nat
      BY <1>1, <2>2, <3>3 DEF Episode
    <3> QED BY <1>1, <2>2, <3>1, <3>3, <3>4
  <2> HIDE DEF N
  <2> QED BY <1>4, <2>1, <2>2
<1>14. ChangesOK'
  BY <1>11, <1>12, <1>13 DEF ChangesOK
<1>15. \A r : r # a => {x \in changes' : x.run = r} = {x \in changes : x.run = r}
  <2>1. \A x \in changes' : x \in changes \/ x.run = a
    BY <1>3, <1>4
  <2>2. changes \subseteq changes'
    OBVIOUS
  <2> QED BY <2>1, <2>2
<1> QED BY <1>9, <1>10, <1>14, <1>15

(* A client's page: nobody before its last is left out.                      *)
LEMMA NextClientsOK ==
    ASSUME NEW run, IsRun(run)
    PROVE  /\ Evaluated(run) \subseteq run.scope.keys /\ run.scope.keys \subseteq ClientKeys
           /\ ClientKeys \subseteq Nat \ {0} /\ run.clientCursor \in Nat
           /\ NextClients(run) \subseteq {c \in Evaluated(run) : c > run.clientCursor}
           /\ NextClients(run) = {} => \A c \in Evaluated(run) : c <= run.clientCursor
           /\ NextClients(run) # {} =>
                 /\ Max(NextClients(run)) \in 1..NumClients
                 /\ Max(NextClients(run)) > run.clientCursor
                 /\ \A c \in Evaluated(run) : c <= Max(NextClients(run))
                       => c <= run.clientCursor \/ c \in NextClients(run)
<1> DEFINE S == {c \in Evaluated(run) : c > run.clientCursor}
<1>1. /\ run.scope.keys \subseteq ClientKeys /\ ClientKeys = 1..NumClients /\ NumClients \in Nat
      /\ DOMAIN run.days \subseteq run.scope.keys \X Days /\ run.clientCursor \in Nat
      /\ ClientSize \in Nat \ {0}
  BY SignalsAssumption DEF IsRun, ClientKeys
<1>2. Evaluated(run) \subseteq run.scope.keys
  BY <1>1 DEF Evaluated
<1>3. S \in SUBSET Nat /\ \A x \in S : x <= NumClients /\ x \in 1..NumClients
  BY <1>1, <1>2
<1>4. NextClients(run) = First(S, ClientSize) /\ NextClients(run) \subseteq S
  BY DEF NextClients, First
<1>5. CASE NextClients(run) = {}
  <2>1. S = {}
    <3> HIDE DEF S
    <3> QED BY <1>1, <1>3, <1>4, <1>5, FirstIsEmpty
  <2>2. \A c \in Evaluated(run) : c <= run.clientCursor
    BY <1>1, <1>2, <2>1
  <2> QED BY <1>1, <1>2, <1>4, <1>5, <2>2
<1>6. CASE NextClients(run) # {}
  <2> DEFINE m == Max(NextClients(run))
  <2>1. m \in S /\ \A x \in S : x \in NextClients(run) <=> x <= m
    <3>0. First(S, ClientSize) # {}
      BY <1>4, <1>6
    <3> HIDE DEF S
    <3>1. ClientSize \in Int /\ NumClients \in Nat /\ \A x \in S : x <= NumClients
      BY <1>1, <1>3
    <3>2. /\ Max(First(S, ClientSize)) \in S
          /\ \A x \in S : x \in First(S, ClientSize) <=> x <= Max(First(S, ClientSize))
      BY <1>3, <3>0, <3>1, PageOf, Zenon
    <3> QED BY <1>4, <3>2
  <2> HIDE DEF m
  <2>2. \A c \in Evaluated(run) : c <= m => c <= run.clientCursor \/ c \in NextClients(run)
    BY <1>1, <1>2, <2>1
  <2> QED BY <1>1, <1>2, <1>3, <1>4, <1>6, <2>1, <2>2 DEF m
<1> QED BY <1>5, <1>6

LEMMA EvaluateStep ==
    ASSUME SignalsInv, NEW w \in Workers, Evaluate(w, Decision(AsOf(w)))
    PROVE  SignalsInv' /\ RowsStay /\ feed' = feed
<1> USE DEF sourceVars
<1>0. /\ SourceOK /\ ControlOK /\ RunsOK /\ EpisodesOK /\ ChangesOK
      /\ control \in [enabled : BOOLEAN, active : Nat, published : Nat]
  BY DEF SignalsInv, ControlOK
<1>1. AsOf(w) \in Days
  BY AsOfDay
<1>2. PICK run \in Opened(Decision(AsOf(w))) :
        /\ run.phase = "evaluate" /\ NextClients(run) # {}
        /\ \E facts \in {[c \in NextClients(run) |-> Facts(run, c)]} :
           \E done \in {[c \in DOMAIN facts |-> Reconciled(run, c, facts[c])]} :
            /\ episodes' = [c \in ClientKeys |-> IF c \in DOMAIN done THEN done[c] ELSE episodes[c]]
            /\ changes' = changes \union
                 UNION {Recorded(Active, c, episodes[c], done[c]) : c \in DOMAIN done}
            /\ runs' = [runs EXCEPT ![Active] =
                 [run EXCEPT !.clientCursor = Max(DOMAIN done), !.beat = @ + 1,
                             !.rows = [c \in DOMAIN run.rows \union DOMAIN done |->
                                IF c \in DOMAIN done THEN Row(facts[c], done[c]) ELSE run.rows[c]]]]
        /\ Resting(w, Active, run.beat + 1)
  BY DEF Evaluate
<1>3. UNCHANGED <<control, published>>
  BY DEF Evaluate
<1>4. /\ IsRun(run) /\ run.status = "RUNNING" /\ run.decision.revision = revision
      /\ RowsTell(run) /\ Reached(run) /\ Projected(run)
      /\ control.published # None => runs[control.published].asOf <= run.asOf
      /\ Active # None
  BY <1>1, <1>2, OpenedRun
<1> DEFINE Q == NextClients(run)
           m == Max(Q)
<1>5a. PICK facts \in {[c \in NextClients(run) |-> Facts(run, c)]} :
         \E done \in {[c \in DOMAIN facts |-> Reconciled(run, c, facts[c])]} :
            /\ episodes' = [c \in ClientKeys |-> IF c \in DOMAIN done THEN done[c] ELSE episodes[c]]
            /\ changes' = changes \union
                 UNION {Recorded(Active, c, episodes[c], done[c]) : c \in DOMAIN done}
            /\ runs' = [runs EXCEPT ![Active] =
                 [run EXCEPT !.clientCursor = Max(DOMAIN done), !.beat = @ + 1,
                             !.rows = [c \in DOMAIN run.rows \union DOMAIN done |->
                                IF c \in DOMAIN done THEN Row(facts[c], done[c]) ELSE run.rows[c]]]]
  BY <1>2, Zenon
<1>5b. PICK done \in {[c \in DOMAIN facts |-> Reconciled(run, c, facts[c])]} :
            /\ episodes' = [c \in ClientKeys |-> IF c \in DOMAIN done THEN done[c] ELSE episodes[c]]
            /\ changes' = changes \union
                 UNION {Recorded(Active, c, episodes[c], done[c]) : c \in DOMAIN done}
            /\ runs' = [runs EXCEPT ![Active] =
                 [run EXCEPT !.clientCursor = Max(DOMAIN done), !.beat = @ + 1,
                             !.rows = [c \in DOMAIN run.rows \union DOMAIN done |->
                                IF c \in DOMAIN done THEN Row(facts[c], done[c]) ELSE run.rows[c]]]]
  BY <1>5a, Zenon
<1>5. /\ DOMAIN facts = Q /\ DOMAIN done = Q
      /\ \A c \in Q : facts[c] = Facts(run, c) /\ done[c] = Reconciled(run, c, facts[c])
  <2>1. facts = [c \in Q |-> Facts(run, c)]
    OBVIOUS
  <2>2. done = [c \in DOMAIN facts |-> Reconciled(run, c, facts[c])]
    OBVIOUS
  <2> HIDE DEF Q
  <2>3. DOMAIN facts = Q /\ DOMAIN done = DOMAIN facts
    BY <2>1, <2>2
  <2>4. \A c \in Q : facts[c] = Facts(run, c)
    BY <2>1
  <2>5. \A c \in Q : done[c] = Reconciled(run, c, facts[c])
    BY <2>2, <2>3
  <2> QED BY <2>3, <2>4, <2>5
<1>5c. PICK rows : rows = [c \in DOMAIN run.rows \union Q |->
                            IF c \in Q THEN Row(facts[c], done[c]) ELSE run.rows[c]]
  OBVIOUS
<1>5d. PICK t : t = [run EXCEPT !.clientCursor = m, !.beat = run.beat + 1, !.rows = rows]
  OBVIOUS
<1>6. /\ episodes' = [c \in ClientKeys |-> IF c \in Q THEN done[c] ELSE episodes[c]]
      /\ changes' = changes \union UNION {Recorded(Active, c, episodes[c], done[c]) : c \in Q}
      /\ runs' = [runs EXCEPT ![Active] = [run EXCEPT !.clientCursor = m, !.beat = @ + 1, !.rows = rows]]
      /\ Resting(w, Active, run.beat + 1)
  <2> HIDE DEF Q
  <2>1. episodes' = [c \in ClientKeys |-> IF c \in Q THEN done[c] ELSE episodes[c]]
    BY <1>5, <1>5b
  <2>2. changes' = changes \union UNION {Recorded(Active, c, episodes[c], done[c]) : c \in Q}
    BY <1>5, <1>5b
  <2>3. rows = [c \in DOMAIN run.rows \union DOMAIN done |->
                   IF c \in DOMAIN done THEN Row(facts[c], done[c]) ELSE run.rows[c]]
    BY <1>5, <1>5c
  <2>4. runs' = [runs EXCEPT ![Active] = [run EXCEPT !.clientCursor = m, !.beat = @ + 1, !.rows = rows]]
    <3>1. m = Max(DOMAIN done)
      BY <1>5
    <3> HIDE DEF m
    <3> QED BY <1>5b, <2>3, <3>1
  <2> QED BY <1>2, <2>1, <2>2, <2>4
<1>7. /\ Evaluated(run) \subseteq run.scope.keys /\ run.scope.keys \subseteq ClientKeys
      /\ ClientKeys \subseteq Nat \ {0} /\ run.clientCursor \in Nat
      /\ Q \subseteq {c \in Evaluated(run) : c > run.clientCursor}
      /\ m \in 1..NumClients /\ m > run.clientCursor
      /\ \A c \in Evaluated(run) : c <= m => c <= run.clientCursor \/ c \in Q
  BY <1>2, <1>4, NextClientsOK
<1>8. \A c \in Q : /\ facts[c] = Facts(run, c) /\ done[c] = Reconciled(run, c, facts[c])
                   /\ Follows(episodes[c], done[c])
                   /\ (rows[c].status = "ACTIVE") <=> facts[c].verdict.risk
  <2> TAKE c \in Q
  <2>1. facts[c] = Facts(run, c) /\ done[c] = Reconciled(run, c, facts[c])
        /\ rows[c] = Row(facts[c], done[c])
    BY <1>5, <1>5c
  <2>2. Facts(run, c).verdict.risk => Facts(run, c).verdict.eligible
    BY DEF Facts, Verdict
  <2>3. c \in ClientKeys /\ Table(episodes[c]) /\ \A e \in 1..Len(episodes[c]) : Episode(episodes[c][e])
    BY <1>0, <1>7 DEF EpisodesOK
  <2>4. Follows(episodes[c], Reconciled(run, c, facts[c]))
    BY <2>3, EpisodesFollow
  <2>5. Row(facts[c], Reconciled(run, c, facts[c])).status = "ACTIVE" <=> facts[c].verdict.risk
    BY <2>1, <2>2, <2>3, RowTells
  <2> QED BY <2>1, <2>4, <2>5
<1>9. DOMAIN rows = DOMAIN run.rows \union Q /\ \A c \in DOMAIN run.rows : c \notin Q => rows[c] = run.rows[c]
  <2> HIDE DEF Q
  <2> QED BY <1>5c
<1> HIDE DEF m, Q
<1>10. /\ t.status = "RUNNING" /\ t.phase = "evaluate" /\ t.asOf = run.asOf
       /\ t.decision = run.decision /\ t.scope = run.scope /\ t.policy = run.policy
       /\ t.cursor = run.cursor /\ t.clientCursor = m /\ t.days = run.days /\ t.rows = rows
  BY <1>2, <1>4, <1>5d DEF IsRun
<1>11. t \in [status : Resumable \union Closed, phase : Phases, asOf : Days,
              decision : {run.decision}, scope : {run.scope}, policy : {run.policy},
              cursor : Nat, clientCursor : 0..NumClients, beat : Nat,
              days : {run.days}, rows : {rows}]
  <2>1. m \in 0..NumClients /\ run.beat + 1 \in Nat
    BY <1>4, <1>7 DEF IsRun
  <2> QED BY <1>4, <1>5d, <2>1 DEF IsRun
<1>12. runs' = [runs EXCEPT ![Active] = t]
  BY <1>4, <1>5d, <1>6 DEF IsRun
<1>13. IsRun(t)
  <2>1. t \in [status : Resumable \union Closed, phase : Phases, asOf : Days,
               decision : {t.decision}, scope : {t.scope}, policy : {t.policy},
               cursor : Nat, clientCursor : 0..NumClients, beat : Nat,
               days : {t.days}, rows : {t.rows}]
    BY <1>10, <1>11, Zenon
  <2>2. DOMAIN rows \subseteq run.scope.keys
    BY <1>4, <1>7, <1>9 DEF IsRun
  <2> QED BY <1>4, <1>10, <2>1, <2>2 DEF IsRun, Resumable
<1>14. RowsTell(t)
  <2>1. \A c : Facts(t, c) = Facts(run, c)
    BY <1>10 DEF Facts, PurchasesOf
  <2> QED BY <1>4, <1>8, <1>9, <1>10, <2>1 DEF RowsTell
<1>15. Reached(t)'
  <2> DEFINE E == {k[1] : k \in DOMAIN run.days} \union {c \in run.scope.keys : episodes'[c] # <<>>}
  <2>e. Evaluated(t)' = E
    BY <1>10 DEF Evaluated
  <2> SUFFICES ASSUME NEW c \in E, c <= m PROVE c \in DOMAIN rows
    <3> HIDE DEF E
    <3> QED BY <1>10, <2>e DEF Reached
  <2>1. c \in Evaluated(run) \/ c \in Q
    <3>1. CASE c \in {k[1] : k \in DOMAIN run.days}
      BY <3>1 DEF Evaluated
    <3>2. CASE c \in run.scope.keys /\ episodes'[c] # <<>>
      <4>1. c \in ClientKeys
        BY <1>7, <3>2
      <4>2. c \notin Q => episodes'[c] = episodes[c]
        BY <1>6, <4>1
      <4> QED BY <3>2, <4>2 DEF Evaluated
    <3> QED BY <3>1, <3>2
  <2>2. CASE c \in Q
    BY <1>9, <2>2
  <2>3. CASE c \notin Q
    <3>1. c \in Evaluated(run) /\ c <= run.clientCursor
      BY <1>7, <2>1, <2>3
    <3> QED BY <1>2, <1>4, <1>9, <3>1 DEF Reached
  <2> QED BY <2>2, <2>3
<1>16. Projected(t)
  <2>1. ReadTo(t, t.decision.upper) = ReadTo(run, run.decision.upper)
    BY <1>10 DEF ReadTo
  <2> QED BY <1>2, <1>4, <1>10, <2>1 DEF Projected
<1>17. OpenedId = Active /\ Active \in 1..Len(runs) /\ Active = Len(runs) /\ Len(runs) \in Nat
       /\ Active = control.active
  BY <1>0, <1>4 DEF OpenedId, Active, ControlOK, RunsOK, Table, None
<1>a. PICK a : a = Active
  OBVIOUS
<1>18. runs' = Saved(OpenedId, t)
  BY <1>12, <1>17 DEF Saved
<1>19. Len(runs') = Len(runs)
  BY <1>0, <1>17, <1>18, RunSaved
<1>20. /\ EpisodesOK' /\ ChangesOK' /\ EpisodesSound'
       /\ \A r : r # a => {x \in changes' : x.run = r} = {x \in changes : x.run = r}
  <2>1. Q \subseteq ClientKeys /\ \A c \in Q : Follows(episodes[c], done[c])
    BY <1>7, <1>8
  <2>2. a \in Nat /\ a \in 1..Len(runs') /\ Len(runs') \in Nat /\ Len(runs) <= Len(runs')
        /\ Len(runs) \in Nat
    <3> DEFINE n == Len(runs)
               k == Len(runs')
    <3>1. a \in 1..n /\ n \in Nat /\ k = n
      BY <1>17, <1>19, <1>a
    <3> HIDE DEF n, k
    <3>2. a \in Nat /\ a \in 1..k /\ k \in Nat /\ n <= k
      BY <3>1
    <3> QED BY <3>1, <3>2 DEF n, k
  <2>3. \A x \in changes : x.run <= a
    BY <1>0, <1>17, <1>a DEF ChangesOK
  <2>4. /\ \A c \in ClientKeys : episodes'[c] = IF c \in Q THEN done[c] ELSE episodes[c]
        /\ changes' = changes \union AllRecorded(a, Q, done)
    BY <1>6, <1>a DEF AllRecorded
  <2>5. ClientsBatch(a, Q, done)
    BY <2>1, <2>2, <2>3, <2>4, Zenon DEF ClientsBatch
  <2> QED BY <2>5, ClientsMoved, Zenon
<1>21. WorkersOK' /\ UNCHANGED <<sourceVars, reader>>
  <2>1. Active \in Nat /\ run.beat + 1 \in Nat
    BY <1>4, <1>17 DEF IsRun
  <2> QED BY <1>6, <2>1, RestingOK, Zenon
<1>22. t.decision.revision <= revision /\ t.status \in Resumable
  <2>1. revision <= revision
    BY <1>0 DEF SourceOK
  <2> QED BY <1>4, <1>10, <2>1 DEF Resumable
<1>23. /\ control' \in [enabled : BOOLEAN, active : Nat, published : Nat]
       /\ control'.active = OpenedId /\ control'.published = control.published
  BY <1>0, <1>3, <1>17
<1>24. \A r \in 1..Len(runs) : r # OpenedId =>
          {x \in changes' : x.run = r} = {x \in changes : x.run = r}
  <2>1. OpenedId = a
    BY <1>17, <1>a
  <2> QED BY <1>20, <2>1, Zenon
<1>25. UNCHANGED <<sales, revision, importing, directory, today, published, reader>>
  BY <1>3, <1>21
<1>26. control.published # None => runs[control.published].asOf <= t.asOf
  BY <1>4, <1>10
<1> QED
  BY <1>13, <1>14, <1>15, <1>16, <1>18, <1>20, <1>21, <1>22, <1>23, <1>24, <1>25, <1>26,
     WorkStep, Zenon

-----------------------------------------------------------------------------
(* Publication *)

(* The purchase days of a client, as the abstract feed takes them.           *)
DaysUpTo(c, asOf) ==
    {s.date : s \in {t \in sales : t.client = c /\ t.positive /\ t.date <= asOf}}

LEMMA FeedVerdict ==
    ASSUME NEW days, NEW asOf
    PROVE  Feed!Verdict(Feed!Features(days, asOf), asOf) = Verdict(Features(days, asOf), asOf)
<1>0. ASSUME NEW S PROVE Feed!Cardinality(S) = Cardinality(S)
  BY Zenon DEF Feed!Cardinality, Cardinality
<1>m. ASSUME NEW S PROVE Feed!Max(S) = Max(S)
  BY Zenon DEF Feed!Max, Max
<1>1. ASSUME NEW S PROVE Feed!Gaps(S) = Gaps(S)
  <2>1. Feed!InOrder(S) = InOrder(S)
    BY Zenon DEF Feed!InOrder, InOrder, Feed!Cardinality, Cardinality
  <2> QED BY <2>1, Zenon DEF Feed!Gaps, Gaps
<1>2. Feed!Features(days, asOf) = Features(days, asOf)
  BY <1>0, <1>1, <1>m, Zenon DEF Feed!Features, Features
<1>3. \A f : Feed!Verdict(f, asOf) = Verdict(f, asOf)
  BY DEF Feed!Verdict, Verdict, Feed!Quartile4, Quartile4
<1> QED BY <1>2, <1>3

LEMMA FeedRisk ==
    ASSUME NEW asOf
    PROVE  \A c : c \in Feed!AtRisk(asOf) <=>
                     c \in Scope.keys /\ Verdict(Features(DaysUpTo(c, asOf), asOf), asOf).risk
BY FeedVerdict DEF Feed!AtRisk, DaysUpTo

(* A client without a purchase day is nobody's risk.                         *)
LEMMA NoDaysNoRisk ==
    ASSUME NEW asOf
    PROVE  ~Verdict(Features({}, asOf), asOf).risk
<1>1. Features({}, asOf).last = 0
  BY DEF Features
<1> QED BY <1>1 DEF Verdict

(* When all sales are read, the run's purchase days are those of the table.  *)
LEMMA DaysAreTrue ==
    ASSUME SourceOK, NEW run, run.phase = "evaluate", Projected(run),
           \A s \in sales : s.id <= run.decision.upper, NEW c \in run.scope.keys
    PROVE  PurchasesOf(run, c) = DaysUpTo(c, run.asOf)
<1> DEFINE R == ReadTo(run, run.decision.upper)
           P(k) == {s \in R : <<s.client, s.date>> = k /\ s.positive}
<1>1. R = {s \in sales : s.date <= run.asOf /\ s.client \in run.scope.keys}
  BY DEF ReadTo
<1>2. run.days = Counts(R)
  BY DEF Projected
<1>3. IsFiniteSet(R)
  BY <1>1, FS_Subset DEF SourceOK
<1> HIDE DEF R
<1>4. DOMAIN run.days = DaysOf(R) /\ \A k \in DaysOf(R) : run.days[k].positive = Cardinality(P(k))
  <2>1. run.days = [k \in DaysOf(R) |-> [checks |-> Cardinality({s \in R : <<s.client, s.date>> = k}),
                                         positive |-> Cardinality(P(k))]]
    BY <1>2 DEF Counts
  <2> HIDE DEF P
  <2> QED BY <2>1
<1>5. ASSUME NEW k PROVE Cardinality(P(k)) > 0 <=> P(k) # {}
  <2>1. IsFiniteSet(P(k))
    BY <1>3, FS_Subset
  <2> HIDE DEF P
  <2>2. Cardinality(P(k)) \in Nat /\ (Cardinality(P(k)) = 0 <=> P(k) = {})
    BY <2>1, FS_CardinalityType, FS_EmptySet
  <2> QED BY <2>2
<1>6. ASSUME NEW d \in PurchasesOf(run, c) PROVE d \in DaysUpTo(c, run.asOf)
  <2>1. PICK k \in DOMAIN run.days : k[1] = c /\ run.days[k].positive > 0 /\ d = k[2]
    BY <1>6 DEF PurchasesOf
  <2>2. P(k) # {}
    BY <1>4, <1>5, <2>1
  <2>3. PICK s \in R : <<s.client, s.date>> = k /\ s.positive
    BY <2>2
  <2>4. s.client = c /\ s.date = d
    BY <2>1, <2>3
  <2> QED BY <1>1, <2>3, <2>4 DEF DaysUpTo
<1>7. ASSUME NEW d \in DaysUpTo(c, run.asOf) PROVE d \in PurchasesOf(run, c)
  <2>1. PICK s \in sales : s.client = c /\ s.positive /\ s.date <= run.asOf /\ d = s.date
    BY <1>7 DEF DaysUpTo
  <2>2. s \in R
    BY <1>1, <2>1
  <2> DEFINE k == <<s.client, s.date>>
  <2>3. k \in DaysOf(R) /\ s \in P(k)
    BY <2>1, <2>2 DEF DaysOf
  <2>4. k[1] = c /\ k[2] = d
    BY <2>1
  <2> HIDE DEF k, P
  <2>5. run.days[k].positive > 0
    BY <1>4, <1>5, <2>3
  <2> QED BY <1>4, <2>3, <2>4, <2>5 DEF PurchasesOf
<1> QED BY <1>6, <1>7

(* A run with no client left says of the whole scope what the sales say.     *)
LEMMA RiskIsTrue ==
    ASSUME SignalsInv, NEW asOf \in Days, NEW run \in Opened(Decision(asOf)),
           run.phase = "evaluate", NextClients(run) = {}
    PROVE  /\ run.scope.keys = Scope.keys
           /\ {c \in DOMAIN run.rows : run.rows[c].status = "ACTIVE"} = Feed!AtRisk(run.asOf)
<1>1. /\ IsRun(run) /\ ~Pending /\ run.scope = Context
      /\ \A s \in sales : s.id <= run.decision.upper
      /\ RowsTell(run) /\ Reached(run) /\ Projected(run)
  BY OpenedRun
<1>2. SourceOK
  BY DEF SignalsInv
<1>3. run.scope.keys = Scope.keys
  BY <1>1, <1>2, ScopeKeys
<1>4. DOMAIN run.rows \subseteq run.scope.keys
  BY <1>1 DEF IsRun
<1>5. \A c \in run.scope.keys : PurchasesOf(run, c) = DaysUpTo(c, run.asOf)
  BY <1>1, <1>2, DaysAreTrue
<1>6. \A c \in run.scope.keys :
         Facts(run, c).verdict.risk <=> Verdict(Features(DaysUpTo(c, run.asOf), run.asOf), run.asOf).risk
  BY <1>5 DEF Facts
<1>7. ASSUME NEW c \in run.scope.keys, Facts(run, c).verdict.risk PROVE c \in DOMAIN run.rows
  <2>1. PurchasesOf(run, c) # {}
    BY <1>7, NoDaysNoRisk DEF Facts
  <2>2. c \in Evaluated(run)
    BY <2>1 DEF PurchasesOf, Evaluated
  <2>3. c <= run.clientCursor
    BY <1>1, <2>2, NextClientsOK
  <2> QED BY <1>1, <2>2, <2>3 DEF Reached
<1>8. \A c : c \in {d \in DOMAIN run.rows : run.rows[d].status = "ACTIVE"} <=>
                c \in run.scope.keys /\ Facts(run, c).verdict.risk
  BY <1>1, <1>4, <1>7 DEF RowsTell
<1>9. \A c : c \in Feed!AtRisk(run.asOf) <=> c \in run.scope.keys /\ Facts(run, c).verdict.risk
  BY <1>3, <1>6, FeedRisk
<1> QED BY <1>3, <1>8, <1>9

LEMMA TablesEqual ==
    ASSUME NEW s, NEW t, Table(s), Table(t), Len(s) = Len(t), \A i \in 1..Len(s) : s[i] = t[i]
    PROVE  s = t
<1> DEFINE n == Len(s)
<1>1. s = [i \in 1..n |-> s[i]] /\ t = [i \in 1..n |-> t[i]] /\ \A i \in 1..n : s[i] = t[i]
  BY DEF Table
<1> HIDE DEF n
<1> QED BY <1>1

(* What a run tells once it is published.                                    *)
Told(run) == [asOf |-> run.asOf, scope |-> run.scope.keys,
              risk |-> {c \in DOMAIN run.rows : run.rows[c].status = "ACTIVE"}]

LEMMA FeedIs ==
    ASSUME ControlOK
    PROVE  /\ Table(feed) /\ Len(feed) = Len(published)
           /\ \A i \in 1..Len(published) : feed[i] = Told(runs[published[i]])
<1> DEFINE n == Len(published)
           S == {Told(runs[published[i]]) : i \in 1..n}
<1>1. n \in Nat /\ DOMAIN published = 1..n
  BY TableIsSeq DEF ControlOK, Table
<1>2. feed = [i \in DOMAIN published |-> Told(runs[published[i]])]
  BY Zenon DEF feed, Told
<1> HIDE DEF n
<1>3. feed = [i \in 1..n |-> Told(runs[published[i]])]
  BY <1>1, <1>2
<1>4. feed \in [1..n -> S] /\ \A i \in 1..n : feed[i] = Told(runs[published[i]])
  BY <1>3
<1> HIDE DEF S
<1>5. Len(feed) = n /\ feed = [i \in 1..n |-> feed[i]]
  BY <1>1, <1>4
<1> QED BY <1>1, <1>4, <1>5 DEF Table, n

LEMMA FeedIsNext ==
    ASSUME ControlOK'
    PROVE  /\ Table(feed') /\ Len(feed') = Len(published')
           /\ \A i \in 1..Len(published') : feed'[i] = Told(runs'[published'[i]])
<1> DEFINE n == Len(published')
           S == {Told(runs'[published'[i]]) : i \in 1..n}
<1>1. n \in Nat /\ DOMAIN published' = 1..n
  BY TableIsSeq DEF ControlOK, Table
<1>2. feed' = [i \in DOMAIN published' |-> Told(runs'[published'[i]])]
  BY Zenon DEF feed, Told
<1> HIDE DEF n
<1>3. feed' = [i \in 1..n |-> Told(runs'[published'[i]])]
  BY <1>1, <1>2
<1>4. feed' \in [1..n -> S] /\ \A i \in 1..n : feed'[i] = Told(runs'[published'[i]])
  BY <1>3
<1> HIDE DEF S
<1>5. Len(feed') = n /\ feed' = [i \in 1..n |-> feed'[i]]
  BY <1>1, <1>4
<1> QED BY <1>1, <1>4, <1>5 DEF Table, n

(* The last batch: the run is complete, published, and tells the truth.      *)
LEMMA CompleteStep ==
    ASSUME SignalsInv, NEW w \in Workers, Complete(w, Decision(AsOf(w)))
    PROVE  SignalsInv' /\ RowsStay /\ \E asOf \in Days : Feed!Publish(asOf)
<1> USE DEF sourceVars
<1>0. /\ SourceOK /\ ControlOK /\ RunsOK /\ EpisodesOK /\ ChangesOK /\ ReaderOK /\ EpisodesSound
      /\ control \in [enabled : BOOLEAN, active : Nat, published : Nat]
  BY DEF SignalsInv, ControlOK
<1>1. AsOf(w) \in Days
  BY AsOfDay
<1>2. PICK run \in Opened(Decision(AsOf(w))) :
        /\ run.phase = "evaluate" /\ NextClients(run) = {}
        /\ runs' = [runs EXCEPT ![Active] = [run EXCEPT !.status = "SUCCEEDED", !.phase = "complete",
                                                        !.beat = @ + 1]]
        /\ control' = [control EXCEPT !.published = Active, !.active = None]
        /\ PublishDelivery(Active)
        /\ Resting(w, Active, run.beat + 1)
  BY DEF Complete
<1>3. UNCHANGED <<episodes, changes>>
  BY DEF Complete
<1>4. /\ IsRun(run) /\ run.status = "RUNNING" /\ run.decision.revision = revision
      /\ control.published # None => runs[control.published].asOf <= run.asOf
      /\ Active # None
  BY <1>1, <1>2, OpenedRun
<1>5. PICK t : t = [run EXCEPT !.status = "SUCCEEDED", !.phase = "complete", !.beat = run.beat + 1]
  OBVIOUS
<1>6. /\ t.status = "SUCCEEDED" /\ t.phase = "complete" /\ t.asOf = run.asOf
      /\ t.decision = run.decision /\ t.scope = run.scope /\ t.policy = run.policy
      /\ t.cursor = run.cursor /\ t.clientCursor = run.clientCursor
      /\ t.days = run.days /\ t.rows = run.rows
  BY <1>4, <1>5 DEF IsRun
<1>7. IsRun(t)
  <2>1. t \in [status : Resumable \union Closed, phase : Phases, asOf : Days,
               decision : {run.decision}, scope : {run.scope}, policy : {run.policy},
               cursor : Nat, clientCursor : 0..NumClients, beat : Nat,
               days : {run.days}, rows : {run.rows}]
    <3>1. run.beat + 1 \in Nat /\ "SUCCEEDED" \in Closed /\ "complete" \in Phases
      BY <1>4 DEF IsRun, Closed, Phases
    <3> QED BY <1>4, <1>5, <3>1 DEF IsRun
  <2>2. t \in [status : Resumable \union Closed, phase : Phases, asOf : Days,
               decision : {t.decision}, scope : {t.scope}, policy : {t.policy},
               cursor : Nat, clientCursor : 0..NumClients, beat : Nat,
               days : {t.days}, rows : {t.rows}]
    BY <1>6, <2>1, Zenon
  <2> QED BY <1>4, <1>6, <2>2 DEF IsRun, Resumable
<1>8. /\ OpenedId = Active /\ Active \in 1..Len(runs) /\ Active = Len(runs) /\ Len(runs) \in Nat
      /\ runs[Active].status \in Resumable
  BY <1>0, <1>4 DEF OpenedId, Active, ControlOK, RunsOK, Table, None
<1>9. PICK a : a = Active
  OBVIOUS
<1>10. runs' = Saved(OpenedId, t)
  <2>1. runs' = [runs EXCEPT ![Active] = t]
    BY <1>2, <1>4, <1>5 DEF IsRun
  <2> QED BY <1>8, <2>1 DEF Saved
<1>11. /\ Table(runs') /\ Len(runs') = Len(runs) /\ runs'[a] = t
       /\ \A r \in 1..Len(runs) : r # a => r < a /\ runs'[r] = runs[r]
       /\ a \in 1..Len(runs) /\ a = Len(runs) /\ Len(runs) \in Nat /\ a # None
  <2>1. /\ Table(runs') /\ Len(runs') = OpenedId /\ runs'[OpenedId] = t
        /\ \A r \in 1..Len(runs) : r # OpenedId => r < OpenedId /\ runs'[r] = runs[r]
    BY <1>0, <1>10, RunSaved, Zenon
  <2> QED BY <1>4, <1>8, <1>9, <2>1
<1>12. "SUCCEEDED" \notin Resumable /\ \A r \in 1..Len(runs) : runs[r].status \in Closed => r # a
  BY <1>8, <1>9 DEF Resumable, Closed
<1>13. \A r \in 1..Len(runs) : runs[r].status \in Closed => runs'[r] = runs[r]
  BY <1>11, <1>12
(* The sequence of publications grows by one.                                *)
<1> DEFINE n == Len(published)
<1>14. /\ Table(published) /\ n \in Nat /\ DOMAIN published = 1..n
       /\ \A i \in 1..n : published[i] \in 1..Len(runs) /\ runs[published[i]].status = "SUCCEEDED"
       /\ \A i, j \in 1..n : i < j => published[i] < published[j]
       /\ control.published = IF n = 0 THEN None ELSE published[n]
  BY <1>0, TableIsSeq DEF ControlOK, Table
<1>15. \A i \in 1..n : published[i] # a /\ published[i] < a /\ runs'[published[i]] = runs[published[i]]
  BY <1>8, <1>9, <1>11, <1>12, <1>14 DEF Closed
<1>16. published' = Append(published, a)
  <2>1. ~\E i \in DOMAIN published : published[i] = Active
    BY <1>9, <1>14, <1>15
  <2> QED BY <1>2, <1>9, <2>1 DEF PublishDelivery
<1>17. /\ Table(published') /\ Len(published') = n + 1
       /\ \A i \in 1..n : published'[i] = published[i]
       /\ published'[n + 1] = a
  BY <1>14, <1>16, RowAppended
<1> HIDE DEF n
<1>18. /\ control' \in [enabled : BOOLEAN, active : Nat, published : Nat]
       /\ control'.active = None /\ control'.published = a
  BY <1>0, <1>2, <1>9, <1>11 DEF None
<1>19. Active' = None
  BY <1>18 DEF Active
<1>20. WorkersOK' /\ UNCHANGED <<sourceVars, reader>>
  <2>1. Active \in Nat /\ run.beat + 1 \in Nat
    BY <1>4, <1>8 DEF IsRun
  <2> QED BY <1>2, <2>1, RestingOK, Zenon
<1>21. SourceOK'
  BY <1>0, <1>20 DEF SourceOK
<1>22. RunsOK'
  <2>1. \A r \in 1..Len(runs') : IsRun(runs'[r]) /\ runs'[r].decision.revision <= revision
    <3>1. t.decision.revision <= revision
      BY <1>0, <1>4, <1>6 DEF SourceOK
    <3>2. \A r \in 1..Len(runs) : IsRun(runs[r]) /\ runs[r].decision.revision <= revision
      BY <1>0 DEF RunsOK
    <3> QED BY <1>7, <1>11, <3>1, <3>2
  <2> QED BY <1>11, <1>20, <2>1 DEF RunsOK
<1>23. ControlOK'
  <2>1. \A i \in 1..(n + 1) : published'[i] \in 1..Len(runs) /\ runs'[published'[i]].status = "SUCCEEDED"
    <3> TAKE i \in 1..(n + 1)
    <3>1. CASE i \in 1..n
      BY <1>14, <1>15, <1>17, <3>1
    <3>2. CASE i = n + 1
      BY <1>6, <1>11, <1>17, <3>2
    <3> QED BY <1>14, <3>1, <3>2
  <2>2. \A i, j \in 1..(n + 1) : i < j => published'[i] < published'[j]
    <3> SUFFICES ASSUME NEW i \in 1..(n + 1), NEW j \in 1..(n + 1), i < j
                 PROVE  published'[i] < published'[j]
      OBVIOUS
    <3>1. i \in 1..n
      BY <1>14
    <3>2. CASE j \in 1..n
      BY <1>14, <1>17, <3>1, <3>2
    <3>3. CASE j = n + 1
      BY <1>15, <1>17, <3>1, <3>3
    <3> QED BY SMTT(60), <1>14, <3>2, <3>3
  <2>3. control'.published = IF Len(published') = 0 THEN None ELSE published'[Len(published')]
    BY <1>14, <1>17, <1>18
  <2> QED BY <1>11, <1>17, <1>18, <1>19, <2>1, <2>2, <2>3 DEF ControlOK
<1>24. EpisodesOK' /\ ChangesOK' /\ EpisodesSound'
  <2>1. EpisodesOK'
    BY <1>0, <1>3 DEF EpisodesOK
  <2>2. \A c, e : Log(c, e)' = Log(c, e)
    BY <1>3 DEF Log
  <2>3. ChangesOK'
    BY <1>0, <1>3, <1>11, <2>2 DEF ChangesOK
  <2>4. EpisodesSound'
    BY <1>0, <1>3, <2>2, HistoriesSound, HistoriesSoundNext
  <2> QED BY <2>1, <2>3, <2>4
<1>25. ReaderOK'
  <2>1. reader.run # None => runs'[reader.run] = runs[reader.run] /\ reader.run \in 1..Len(runs')
    BY <1>0, <1>11, <1>13 DEF ReaderOK, Closed
  <2> QED BY <1>0, <1>20, <2>1 DEF ReaderOK, ReportIsOneRun
<1>26. EvaluationOK'
  BY <1>19 DEF EvaluationOK
<1>27. ProjectionExact'
  BY <1>19, ProjectionIsNext
<1>28. SignalsInv'
  BY <1>20, <1>21, <1>22, <1>23, <1>24, <1>25, <1>26, <1>27 DEF SignalsInv
<1>29. RowsStay
  <2>1. DOMAIN runs = 1..Len(runs)
    BY <1>0, TableIsSeq DEF RunsOK
  <2> QED BY <1>3, <1>13, <2>1 DEF RowsStay
(* The publication, as the abstract feed has it.                             *)
<1>30. Told(t) = [asOf |-> run.asOf, scope |-> Scope.keys, risk |-> Feed!AtRisk(run.asOf)]
  <2>1. /\ run.scope.keys = Scope.keys
        /\ {c \in DOMAIN run.rows : run.rows[c].status = "ACTIVE"} = Feed!AtRisk(run.asOf)
    BY <1>1, <1>2, RiskIsTrue
  <2> QED BY <1>6, <2>1 DEF Told
<1>31. /\ Table(feed) /\ Len(feed) = n
       /\ \A i \in 1..n : feed[i] = Told(runs[published[i]])
  BY <1>0, FeedIs DEF n
<1>32. /\ Table(feed') /\ Len(feed') = n + 1
       /\ \A i \in 1..(n + 1) : feed'[i] = Told(runs'[published'[i]])
  BY <1>17, <1>23, FeedIsNext
<1>33. feed' = Append(feed, Told(t))
  <2> DEFINE s == Append(feed, Told(t))
  <2>1. /\ Table(s) /\ Len(s) = n + 1 /\ s[n + 1] = Told(t)
        /\ \A i \in 1..n : s[i] = feed[i]
    BY <1>31, RowAppended
  <2> HIDE DEF s
  <2>2. \A i \in 1..(n + 1) : feed'[i] = s[i]
    <3> TAKE i \in 1..(n + 1)
    <3>1. CASE i \in 1..n
      BY <1>15, <1>17, <1>31, <1>32, <2>1, <3>1
    <3>2. CASE i = n + 1
      BY <1>11, <1>17, <1>32, <2>1, <3>2
    <3> QED BY <1>14, <3>1, <3>2
  <2>3. feed' = s
    BY <1>32, <2>1, <2>2, TablesEqual
  <2> QED BY <2>3 DEF s
<1>34. feed # <<>> => Feed!Last(feed).asOf <= run.asOf
  <2> HAVE feed # <<>>
  <2>1. n # 0
    <3>1. n = 0 => feed = <<>>
      BY <1>31 DEF Table
    <3> QED BY <3>1
  <2>2. n \in 1..n /\ control.published = published[n] /\ control.published # None
    BY <1>14, <2>1 DEF None
  <2>3. Feed!Last(feed) = Told(runs[control.published])
    BY <1>31, <2>2 DEF Feed!Last
  <2> QED BY <1>4, <2>2, <2>3 DEF Told
<1>35. run.asOf \in Days
  BY <1>4 DEF IsRun
<1>36. UNCHANGED <<sales, Scope.keys>>
  BY <1>20 DEF Scope
<1>37. Feed!Publish(run.asOf)
  BY <1>30, <1>33, <1>34, <1>36 DEF Feed!Publish
<1> QED BY <1>28, <1>29, <1>35, <1>37

-----------------------------------------------------------------------------
(* Every step *)

LEMMA SignalsStep ==
    ASSUME SignalsInv, [Next]_vars
    PROVE  SignalsInv' /\ RowsStay /\ (feed' = feed \/ \E asOf \in Days : Feed!Publish(asOf))
<1>1. CASE Source
  <2>1. SignalsInv' /\ UNCHANGED <<runs, changes, published>>
    BY <1>1, SourceStep DEF signalVars
  <2> QED BY <2>1, NothingMoves
<1>2. ASSUME \/ \E w \in Workers :
                  \/ Start(w) \/ ReadCheckpoint(w) \/ Fault(w) \/ Shutdown(w) \/ Leave(w)
                  \/ Disabled(w) \/ Busy(w)
                  \/ \E now \in {Decision(AsOf(w))} : Refuse(w, now)
             \/ LoseLeadership \/ Enable
      PROVE  SignalsInv' /\ RowsStay /\ feed' = feed
  <2>1. SignalsInv' /\ UNCHANGED <<runs, changes, published>>
    BY <1>2, IdleStep, Zenon DEF signalVars
  <2> QED BY <2>1, NothingMoves
<1>3. CASE ReadPage \/ Conflict
  <2>1. SignalsInv' /\ UNCHANGED <<runs, changes, published>>
    BY <1>3, ReadStep DEF signalVars
  <2> QED BY <2>1, NothingMoves
<1>4. ASSUME \/ \E w \in Workers : \/ RecordFailure(w) \/ PauseOnShutdown(w)
                                   \/ \E now \in {Decision(AsOf(w))} : Supersede(w, now)
             \/ Pause
      PROVE  SignalsInv' /\ RowsStay /\ feed' = feed
  BY <1>4, Marks, Zenon
<1>5. ASSUME NEW w \in Workers, Batch(w)
      PROVE  SignalsInv' /\ RowsStay /\ (feed' = feed \/ \E asOf \in Days : Feed!Publish(asOf))
  <2>1. CASE Supersede(w, Decision(AsOf(w)))
    BY <1>4, <2>1
  <2>2. CASE Refuse(w, Decision(AsOf(w))) \/ Disabled(w) \/ Busy(w)
    BY <1>2, <2>2
  <2>3. CASE Repeat(w, Decision(AsOf(w)))
    BY <2>3, RepeatStep
  <2>4. CASE Scan(w, Decision(AsOf(w)))
    BY <2>4, ScanStep
  <2>5. CASE Evaluate(w, Decision(AsOf(w)))
    BY <2>5, EvaluateStep
  <2>6. CASE Complete(w, Decision(AsOf(w)))
    BY <2>6, CompleteStep
  <2> QED BY <1>5, <2>1, <2>2, <2>3, <2>4, <2>5, <2>6 DEF Batch
<1>6. CASE UNCHANGED vars
  <2>1. UNCHANGED <<sales, revision, importing, directory, today, runs, episodes, changes,
                    published, control, leader, worker, reader>>
    BY <1>6 DEF vars, sourceVars, signalVars
  <2>2. SourceOK' /\ WorkersOK' /\ ReaderOK' /\ revision <= revision'
        /\ control' \in [enabled : BOOLEAN, active : Nat, published : Nat]
    BY <2>1 DEF SignalsInv, SourceOK, ControlOK, WorkersOK, ReaderOK, ReportIsOneRun
  <2>3. SignalsInv'
    BY <2>1, <2>2, StillStep
  <2> QED BY <2>1, <2>3, NothingMoves
<1>7. CASE Next
  <2>1. ASSUME NEW w \in Workers, Start(w) \/ Running(w) \/ Fault(w) \/ Shutdown(w) \/ Leave(w)
        PROVE  SignalsInv' /\ RowsStay /\ (feed' = feed \/ \E asOf \in Days : Feed!Publish(asOf))
    BY <1>2, <1>4, <1>5, <2>1 DEF Running
  <2> QED BY <1>1, <1>2, <1>3, <1>4, <1>7, <2>1 DEF Next
<1> QED BY <1>6, <1>7

-----------------------------------------------------------------------------
(* What follows *)

LEMMA SignalsAlways == Spec => [](SignalsInv)
<1>1. SignalsInv /\ [Next]_vars => SignalsInv'
  BY SignalsStep
<1> QED BY <1>1, SignalsInit, PTL DEF Spec

(* Every row the worker writes is one the tables admit, for any number of    *)
(* clients, workers, sales and days.                                         *)
THEOREM SignalsTypes == Spec => []TypeOK
<1>1. ASSUME SignalsInv PROVE TypeOK
  <2>0. SourceOK /\ RunsOK /\ ControlOK /\ WorkersOK /\ EpisodesOK
    BY <1>1 DEF SignalsInv
  <2>1. DOMAIN runs = 1..Len(runs) /\ Len(runs) \in Nat
    BY <2>0, TableIsSeq DEF RunsOK, Table
  <2>2. \A s \in sales : s.id \in Nat /\ s.client \in ClientKeys /\ s.date \in Nat
    BY <2>0 DEF SourceOK
  <2>3. control.published # None =>
           control.published \in 1..Len(runs) /\ runs[control.published].status = "SUCCEEDED"
    BY <2>0 DEF ControlOK, Table
  <2>4. control.active # None =>
           control.active \in 1..Len(runs) /\ runs[control.active].status \in Resumable \union {"BLOCKED"}
    BY <2>0, <2>1 DEF ControlOK, None
  <2>5. \A r \in DOMAIN runs :
          /\ runs[r].status \in Resumable \union Closed
          /\ runs[r].phase \in {"scan", "evaluate", "blocked", "complete"}
          /\ (runs[r].status = "SUCCEEDED") = (runs[r].phase = "complete")
          /\ runs[r].asOf \in Days /\ runs[r].clientCursor \in ClientKeys \union {0}
          /\ runs[r].cursor <= runs[r].decision.upper
          /\ DOMAIN runs[r].days \subseteq ClientKeys \X Days
          /\ DOMAIN runs[r].rows \subseteq ClientKeys
    <3> TAKE r \in DOMAIN runs
    <3>1. IsRun(runs[r])
      BY <2>0, <2>1 DEF RunsOK
    <3>2. /\ runs[r].status \in Resumable \union Closed /\ runs[r].phase \in Phases
          /\ runs[r].asOf \in Days /\ runs[r].clientCursor \in 0..NumClients
          /\ runs[r].cursor <= runs[r].decision.upper
          /\ DOMAIN runs[r].days \subseteq runs[r].scope.keys \X Days
          /\ DOMAIN runs[r].rows \subseteq runs[r].scope.keys
          /\ runs[r].scope.keys \subseteq ClientKeys
          /\ runs[r].status = "SUCCEEDED" <=> runs[r].phase = "complete"
      BY <3>1 DEF IsRun
    <3>3. runs[r].clientCursor \in ClientKeys \union {0}
      <4>1. NumClients \in Nat
        BY SignalsAssumption
      <4> QED BY <3>2, <4>1 DEF ClientKeys
    <3>4. DOMAIN runs[r].days \subseteq ClientKeys \X Days
      BY <3>2
    <3> QED BY <3>2, <3>3, <3>4 DEF Phases
  <2>6. \A c \in ClientKeys : \A e \in DOMAIN episodes[c] :
          episodes[c][e].status \in Open \union {"RESOLVED"} /\ episodes[c][e].revision \in Nat \ {0}
    <3>1. \A c \in ClientKeys : DOMAIN episodes[c] = 1..Len(episodes[c])
      BY <2>0, TableIsSeq DEF EpisodesOK
    <3> QED BY <2>0, <3>1 DEF EpisodesOK, Episode
  <2>7. leader \in Workers \union {Nobody} /\ \A w \in Workers : worker[w].pc \in {"off", "top", "ready", "failed", "stopping"}
    BY <2>0 DEF WorkersOK
  <2>8. revision \in Nat /\ importing \in {"none", "queued", "processing", "dead"}
        /\ control.enabled \in BOOLEAN
    BY <2>0 DEF SourceOK, ControlOK
  <2> QED BY <2>1, <2>2, <2>3, <2>4, <2>5, <2>6, <2>7, <2>8 DEF TypeOK
<1> QED BY <1>1, SignalsAlways, PTL

(* The purchase days of a run are those of the sales it has read, however    *)
(* many batches, interruptions and imports there were.                       *)
THEOREM ProjectionExactTheorem == Spec => []ProjectionExact
<1>1. SignalsInv => ProjectionExact
  BY DEF SignalsInv
<1> QED BY <1>1, SignalsAlways, PTL

(* A client has one open episode at most, and the change rows of an episode  *)
(* are its revisions without a gap.                                          *)
THEOREM EpisodesSoundTheorem == Spec => []EpisodesSound
<1>1. SignalsInv => EpisodesSound
  BY DEF SignalsInv
<1> QED BY <1>1, SignalsAlways, PTL

(* The publications in their order carry every client's revisions in order.  *)
THEOREM PublicationOrderTheorem == Spec => []PublicationOrder
<1>1. ASSUME SignalsInv PROVE PublicationOrder
  <2>0. ControlOK /\ ChangesOK /\ DOMAIN published = 1..Len(published)
    BY <1>1, TableIsSeq DEF SignalsInv, ControlOK
  <2>1. \A i, j \in DOMAIN published : i < j => published[i] < published[j]
    BY <2>0 DEF ControlOK
  <2>2. \A x, y \in changes : x.client = y.client /\ x.run < y.run
          => x.episode < y.episode \/ (x.episode = y.episode /\ x.revision < y.revision)
    BY <2>0 DEF ChangesOK
  <2> QED BY <2>1, <2>2 DEF PublicationOrder
<1> QED BY <1>1, SignalsAlways, PTL

(* A closed run is final with its evaluations and change rows, and the pages *)
(* of a report are the rows of one such run.                                 *)
THEOREM ReportsStayTheorem == Spec => ReportsStay
<1>1. SignalsInv => ReportIsOneRun
  BY DEF SignalsInv, ReaderOK
<1>2. SignalsInv /\ [Next]_vars =>
         [\A r \in DOMAIN runs : runs[r].status \in Closed =>
             /\ runs'[r] = runs[r]
             /\ {x \in changes' : x.run = r} = {x \in changes : x.run = r}]_vars
  BY SignalsStep DEF RowsStay
<1>3. Spec => []ReportIsOneRun
  BY <1>1, SignalsAlways, PTL
<1>4. Spec => ClosedRunsStay
  BY <1>2, SignalsAlways, PTL DEF Spec, ClosedRunsStay
<1> QED BY <1>3, <1>4 DEF ReportsStay

(* The batches implement AnalyticsFeed: a run is published in one step and   *)
(* says of every client in scope what the sales say at that moment.          *)
THEOREM FeedIsAtomicTheorem == Spec => FeedIsAtomic
<1>1. Init => Feed!Init
  BY DEF Init, Feed!Init, feed
<1>2. SignalsInv /\ [Next]_vars => [Feed!Next]_<<sales, Scope.keys, feed>>
  <2>1. feed' = feed => Feed!Next
    BY DEF Feed!Next
  <2>2. (\E asOf \in Days : Feed!Publish(asOf)) => Feed!Next
    BY DEF Feed!Next
  <2> QED BY <2>1, <2>2, SignalsStep
<1>3. Spec => Feed!Spec
  BY <1>1, <1>2, SignalsAlways, PTL DEF Spec, Feed!Spec
<1> QED BY <1>3 DEF FeedIsAtomic
=============================================================================
