------------------------------- MODULE SqlProofs -------------------------------
(***************************************************************************)
(* What a page of rows in primary key order is, for every set of rows.      *)
(***************************************************************************)
EXTENDS Sql, FiniteSetTheorems, WellFoundedInduction, TLAPS

(* Rows have a first one: ids are natural numbers.                           *)
LEMMA FirstRow ==
    ASSUME NEW S \in SUBSET Nat, S # {}
    PROVE  \E m \in S : \A n \in S : m <= n
<1> DEFINE R == OpToRel(<, Nat)
<1>1. IsWellFoundedOn(R, Nat)
  BY NatLessThanWellFounded
<1>2. \E m \in S : \A n \in S : <<n, m>> \notin R
  <2> HIDE DEF R
  <2> QED BY <1>1, WFMin, Zenon
<1>3. PICK m \in S : \A n \in S : <<n, m>> \notin R
  BY <1>2
<1>4. ASSUME NEW n \in S PROVE m <= n
  <2>1. m \in Nat /\ n \in Nat
    BY <1>4
  <2>2. ~(n < m)
    BY <1>3, <1>4, <2>1 DEF OpToRel
  <2> QED BY <2>1, <2>2
<1> QED BY <1>4

(* A page of ORDER BY ... LIMIT leaves out nothing below one of its rows.    *)
LEMMA FirstIsPrefix ==
    ASSUME NEW S \in SUBSET Nat, IsFiniteSet(S), NEW limit \in Int,
           NEW m \in First(S, limit), NEW x \in S, x <= m
    PROVE  x \in First(S, limit)
<1> DEFINE Below(d) == {n \in S : n <= d}
<1>0. m \in Nat /\ x \in Nat
  BY DEF First
<1>1. Below(x) \in SUBSET Below(m) /\ Below(m) \in SUBSET S
  <2>1. \A n \in Below(x) : n \in S /\ n <= m
    BY <1>0
  <2> QED BY <2>1
<1>2. IsFiniteSet(Below(m)) /\ IsFiniteSet(Below(x))
  BY <1>1, FS_Subset
<1>3. Cardinality(Below(x)) <= Cardinality(Below(m))
  BY <1>1, <1>2, FS_Subset
<1>4. Cardinality(Below(m)) <= limit /\ Cardinality(Below(m)) \in Nat
      /\ Cardinality(Below(x)) \in Nat
  BY <1>2, FS_CardinalityType DEF First
<1> QED BY <1>3, <1>4 DEF First

(* An empty page means that there are no rows.                               *)
LEMMA FirstIsEmpty ==
    ASSUME NEW S \in SUBSET Nat, NEW limit \in Nat \ {0}, First(S, limit) = {}
    PROVE  S = {}
<1>1. SUFFICES ASSUME S # {} PROVE FALSE
  OBVIOUS
<1>2. PICK m \in S : \A n \in S : m <= n
  BY <1>1, FirstRow
<1>3. {n \in S : n <= m} = {m}
  <2>1. ASSUME NEW n \in S, n <= m PROVE n = m
    <3>1. n \in Nat /\ m \in Nat /\ m <= n
      BY <1>2
    <3> QED BY <2>1, <3>1
  <2>2. m <= m
    OBVIOUS
  <2> QED BY <2>1, <2>2
<1>4. Cardinality({n \in S : n <= m}) = 1
  BY <1>3, FS_Singleton
<1> QED BY <1>2, <1>4 DEF First
=============================================================================
