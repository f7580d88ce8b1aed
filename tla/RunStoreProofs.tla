--------------------------- MODULE RunStoreProofs ---------------------------
(***************************************************************************)
(* What the operations on a store return, for every number of rows it      *)
(* keeps: lemmas for the proofs about FrontDesk.                           *)
(***************************************************************************)
EXTENDS RunStore, FiniteSetTheorems, WellFoundedInduction, TLAPS

LEMMA RestrictTo ==
  ASSUME NEW f, NEW S
  PROVE  Restrict(f, S) = [x \in S |-> f[x]]
  BY DEF Restrict

-----------------------------------------------------------------------------
(* Which runs a prune keeps.                                               *)

LEMMA NewerFinite ==
  ASSUME NEW S, IsFiniteSet(S), NEW r
  PROVE  /\ IsFiniteSet(Newer(r, S)) /\ Cardinality(Newer(r, S)) \in Nat
         /\ \A T : S \subseteq T /\ IsFiniteSet(T) =>
              Cardinality(Newer(r, S)) =< Cardinality(Newer(r, T))
<1>1. ASSUME NEW T, IsFiniteSet(T)
      PROVE  IsFiniteSet(Newer(r, T)) /\ Cardinality(Newer(r, T)) \in Nat
  <2>1. Newer(r, T) \subseteq T
    BY DEF Newer
  <2>2. QED
    BY <1>1, <2>1, FS_Subset, FS_CardinalityType
<1>2. ASSUME NEW T, S \subseteq T, IsFiniteSet(T)
      PROVE  Cardinality(Newer(r, S)) =< Cardinality(Newer(r, T))
  <2>1. Newer(r, S) \subseteq Newer(r, T)
    BY <1>2 DEF Newer
  <2>2. QED
    BY <1>1, <1>2, <2>1, FS_Subset
<1>3. QED
  BY <1>1, <1>2

\* What a prune removes has as many newer rows as the store keeps.
LEMMA DroppedIsOld ==
  ASSUME NEW S, IsFiniteSet(S), NEW r \in S \ Kept(S)
  PROVE  Cardinality(Newer(r, S)) >= Keep
<1>1. ~(Cardinality(Newer(r, S)) < Keep)
  BY DEF Kept
<1>2. QED
  BY <1>1, NewerFinite, RunStoreAssumption

\* The newest row stays.
LEMMA NewestStays ==
  ASSUME NEW S, NEW r \in S, \A s \in S : ~(s > r)
  PROVE  r \in Kept(S)
<1>1. Newer(r, S) = {}
  BY DEF Newer
<1>2. QED
  BY <1>1, FS_EmptySet, RunStoreAssumption DEF Kept

\* A set of numbers has a smallest one.
LEMMA LeastExists ==
  ASSUME NEW S, S \subseteq Nat, S # {}
  PROVE  \E m \in S : \A s \in S : m =< s
<1>1. PICK m \in S : \A s \in S : ~(<<s, m>> \in OpToRel(<, Nat))
  BY NatLessThanWellFounded, WFMin
<1>2. ASSUME NEW s \in S
      PROVE  m =< s
  <2>1. s \in Nat /\ m \in Nat
    OBVIOUS
  <2>2. s < m => <<s, m>> \in OpToRel(<, Nat)
    BY <2>1 DEF OpToRel
  <2>3. ~(s < m)
    BY <1>1, <2>2, Zenon
  <2>4. QED
    BY <2>1, <2>3
<1>3. QED
  BY <1>2

\* No more rows are left than the store keeps: the oldest of them has all others as newer ones.
LEMMA KeptBound ==
  ASSUME NEW S, S \subseteq Nat, IsFiniteSet(S)
  PROVE  Cardinality(Kept(S)) =< Keep
<1>1. Kept(S) \subseteq S
  BY DEF Kept
<1>2. CASE Kept(S) = {}
  BY <1>2, FS_EmptySet, RunStoreAssumption
<1>3. CASE Kept(S) # {}
  <2>1. PICK m \in Kept(S) : \A s \in Kept(S) : m =< s
    BY <1>1, <1>3, LeastExists
  <2>2. Kept(S) \subseteq Newer(m, S) \cup {m}
    <3> SUFFICES ASSUME NEW s \in Kept(S), s # m
                 PROVE  s > m
      BY <1>1 DEF Newer
    <3>1. s \in Nat /\ m \in Nat /\ m =< s
      BY <1>1, <2>1
    <3>2. QED
      BY <3>1
  <2>3. IsFiniteSet(Newer(m, S)) /\ m \notin Newer(m, S)
    <3>1. IsFiniteSet(Newer(m, S))
      BY NewerFinite
    <3>2. m \in Nat
      BY <1>1, <2>1
    <3>3. ~(m > m)
      BY <3>2
    <3>4. QED
      BY <3>1, <3>3 DEF Newer
  <2>4. IsFiniteSet(Newer(m, S) \cup {m})
        /\ Cardinality(Newer(m, S) \cup {m}) = Cardinality(Newer(m, S)) + 1
    BY <2>3, FS_AddElement
  <2>5. Cardinality(Kept(S)) =< Cardinality(Newer(m, S)) + 1
    BY <2>2, <2>4, FS_Subset
  <2>6. Cardinality(Newer(m, S)) < Keep /\ Cardinality(Newer(m, S)) \in Nat
    BY NewerFinite DEF Kept
  <2>7. Cardinality(Kept(S)) \in Nat
    BY <1>1, FS_Subset, FS_CardinalityType
  <2>8. QED
    BY <2>5, <2>6, <2>7, RunStoreAssumption
<1>4. QED
  BY <1>2, <1>3

=============================================================================
