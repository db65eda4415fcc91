------------------------- MODULE MemoryBackend_proofs -------------------------
(***************************************************************************)
(* Proofs about MemoryBackend, for every max_size, every set of keys and   *)
(* any number of operations.                                               *)
(***************************************************************************)
EXTENDS MemoryBackend, FiniteSetTheorems, TLAPS

(* The numbers of the last uses tell the keys apart. *)
Touched == { k \in Keys : used[k] > 0 }

Numbered ==
  /\ IsFiniteSet(Touched)
  /\ DOMAIN cache \subseteq Touched
  /\ \A k \in Keys : used[k] <= uses
  /\ \A j, k \in Touched : used[j] = used[k] => j = k

KeptIfCached == \A k \in DOMAIN cache : kept[k] = cache[k]

(* An entry only disappears unasked when enough others were used since. *)
Evicted ==
  \A k \in Keys \ DOMAIN cache :
    kept[k] # NoEntry => Capacity <= Cardinality(MoreRecent(k))

MemoryInv ==
  /\ TypeOK
  /\ Numbered
  /\ OrderedByUse
  /\ WithinCapacity
  /\ KeptIfCached
  /\ Evicted

-------------------------------------------------------------------------------
(* Minima of finite sets                                                   *)

(* In a finite set of keys with distinct numbers one has the least number.  *)
LEMMA LeastExists ==
  ASSUME NEW D, IsFiniteSet(D), D # {}, NEW f \in [D -> Nat],
         \A j, k \in D : f[j] = f[k] => j = k
  PROVE  \E k \in D : \A j \in D \ {k} : f[k] < f[j]
<1> DEFINE Below(k) == { j \in D : f[j] <= f[k] }
           T == { Below(k) : k \in D }
           R == StrictSubsetOrdering(D)
<1>1. IsWellFoundedOn(R, SUBSET D)
  BY FS_StrictSubsetOrderingWellFounded, FS_FiniteSubsetsOfFinite
<1>2. T \subseteq SUBSET D /\ T # {}
  <2>1. \A k \in D : Below(k) \in SUBSET D /\ Below(k) \in T
    OBVIOUS
  <2>2. PICK k \in D : TRUE
    OBVIOUS
  <2>3. T # {}
    BY <2>1, <2>2
  <2> QED
    BY <2>1, <2>3
<1>3. \E x \in T : \A y \in T : << y, x >> \notin R
  <2> HIDE DEF T, R
  <2> QED
    BY <1>1, <1>2, WFMin
<1>4. PICK k \in D : \A y \in T : << y, Below(k) >> \notin R
  BY <1>3
<1>5. ASSUME NEW j \in D \ {k} PROVE f[k] < f[j]
  <2> SUFFICES ASSUME f[j] < f[k] PROVE FALSE
    BY <1>5
  <2>1. Below(j) \subseteq Below(k) /\ k \in Below(k) /\ k \notin Below(j)
    OBVIOUS
  <2>2. << Below(j), Below(k) >> \in R
    BY <2>1 DEF StrictSubsetOrdering
  <2> QED
    BY <1>4, <2>2
<1> QED
  BY <1>5

(* What popitem takes from a dict that is not empty: one key, less recently *)
(* used than all others.                                                    *)
LEMMA OldestIsLeast ==
  ASSUME MemoryInv, DOMAIN cache # {}
  PROVE  \E k \in DOMAIN cache :
           Oldest = {k} /\ \A j \in DOMAIN cache \ {k} : used[k] < used[j]
<1> DEFINE D == DOMAIN cache
           f == [k \in D |-> used[k]]
<1>1. D \subseteq Touched /\ IsFiniteSet(D) /\ used \in [Keys -> Nat] /\ D \subseteq Keys
  BY FS_Subset DEF MemoryInv, Numbered, TypeOK
<1>2. f \in [D -> Nat] /\ \A j, k \in D : f[j] = f[k] => j = k
  BY <1>1 DEF MemoryInv, Numbered
<1>3. \E k \in D : \A j \in D \ {k} : f[k] < f[j]
  <2> HIDE DEF D, f
  <2> QED
    BY <1>1, <1>2, LeastExists DEF D
<1>4. PICK k \in D : \A j \in D \ {k} : used[k] < used[j]
  BY <1>3
<1>5. \A i, j \in D : << i, j >> \in older <=> used[i] < used[j]
  BY DEF MemoryInv, OrderedByUse
<1>6. \A j \in D \ {k} : << k, j >> \in older
  BY <1>4, <1>5
<1>7. \A j \in D \ {k} : << j, k >> \notin older
  BY <1>1, <1>4, <1>5
<1>8. Oldest = {k}
  BY <1>6, <1>7 DEF Oldest
<1> QED
  BY <1>4, <1>8

-------------------------------------------------------------------------------
(* Removing and using                                                      *)

(* There is room for one entry at least.                                   *)
LEMMA CapacityType == Capacity \in Nat /\ Capacity > 0
BY MemoryAssumption DEF Capacity

(* The dict, and the keys used more recently than one, are finite.          *)
LEMMA Finite ==
  ASSUME TypeOK, Numbered
  PROVE  /\ IsFiniteSet(DOMAIN cache)
         /\ \A k \in Keys : IsFiniteSet(MoreRecent(k)) /\ MoreRecent(k) \subseteq Touched
<1>1. \A k \in Keys : MoreRecent(k) \subseteq Touched
  BY DEF TypeOK, MoreRecent, Touched
<1> QED
  BY <1>1, FS_Subset DEF Numbered

(* What is remembered of a call is an answer.                              *)
LEMMA AnswerTypes ==
  /\ NoAnswer \in Answer
  /\ \A k \in Keys, v \in Values : GetAnswer(k, v) \in Answer /\ SetAnswer(k, v) \in Answer
  /\ \A k \in Keys : GetAnswer(k, NoEntry) \in Answer
BY DEF Answer

(* Whatever is removed, as long as it is not expected to be there any more. *)
LEMMA Removing ==
  ASSUME MemoryInv, NEW gone, NEW forgotten,
         gone \cap DOMAIN cache = forgotten \cap DOMAIN cache,
         cache' = Without(gone), older' = OrderWithout(gone), Forget(forgotten),
         now' \in 0..MaxTime, answered' \in Answer, UNCHANGED << uses, used >>
  PROVE  MemoryInv'
<1> USE DEF MemoryInv
<1>1. DOMAIN cache' = DOMAIN cache \ gone /\ \A k \in DOMAIN cache' : cache'[k] = cache[k]
  BY DEF Without
<1>2. TypeOK'
  BY <1>1 DEF TypeOK, Without, OrderWithout, Forget
<1>3. Numbered'
  BY <1>1 DEF Numbered, Touched
<1>4. OrderedByUse'
  BY <1>1 DEF OrderedByUse, OrderWithout
<1>5. WithinCapacity'
  <2>1. DOMAIN cache' \in SUBSET DOMAIN cache /\ IsFiniteSet(DOMAIN cache)
    BY <1>1, Finite
  <2>2. IsFiniteSet(DOMAIN cache') /\ Cardinality(DOMAIN cache') <= Cardinality(DOMAIN cache)
    BY <2>1, FS_Subset
  <2>3. Cardinality(DOMAIN cache') \in Nat /\ Cardinality(DOMAIN cache) \in Nat
    BY <2>1, <2>2, FS_CardinalityType
  <2> QED
    BY <2>2, <2>3, CapacityType DEF WithinCapacity, Capacity
<1>6. \A k \in Keys : k \notin forgotten => kept'[k] = kept[k]
  BY DEF Forget, TypeOK
<1>7. \A k \in Keys : k \in forgotten => kept'[k] = NoEntry
  BY DEF Forget, TypeOK
<1>8. KeptIfCached'
  <2> SUFFICES ASSUME NEW k \in DOMAIN cache' PROVE kept'[k] = cache'[k]
    BY DEF KeptIfCached
  <2>1. k \in DOMAIN cache /\ cache'[k] = cache[k] /\ kept[k] = cache[k] /\ k \in Keys
    BY <1>1 DEF KeptIfCached, TypeOK
  <2>2. k \notin forgotten
    BY <1>1, <2>1
  <2> QED
    BY <1>6, <2>1, <2>2
<1>9. Evicted'
  <2> SUFFICES ASSUME NEW k \in Keys, k \notin DOMAIN cache', kept'[k] # NoEntry
               PROVE  Capacity <= Cardinality(MoreRecent(k))'
    BY DEF Evicted, Capacity
  <2>1. k \notin forgotten /\ k \notin DOMAIN cache /\ kept[k] # NoEntry
    BY <1>1, <1>6, <1>7
  <2>2. MoreRecent(k)' = MoreRecent(k)
    BY DEF MoreRecent
  <2> QED
    BY <2>1, <2>2 DEF Evicted
<1> QED
  BY <1>2, <1>3, <1>4, <1>5, <1>8, <1>9

(* A key that is used becomes the most recent one, before no other.         *)
LEMMA Using ==
  ASSUME MemoryInv, NEW k \in Keys, Use(k), NEW present \in SUBSET Keys,
         k \in present, present \ {k} \subseteq DOMAIN cache,
         DOMAIN cache' = present, older' = MovedToEnd(k, present)
  PROVE  /\ Numbered' /\ OrderedByUse'
         /\ used' \in [Keys -> 0..MaxUses] /\ uses' \in 0..MaxUses
         /\ older' \subseteq Keys \X Keys
         /\ \A j \in Keys \ {k} :
              /\ MoreRecent(j)' = MoreRecent(j) \cup {k}
              /\ IsFiniteSet(MoreRecent(j)')
              /\ Cardinality(MoreRecent(j)) <= Cardinality(MoreRecent(j)')
<1> USE DEF MemoryInv
<1>1. /\ used \in [Keys -> Nat] /\ uses \in Nat /\ uses' = uses + 1
      /\ used' = [used EXCEPT ![k] = uses + 1]
      /\ \A j \in Keys : used[j] <= uses
      /\ uses' \in 0..MaxUses
  BY MemoryAssumption DEF TypeOK, Use, Numbered
<1>2. /\ used'[k] = uses + 1 /\ \A j \in Keys \ {k} : used'[j] = used[j]
      /\ used' \in [Keys -> 0..MaxUses]
  BY <1>1 DEF TypeOK
<1>3. Touched' = Touched \cup {k}
  BY <1>1, <1>2 DEF Touched
<1>4. Numbered'
  <2>1. IsFiniteSet(Touched')
    BY <1>3, FS_AddElement DEF Numbered
  <2>2. DOMAIN cache' \subseteq Touched'
    BY <1>3 DEF Numbered
  <2>3. \A j \in Keys : used'[j] <= uses'
    BY <1>1, <1>2
  <2>4. \A i, j \in Touched' : used'[i] = used'[j] => i = j
    <3>1. Touched \subseteq Keys
      BY DEF Touched
    <3> QED
      BY <1>1, <1>2, <1>3, <3>1 DEF Numbered
  <2> QED
    BY <2>1, <2>2, <2>3, <2>4 DEF Numbered
<1>5. OrderedByUse'
  <2>1. \A i, j \in present :
          << i, j >> \in older' <=> used'[i] < used'[j]
    <3> SUFFICES ASSUME NEW i \in present, NEW j \in present
                 PROVE  << i, j >> \in older' <=> used'[i] < used'[j]
      OBVIOUS
    <3>1. CASE i # k /\ j # k
      <4>1. << i, j >> \in older' <=> << i, j >> \in older
        BY <3>1 DEF MovedToEnd
      <4>2. << i, j >> \in older <=> used[i] < used[j]
        BY <3>1 DEF OrderedByUse
      <4> QED
        BY <1>2, <3>1, <4>1, <4>2
    <3>2. CASE i # k /\ j = k
      BY <1>1, <1>2, <3>2 DEF MovedToEnd
    <3>3. CASE i = k
      <4>1. << i, j >> \notin older'
        BY <3>3 DEF MovedToEnd
      <4> QED
        BY <1>1, <1>2, <3>3, <4>1
    <3> QED
      BY <3>1, <3>2, <3>3
  <2>2. older' \subseteq present \X present
    <3>1. \A pair \in older : pair \in (DOMAIN cache) \X (DOMAIN cache)
      BY DEF OrderedByUse
    <3> QED
      BY <3>1 DEF MovedToEnd
  <2>3. older' = { pair \in present \X present : used'[pair[1]] < used'[pair[2]] }
    <3>1. \A pair \in present \X present :
            pair \in older' <=> used'[pair[1]] < used'[pair[2]]
      BY <2>1
    <3> QED
      BY <2>2, <3>1
  <2> QED
    BY <2>3 DEF OrderedByUse
<1>6. older' \subseteq Keys \X Keys
  BY <1>5 DEF OrderedByUse
<1>7. ASSUME NEW j \in Keys \ {k}
      PROVE  /\ MoreRecent(j)' = MoreRecent(j) \cup {k}
             /\ IsFiniteSet(MoreRecent(j)')
             /\ Cardinality(MoreRecent(j)) <= Cardinality(MoreRecent(j)')
  <2>1. MoreRecent(j)' = MoreRecent(j) \cup {k}
    BY <1>1, <1>2 DEF MoreRecent
  <2>2. IsFiniteSet(MoreRecent(j))
    BY Finite
  <2>3. Cardinality(MoreRecent(j)) \in Nat
    BY <2>2, FS_CardinalityType
  <2>4. /\ IsFiniteSet(MoreRecent(j) \cup {k})
        /\ \/ Cardinality(MoreRecent(j) \cup {k}) = Cardinality(MoreRecent(j))
           \/ Cardinality(MoreRecent(j) \cup {k}) = Cardinality(MoreRecent(j)) + 1
    BY <2>2, FS_AddElement
  <2>5. Cardinality(MoreRecent(j)) <= Cardinality(MoreRecent(j) \cup {k})
    BY <2>3, <2>4
  <2> QED
    BY <2>1, <2>4, <2>5
<1> QED
  BY <1>1, <1>2, <1>4, <1>5, <1>6, <1>7

-------------------------------------------------------------------------------
(* The operations                                                          *)

(* A hit keeps the invariant.                                              *)
LEMMA GetHitKeeps ==
  ASSUME MemoryInv, NEW k \in Keys, GetHit(k) PROVE MemoryInv'
<1> USE DEF MemoryInv
<1>1. /\ k \in DOMAIN cache /\ cache' = cache /\ kept' = kept /\ now' = now
      /\ older' = MovedToEnd(k, DOMAIN cache) /\ Use(k)
      /\ DOMAIN cache \in SUBSET Keys /\ answered' \in Answer
  <2>1. cache[k].value \in Values
    BY DEF GetHit, Cached, TypeOK, Entry
  <2> QED
    BY <2>1, AnswerTypes DEF GetHit, Cached, TypeOK
<1> DEFINE present == DOMAIN cache
<1>2. /\ Numbered' /\ OrderedByUse'
      /\ used' \in [Keys -> 0..MaxUses] /\ uses' \in 0..MaxUses
      /\ older' \subseteq Keys \X Keys
      /\ \A j \in Keys \ {k} :
           /\ IsFiniteSet(MoreRecent(j)')
           /\ Cardinality(MoreRecent(j)) <= Cardinality(MoreRecent(j)')
  <2>1. k \in present /\ present \ {k} \subseteq DOMAIN cache /\ DOMAIN cache' = present
        /\ older' = MovedToEnd(k, present)
    BY <1>1
  <2> HIDE DEF present
  <2> QED
    BY <1>1, <2>1, Using DEF present
<1>3. Evicted'
  <2> SUFFICES ASSUME NEW j \in Keys, j \notin DOMAIN cache', kept'[j] # NoEntry
               PROVE  Capacity <= Cardinality(MoreRecent(j)')
    BY DEF Evicted, Capacity
  <2>1. j # k /\ Capacity <= Cardinality(MoreRecent(j))
    BY <1>1 DEF Evicted
  <2>2. IsFiniteSet(MoreRecent(j))
    BY Finite
  <2>3. Cardinality(MoreRecent(j)) \in Nat /\ Cardinality(MoreRecent(j)') \in Nat
    BY <1>2, <2>1, <2>2, FS_CardinalityType
  <2> QED
    BY <1>2, <2>1, <2>3, CapacityType
<1>4. TypeOK'
  BY <1>1, <1>2 DEF TypeOK
<1>5. WithinCapacity' /\ KeptIfCached'
  BY <1>1 DEF WithinCapacity, Capacity, KeptIfCached
<1> QED
  BY <1>2, <1>3, <1>4, <1>5

(* A set keeps the invariant, with and without an eviction.                *)
LEMMA SetKeeps ==
  ASSUME MemoryInv, NEW k \in Keys, NEW v \in Values, NEW ttl \in Ttls, Set(k, v, ttl)
  PROVE  MemoryInv'
<1> USE DEF MemoryInv
<1> DEFINE out     == IF NeedsRoom(k) THEN Oldest ELSE {}
           present == (DOMAIN cache \ out) \cup {k}
           entry   == [value |-> v, expiry |-> ExpiryOf(ttl)]
<1>1. /\ cache' = Written(present, k, entry) /\ older' = MovedToEnd(k, present)
      /\ Use(k) /\ kept' = [kept EXCEPT ![k] = entry] /\ now' = now
  BY DEF Set
<1>2. entry \in Entry
  BY MemoryAssumption DEF Entry, ExpiryOf, TypeOK
<1>3. /\ present \in SUBSET Keys /\ k \in present /\ present \ {k} \subseteq DOMAIN cache
      /\ DOMAIN cache \subseteq Keys
  BY DEF TypeOK
<1>4. /\ DOMAIN cache' = present /\ cache'[k] = entry
      /\ \A j \in present \ {k} : cache'[j] = cache[j]
  BY <1>1 DEF Written
<1>5. cache \in [DOMAIN cache -> Entry] /\ kept \in [Keys -> Entry \cup {NoEntry}]
  BY DEF TypeOK
<1>6. /\ Numbered' /\ OrderedByUse'
      /\ used' \in [Keys -> 0..MaxUses] /\ uses' \in 0..MaxUses
      /\ older' \subseteq Keys \X Keys
      /\ \A j \in Keys \ {k} :
           /\ MoreRecent(j)' = MoreRecent(j) \cup {k}
           /\ IsFiniteSet(MoreRecent(j)')
           /\ Cardinality(MoreRecent(j)) <= Cardinality(MoreRecent(j)')
  <2> HIDE DEF present
  <2> QED
    BY <1>1, <1>3, <1>4, Using
<1>7. IsFiniteSet(DOMAIN cache) /\ Cardinality(DOMAIN cache) \in Nat
  BY Finite, FS_CardinalityType
<1>8. NeedsRoom(k) => DOMAIN cache # {} /\ Cardinality(DOMAIN cache) = Capacity
  <2>1. Cardinality({}) = 0
    BY FS_EmptySet
  <2> QED
    BY <1>7, <2>1, CapacityType DEF NeedsRoom, WithinCapacity
<1>9. TypeOK'
  <2>1. cache' \in [DOMAIN cache' -> Entry]
    <3>1. \A j \in present : cache'[j] \in Entry
      BY <1>2, <1>3, <1>4, <1>5
    <3>2. cache' = [j \in present |-> cache'[j]]
      BY <1>1 DEF Written
    <3> QED
      BY <1>4, <3>1, <3>2
  <2>2. kept' \in [Keys -> Entry \cup {NoEntry}]
    BY <1>1, <1>2, <1>5
  <2>3. DOMAIN cache' \subseteq Keys /\ now' \in 0..MaxTime /\ answered' \in Answer
    BY <1>1, <1>3, <1>4, AnswerTypes DEF TypeOK, Set
  <2> HIDE DEF present
  <2> QED
    BY <1>6, <2>1, <2>2, <2>3 DEF TypeOK
<1>10. KeptIfCached'
  BY <1>1, <1>3, <1>4, <1>5 DEF KeptIfCached
<1>11. WithinCapacity'
  <2>1. CASE NeedsRoom(k)
    <3>1. PICK o \in DOMAIN cache : Oldest = {o}
      BY <1>8, <2>1, OldestIsLeast
    <3>2. present = (DOMAIN cache \ {o}) \cup {k} /\ k \notin DOMAIN cache \ {o}
      BY <2>1, <3>1 DEF NeedsRoom, Cached
    <3>3. /\ IsFiniteSet(DOMAIN cache \ {o})
          /\ Cardinality(DOMAIN cache \ {o}) = Cardinality(DOMAIN cache) - 1
      BY <1>7, <3>1, FS_RemoveElement
    <3>4. Cardinality((DOMAIN cache \ {o}) \cup {k}) = Cardinality(DOMAIN cache \ {o}) + 1
      BY <3>2, <3>3, FS_AddElement
    <3>5. Cardinality((DOMAIN cache \ {o}) \cup {k}) = Capacity
      BY <1>7, <1>8, <2>1, <3>3, <3>4, CapacityType
    <3>6. Cardinality(present) = Capacity
      BY <3>2, <3>5
    <3> QED
      BY <1>4, <3>6, CapacityType DEF WithinCapacity, Capacity
  <2>2. CASE ~NeedsRoom(k)
    <3>1. present = DOMAIN cache \cup {k}
      BY <2>2
    <3>2. Cardinality(present) =
            IF k \in DOMAIN cache THEN Cardinality(DOMAIN cache)
                                  ELSE Cardinality(DOMAIN cache) + 1
      BY <1>7, <3>1, FS_AddElement
    <3>3. Cardinality(present) <= Capacity
      BY <1>7, <2>2, <3>2, CapacityType DEF NeedsRoom, WithinCapacity, Cached
    <3> QED
      BY <1>4, <3>3 DEF WithinCapacity, Capacity
  <2> QED
    BY <2>1, <2>2
<1>12. Evicted'
  <2> SUFFICES ASSUME NEW j \in Keys, j \notin DOMAIN cache', kept'[j] # NoEntry
               PROVE  Capacity <= Cardinality(MoreRecent(j)')
    BY DEF Evicted, Capacity
  <2>1. j # k /\ kept'[j] = kept[j] /\ j \notin present
    BY <1>1, <1>3, <1>4, <1>5
  <2>2. IsFiniteSet(MoreRecent(j)) /\ Cardinality(MoreRecent(j)) \in Nat
    BY Finite, FS_CardinalityType
  <2>3. IsFiniteSet(MoreRecent(j)') /\ Cardinality(MoreRecent(j)') \in Nat
    BY <1>6, <2>1, FS_CardinalityType
  <2>4. CASE j \notin DOMAIN cache
    <3>1. Capacity <= Cardinality(MoreRecent(j))
      BY <2>1, <2>4 DEF Evicted
    <3> QED
      BY <1>6, <2>1, <2>2, <2>3, <3>1, CapacityType
  <2>5. CASE j \in DOMAIN cache
    <3>1. NeedsRoom(k) /\ j \in Oldest
      BY <2>1, <2>5
    <3>2. PICK o \in DOMAIN cache :
            Oldest = {o} /\ \A i \in DOMAIN cache \ {o} : used[o] < used[i]
      BY <1>8, <3>1, OldestIsLeast
    <3>3. o = j /\ k \notin DOMAIN cache \ {j}
      BY <3>1, <3>2 DEF NeedsRoom, Cached
    <3>4. (DOMAIN cache \ {j}) \cup {k} \in SUBSET MoreRecent(j)'
      <4>1. DOMAIN cache \ {j} \subseteq MoreRecent(j)
        BY <1>3, <3>2, <3>3 DEF MoreRecent, TypeOK
      <4>2. MoreRecent(j)' = MoreRecent(j) \cup {k}
        BY <1>6, <2>1
      <4> QED
        BY <4>1, <4>2
    <3>5. /\ IsFiniteSet(DOMAIN cache \ {j})
          /\ Cardinality(DOMAIN cache \ {j}) = Cardinality(DOMAIN cache) - 1
      BY <1>7, <2>5, FS_RemoveElement
    <3>6. Cardinality((DOMAIN cache \ {j}) \cup {k}) = Cardinality(DOMAIN cache \ {j}) + 1
      BY <3>3, <3>5, FS_AddElement
    <3>7. Cardinality((DOMAIN cache \ {j}) \cup {k}) <= Cardinality(MoreRecent(j)')
      BY <2>3, <3>4, FS_Subset
    <3> QED
      BY <1>7, <1>8, <2>3, <3>1, <3>5, <3>6, <3>7, CapacityType
  <2> QED
    BY <2>4, <2>5
<1> QED
  BY <1>6, <1>9, <1>10, <1>11, <1>12

(* So does every step.                                                     *)
LEMMA NextMemoryInv ==
  ASSUME MemoryInv, [Next]_vars PROVE MemoryInv'
<1>0. /\ now \in 0..MaxTime /\ older \subseteq (DOMAIN cache) \X (DOMAIN cache)
      /\ DOMAIN cache \subseteq Keys
  BY DEF MemoryInv, TypeOK, OrderedByUse
<1>1. ASSUME NEW k \in Keys, GetMiss(k) PROVE MemoryInv'
  <2>1. {k} \cap DOMAIN cache = ({k} \cap DOMAIN cache) \cap DOMAIN cache
    OBVIOUS
  <2> QED
    BY <1>0, <1>1, <2>1, Removing, AnswerTypes DEF GetMiss
<1>2. ASSUME NEW k \in Keys, Delete(k) PROVE MemoryInv'
  BY <1>0, <1>2, Removing, AnswerTypes DEF Delete
<1>3. ASSUME Clear PROVE MemoryInv'
  <2>1. OrderWithout(DOMAIN cache) = {}
    BY <1>0 DEF OrderWithout
  <2>2. (DOMAIN cache) \cap DOMAIN cache = Keys \cap DOMAIN cache
    BY <1>0
  <2> QED
    BY <1>0, <1>3, <2>1, <2>2, Removing, AnswerTypes DEF Clear
<1>4. ASSUME NEW namespace \in Namespaces, ClearNamespace(namespace) PROVE MemoryInv'
  BY <1>0, <1>4, Removing, AnswerTypes DEF ClearNamespace
<1>5. ASSUME NEW k \in Keys, Exists(k) PROVE MemoryInv'
  BY <1>0, <1>5, Removing, AnswerTypes DEF Exists
<1>6. ASSUME Tick PROVE MemoryInv'
  <2>1. now' \in 0..MaxTime /\ answered' \in Answer /\ UNCHANGED << cache, older, history >>
    BY <1>0, <1>6, MemoryAssumption, AnswerTypes DEF Tick
  <2> QED
    BY <2>1
    DEF MemoryInv, TypeOK, Numbered, Touched, OrderedByUse, WithinCapacity, Capacity,
        KeptIfCached, Evicted, MoreRecent, history
<1>7. CASE UNCHANGED vars
  BY <1>7
  DEF vars, history, MemoryInv, TypeOK, Numbered, Touched, OrderedByUse, WithinCapacity,
      Capacity, KeptIfCached, Evicted, MoreRecent
<1> QED
  BY <1>1, <1>2, <1>3, <1>4, <1>5, <1>6, <1>7, GetHitKeeps, SetKeeps DEF Next

(* The first state satisfies it.                                           *)
LEMMA InitMemoryInv == Init => MemoryInv
<1> SUFFICES ASSUME Init PROVE MemoryInv
  OBVIOUS
<1>1. DOMAIN cache = {} /\ Touched = {}
  BY DEF Init, Touched
<1>2. IsFiniteSet({}) /\ Cardinality({}) = 0
  BY FS_EmptySet
<1>3. TypeOK
  BY <1>1, MemoryAssumption, AnswerTypes DEF Init, TypeOK
<1>4. Numbered /\ KeptIfCached
  BY <1>1, <1>2 DEF Init, Numbered, KeptIfCached
<1>5. OrderedByUse
  BY <1>1 DEF Init, OrderedByUse
<1>6. WithinCapacity
  BY <1>1, <1>2, CapacityType DEF WithinCapacity
<1>7. Evicted
  BY DEF Init, Evicted
<1> QED
  BY <1>3, <1>4, <1>5, <1>6, <1>7 DEF MemoryInv

(* The inductive invariant: order, use and what is kept agree (get, set).  *)
THEOREM MemoryInvariant == Spec => []MemoryInv
<1> QED
  BY InitMemoryInv, NextMemoryInv, PTL DEF Spec

(***************************************************************************)
(* Type correctness of the memory backend (__init__, get, set, clear).     *)
(***************************************************************************)
THEOREM MemoryTypeCorrect == Spec => []TypeOK
<1>1. MemoryInv => TypeOK
  BY DEF MemoryInv
<1> QED
  BY <1>1, MemoryInvariant, PTL

(***************************************************************************)
(* The dict never outgrows its capacity, whatever max_size and ttls are    *)
(* (set pops an item before it adds a key to a full dict).                 *)
(***************************************************************************)
THEOREM NeverOverfull == Spec => []WithinCapacity
<1>1. MemoryInv => WithinCapacity
  BY DEF MemoryInv
<1> QED
  BY <1>1, MemoryInvariant, PTL

(* The order of the dict is the order of use (move_to_end, popitem).        *)
THEOREM OrderIsUse == Spec => []OrderedByUse
<1>1. MemoryInv => OrderedByUse
  BY DEF MemoryInv
<1> QED
  BY <1>1, MemoryInvariant, PTL

(***************************************************************************)
(* Least recently used: nothing that was set goes before as many other     *)
(* keys as fit have been used since (set, get, exists, delete, clear).     *)
(***************************************************************************)
THEOREM LeastRecentlyUsed == Spec => []LruGuarantee
<1>1. MemoryInv => LruGuarantee
  <2> SUFFICES ASSUME MemoryInv, NEW k \in Keys, kept[k] # NoEntry,
                      Cardinality(MoreRecent(k)) < Capacity
               PROVE  Cached(k) /\ cache[k] = kept[k]
    BY DEF LruGuarantee
  <2>1. IsFiniteSet(MoreRecent(k))
    BY Finite DEF MemoryInv
  <2>2. Cardinality(MoreRecent(k)) \in Nat
    BY <2>1, FS_CardinalityType
  <2>3. k \in DOMAIN cache
    BY <2>2, CapacityType DEF MemoryInv, Evicted
  <2> QED
    BY <2>3 DEF MemoryInv, KeptIfCached, Cached
<1> QED
  BY <1>1, MemoryInvariant, PTL

(***************************************************************************)
(* A hit is what was last set under the key, not removed since and within  *)
(* its time, and a response in its time is missed only when it was evicted *)
(* for as many other keys (get, set).                                      *)
(***************************************************************************)
THEOREM HitsAreLastSet == Spec => GetReturnsLastSet
<1> DEFINE Right(k) ==
      /\ GetHit(k) => kept[k] # NoEntry /\ InTime(kept[k])
                        /\ answered'.answer = kept[k].value
      /\ GetMiss(k) => \/ kept[k] = NoEntry \/ ~InTime(kept[k])
                        \/ Cardinality(MoreRecent(k)) >= Capacity
<1>1. MemoryInv => \A k \in Keys : Right(k)
  <2> SUFFICES ASSUME MemoryInv, NEW k \in Keys PROVE Right(k)
    OBVIOUS
  <2>1. k \in DOMAIN cache => kept[k] = cache[k] /\ cache[k] \in Entry
    BY DEF MemoryInv, KeptIfCached, TypeOK
  <2>2. \A entry \in Entry : InTime(entry) <=> ~Expired(entry)
    BY DEF Entry, InTime, Expired, MemoryInv, TypeOK
  <2>3. ASSUME GetHit(k)
        PROVE  /\ kept[k] # NoEntry /\ InTime(kept[k])
               /\ answered'.answer = kept[k].value
    <3>1. k \in DOMAIN cache /\ ~Expired(cache[k])
      BY <2>3 DEF GetHit, Cached
    <3>2. answered'.answer = cache[k].value
      BY <2>3 DEF GetHit, GetAnswer
    <3> QED
      BY <2>1, <2>2, <3>1, <3>2, EntryAssumption
  <2>4. ASSUME GetMiss(k), kept[k] # NoEntry, InTime(kept[k])
        PROVE  Cardinality(MoreRecent(k)) >= Capacity
    <3>1. k \notin DOMAIN cache
      BY <2>1, <2>2, <2>4 DEF GetMiss, Cached
    <3>2. Capacity <= Cardinality(MoreRecent(k))
      BY <2>4, <3>1 DEF MemoryInv, Evicted
    <3>3. IsFiniteSet(MoreRecent(k))
      BY Finite DEF MemoryInv
    <3>4. Cardinality(MoreRecent(k)) \in Nat
      BY <3>3, FS_CardinalityType
    <3> QED
      BY <3>2, <3>4, CapacityType
  <2> QED
    BY <2>3, <2>4
<1>2. MemoryInv /\ [Next]_vars => [\A k \in Keys : Right(k)]_vars
  BY <1>1
<1> QED
  BY <1>2, MemoryInvariant, PTL DEF Spec, GetReturnsLastSet

-------------------------------------------------------------------------------
(* The contract                                                            *)

(* Where the last call was a set, its response is there and in its time.    *)
SetIsSeen ==
  \A k \in Keys, v \in Values :
    answered = SetAnswer(k, v) => Cached(k) /\ cache[k].value = v /\ InTime(cache[k])

Shown == [k \in Keys |-> IF Cached(k) /\ InTime(cache[k])
                          THEN cache[k].value ELSE NoEntry]
Called == [c \in {Client} |-> answered]

(* A set that is done is in place, and in its time.                         *)
LEMMA SetShows ==
  ASSUME MemoryInv, NEW k \in Keys, NEW v \in Values, NEW ttl \in Ttls, Set(k, v, ttl)
  PROVE  /\ k \in DOMAIN cache' /\ cache'[k] = [value |-> v, expiry |-> ExpiryOf(ttl)]
         /\ now' = now
         /\ ExpiryOf(ttl) = 0 \/ now <= ExpiryOf(ttl)
<1>1. k \in DOMAIN cache' /\ cache'[k] = [value |-> v, expiry |-> ExpiryOf(ttl)] /\ now' = now
  BY DEF Set, Written
<1>2. now \in Int /\ ttl \in Int
  BY MemoryAssumption DEF MemoryInv, TypeOK
<1>3. ExpiryOf(ttl) = 0 \/ now <= ExpiryOf(ttl)
  BY <1>2 DEF ExpiryOf
<1> QED
  BY <1>1, <1>3

(* The set that was done last is still what the contract shows.             *)
LEMMA NextSetIsSeen ==
  ASSUME MemoryInv, SetIsSeen, [Next]_vars PROVE SetIsSeen'
<1> SUFFICES ASSUME NEW k \in Keys, NEW v \in Values, answered' = SetAnswer(k, v)
             PROVE  Cached(k)' /\ cache'[k].value = v /\ InTime(cache[k])'
  BY DEF SetIsSeen
<1>1. \A j \in Keys : \A answer : answered' # GetAnswer(j, answer) /\ answered' # NoAnswer
  BY DEF SetAnswer, GetAnswer, NoAnswer
<1>2. CASE UNCHANGED vars
  BY <1>2 DEF SetIsSeen, vars, Cached, InTime
<1>3. CASE \E j \in Keys, w \in Values, ttl \in Ttls : Set(j, w, ttl)
  <2>1. PICK j \in Keys, w \in Values, ttl \in Ttls : Set(j, w, ttl)
    BY <1>3
  <2>2. j = k /\ w = v
    BY <2>1 DEF Set, SetAnswer
  <2>3. /\ k \in DOMAIN cache' /\ cache'[k] = [value |-> v, expiry |-> ExpiryOf(ttl)]
        /\ now' = now /\ (ExpiryOf(ttl) = 0 \/ now <= ExpiryOf(ttl))
    BY <2>1, <2>2, SetShows
  <2> QED
    BY <2>3 DEF Cached, InTime
<1> QED
  BY <1>1, <1>2, <1>3
  DEF Next, GetHit, GetMiss, Delete, Clear, ClearNamespace, Exists, Tick

(* Removals, expiry and gets: entries are lost, and at most a get ends.     *)
LEMMA Losing ==
  ASSUME DOMAIN cache' \subseteq DOMAIN cache,
         \A k \in DOMAIN cache' : cache'[k] = cache[k],
         \A k \in DOMAIN cache' : InTime(cache[k])' => InTime(cache[k]),
         \/ answered' = NoAnswer
         \/ \E k \in Keys : answered' \in {GetAnswer(k, Shown[k]), GetAnswer(k, NoEntry)}
  PROVE  Contract!Next
<1>1. PICK gone \in SUBSET Keys :
        gone = { k \in Keys : ~(Cached(k)' /\ InTime(cache[k])') }
  OBVIOUS
<1>2. Shown' = [k \in Keys |-> IF k \in gone THEN NoEntry ELSE Shown[k]]
  BY <1>1 DEF Shown, Cached
<1>3. Contract!Lose(gone)
  BY <1>2 DEF Contract!Lose, Shown
<1>4. Contract!Moves(Client)
  <2>1. CASE answered' = NoAnswer
    BY <2>1 DEF Contract!Moves, Contract!NoCall, NoAnswer
  <2>2. CASE \E k \in Keys : answered' \in {GetAnswer(k, Shown[k]), GetAnswer(k, NoEntry)}
    <3>1. PICK k \in Keys : answered' \in {GetAnswer(k, Shown[k]), GetAnswer(k, NoEntry)}
      BY <2>2
    <3>2. \E answer \in {Shown[k], NoEntry} : answered' = GetAnswer(k, answer)
      BY <3>1
    <3> QED
      BY <3>2 DEF Contract!Moves, Contract!Getting, GetAnswer, Shown
  <2> QED
    BY <2>1, <2>2
<1> QED
  BY <1>1, <1>3, <1>4 DEF Contract!Next

(* A set puts its response there, and other entries may make room.          *)
LEMMA Putting ==
  ASSUME MemoryInv, SetIsSeen,
         NEW k \in Keys, NEW v \in Values, NEW ttl \in Ttls, Set(k, v, ttl)
  PROVE  [Contract!Next]_<< Shown, Called >>
<1> DEFINE out     == IF NeedsRoom(k) THEN Oldest ELSE {}
           present == (DOMAIN cache \ out) \cup {k}
           entry   == [value |-> v, expiry |-> ExpiryOf(ttl)]
           stay    == { j \in (DOMAIN cache \ out) \ {k} : InTime(cache[j]) }
<1>1. /\ cache' = [j \in present |-> IF j = k THEN entry ELSE cache[j]]
      /\ now' = now /\ answered' = SetAnswer(k, v)
  BY DEF Set, Written
<1>2. stay \in SUBSET (Keys \ {k}) /\ present \subseteq Keys
  BY DEF MemoryInv, TypeOK
<1>3. entry.expiry = 0 \/ now <= entry.expiry
  BY SetShows
<1>4. Shown' = [j \in Keys |-> IF j = k THEN v ELSE
                                IF j \in stay THEN Shown[j] ELSE NoEntry]
  <2> SUFFICES ASSUME NEW j \in Keys
               PROVE  Shown'[j] = IF j = k THEN v ELSE
                                  IF j \in stay THEN Shown[j] ELSE NoEntry
    BY DEF Shown
  <2>1. CASE j = k
    BY <1>1, <1>3, <2>1 DEF Shown, Cached, InTime
  <2>2. CASE j # k
    BY <1>1, <2>2 DEF Shown, Cached, InTime
  <2> QED
    BY <2>1, <2>2
<1>5. Contract!Put(k, v)
  <2> HIDE DEF stay, present, entry, out
  <2> QED
    BY <1>2, <1>4 DEF Contract!Put, Shown
<1>6. CASE answered = SetAnswer(k, v)
  <2>1. Cached(k) /\ Shown[k] = v
    BY <1>6 DEF SetIsSeen, Shown
  <2>2. out = {}
    BY <2>1 DEF NeedsRoom
  <2>3. Shown' = Shown
    <3> SUFFICES ASSUME NEW j \in Keys PROVE Shown'[j] = Shown[j]
      BY DEF Shown
    <3> QED
      BY <1>4, <2>1, <2>2 DEF Shown, Cached
  <2> QED
    BY <1>1, <1>6, <2>3 DEF Called
<1>7. CASE answered # SetAnswer(k, v)
  <2>0. answered.op # "set"
    BY DEF MemoryInv, TypeOK, Answer, NoAnswer, GetAnswer, SetAnswer
  <2>1. Contract!SetAtOnce(Client)
    BY <1>1, <1>5, <1>7, <2>0 DEF Contract!SetAtOnce, Contract!SetDone, SetAnswer
  <2> QED
    BY <2>1 DEF Contract!Next
<1> QED
  BY <1>6, <1>7

(* Every step is one of the contract, or leaves it unchanged.              *)
LEMMA StepImplements ==
  ASSUME MemoryInv, SetIsSeen, [Next]_vars
  PROVE  [Contract!Next]_<< Shown, Called >>
<1>1. ASSUME UNCHANGED vars PROVE UNCHANGED << Shown, Called >>
  BY <1>1 DEF Shown, Called, Cached, InTime, vars
<1>2. ASSUME NEW gone, cache' = Without(gone), now' = now,
             \/ answered' = NoAnswer
             \/ \E k \in Keys : answered' \in {GetAnswer(k, Shown[k]), GetAnswer(k, NoEntry)}
      PROVE  Contract!Next
  <2>1. /\ DOMAIN cache' \subseteq DOMAIN cache
        /\ \A k \in DOMAIN cache' : cache'[k] = cache[k]
    BY <1>2 DEF Without
  <2>2. \A k \in DOMAIN cache' : InTime(cache[k])' => InTime(cache[k])
    BY <1>2, <2>1 DEF InTime
  <2> QED
    BY <1>2, <2>1, <2>2, Losing
<1>3. ASSUME NEW k \in Keys, GetHit(k) PROVE Contract!Next
  <2>1. /\ cache' = cache /\ now' = now /\ k \in DOMAIN cache /\ ~Expired(cache[k])
        /\ answered' = GetAnswer(k, cache[k].value) /\ cache[k] \in Entry
        /\ DOMAIN cache \subseteq Keys
    BY <1>3 DEF GetHit, Cached, MemoryInv, TypeOK
  <2>2. InTime(cache[k])
    BY <2>1 DEF InTime, Expired, Entry, MemoryInv, TypeOK
  <2>3. answered' = GetAnswer(k, Shown[k])
    BY <2>1, <2>2 DEF Shown, Cached
  <2>4. \A j \in DOMAIN cache' : InTime(cache[j])' => InTime(cache[j])
    BY <2>1 DEF InTime
  <2> QED
    BY <2>1, <2>3, <2>4, Losing
<1>4. ASSUME Tick PROVE Contract!Next
  <2>1. cache' = cache /\ now' = now + 1 /\ answered' = NoAnswer /\ now \in Nat
    BY <1>4 DEF Tick, MemoryInv, TypeOK
  <2>2. \A k \in DOMAIN cache' : InTime(cache[k])' => InTime(cache[k])
    <3> SUFFICES ASSUME NEW k \in DOMAIN cache, InTime(cache[k])'
                 PROVE  InTime(cache[k])
      BY <2>1
    <3>1. cache[k].expiry \in Nat
      BY DEF MemoryInv, TypeOK, Entry
    <3> QED
      BY <2>1, <3>1 DEF InTime
  <2> QED
    BY <2>1, <2>2, Losing
<1> QED
  BY <1>1, <1>2, <1>3, <1>4, Putting
  DEF Next, GetMiss, Delete, Clear, ClearNamespace, Exists

(***************************************************************************)
(* The memory backend keeps the promise of CacheBackend (base.py): every   *)
(* hit is what a set stored there and nothing has replaced, removed or     *)
(* outlived since, and only a set adds an entry, for every instance.       *)
(***************************************************************************)
THEOREM MemoryImplementsContract == Spec => ImplementsContract
<1>1. Init => Contract!Init
  BY DEF Init, Contract!Init, Cached, Contract!NoCall, NoAnswer
<1>2. Init => SetIsSeen
  BY DEF Init, SetIsSeen, SetAnswer, NoAnswer
<1>3. MemoryInv /\ SetIsSeen /\ [Next]_vars => SetIsSeen'
  BY NextSetIsSeen
<1>4. MemoryInv /\ SetIsSeen /\ [Next]_vars => [Contract!Next]_<< Shown, Called >>
  BY StepImplements
<1> QED
  BY <1>1, <1>2, <1>3, <1>4, MemoryInvariant, PTL
  DEF Spec, ImplementsContract, Contract!Spec, Shown, Called
=============================================================================
