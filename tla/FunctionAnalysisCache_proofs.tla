---------------------- MODULE FunctionAnalysisCache_proofs ---------------------
(***************************************************************************)
(* The function analysis cache for every set of keys and plans, every      *)
(* digest, every size and every limit: its running totals are the sums     *)
(* they stand for, its bounds hold between calls, and it implements the    *)
(* exact LRU map.                                                          *)
(***************************************************************************)
EXTENDS FunctionAnalysisCache, FiniteSetTheorems, TLAPS

-------------------------------------------------------------------------------
(* Sums over finite sets *)

(* A set of naturals that is not empty has a least element.                *)
LEMMA LeastOfNaturals ==
    ASSUME NEW S \in SUBSET Nat, S # {}
    PROVE  \E n \in S : \A m \in S : n <= m
  <1>1. PICK n \in S : \A m \in S : ~(<<m, n>> \in OpToRel(<, Nat))
    BY NatLessThanWellFounded, WFMin, Zenon
  <1>2. \A m \in S : ~(m < n)
    BY <1>1 DEF OpToRel
  <1>3. \A m \in S : n <= m
    BY <1>2
  <1> QED
    BY <1>3

\* What a function from subsets to sums has to satisfy, up to sets of n elements.
Sums(w, D, total, n) ==
    \A s \in SUBSET D : Cardinality(s) <= n =>
        total[s] = IF s = {} THEN 0
                   ELSE w[CHOOSE x \in s : TRUE] + total[s \ {CHOOSE x \in s : TRUE}]

(* Choosing an element and taking it away leaves a smaller set.            *)
LEMMA ChosenIsTaken ==
    ASSUME NEW D, IsFiniteSet(D), NEW s \in SUBSET D
    PROVE  /\ IsFiniteSet(s) /\ Cardinality(s) \in Nat
           /\ Cardinality(s) = 0 <=> s = {}
           /\ s # {} => (CHOOSE x \in s : TRUE) \in s
           /\ \A x \in s : /\ Cardinality(s \ {x}) = Cardinality(s) - 1
                           /\ s \ {x} \in SUBSET D
  <1>1. IsFiniteSet(s) /\ Cardinality(s) \in Nat
    BY FS_Subset, FS_CardinalityType
  <1>2. Cardinality(s) = 0 <=> s = {}
    BY <1>1, FS_EmptySet
  <1>3. \A x \in s : Cardinality(s \ {x}) = Cardinality(s) - 1
    BY <1>1, FS_RemoveElement
  <1> QED
    BY <1>1, <1>2, <1>3

(* Sums can be extended to larger and larger sets.                         *)
LEMMA SumsExist ==
    ASSUME NEW D, IsFiniteSet(D), NEW w, NEW n \in Nat
    PROVE  \E total : Sums(w, D, total, n)
  <1> DEFINE Without == {m \in Nat : ~ \E total : Sums(w, D, total, m)}
  <1>1. SUFFICES ASSUME Without # {} PROVE FALSE
    OBVIOUS
  <1>2. PICK m \in Without : \A k \in Without : m <= k
    <2>1. Without \in SUBSET Nat
      OBVIOUS
    <2> HIDE DEF Without
    <2> QED
      BY <1>1, <2>1, LeastOfNaturals
  <1>3. m \in Nat /\ ~ \E total : Sums(w, D, total, m)
    BY <1>2
  <1>4. CASE m = 0
    <2> DEFINE zero == [s \in SUBSET D |-> 0]
    <2>1. \A s \in SUBSET D : Cardinality(s) <= 0 => s = {}
      BY ChosenIsTaken
    <2>2. Sums(w, D, zero, 0)
      BY <2>1 DEF Sums
    <2> QED
      BY <1>3, <1>4, <2>2
  <1>5. CASE m # 0
    <2>1. m - 1 \in Nat /\ m - 1 \notin Without
      BY <1>2, <1>3, <1>5
    <2>2. PICK total : Sums(w, D, total, m - 1)
      BY <2>1
    <2> DEFINE c(s) == CHOOSE x \in s : TRUE
               more == [s \in SUBSET D |-> IF Cardinality(s) <= m - 1 THEN total[s]
                                           ELSE w[c(s)] + total[s \ {c(s)}]]
    <2>3. ASSUME NEW s \in SUBSET D, Cardinality(s) <= m
          PROVE  more[s] = IF s = {} THEN 0 ELSE w[c(s)] + more[s \ {c(s)}]
      <3>1. CASE s = {}
        <4>1. Cardinality(s) = 0
          BY <3>1, ChosenIsTaken
        <4>2. total[s] = 0
          <5>1. Cardinality(s) <= m - 1
            BY <2>1, <4>1
          <5>2. total[s] = IF s = {} THEN 0 ELSE w[c(s)] + total[s \ {c(s)}]
            BY <2>2, <5>1 DEF Sums
          <5> HIDE DEF c
          <5> QED
            BY <3>1, <5>2
        <4> QED
          BY <2>1, <3>1, <4>1, <4>2
      <3>2. CASE s # {}
        <4>1. /\ Cardinality(s) \in Nat /\ c(s) \in s /\ s \ {c(s)} \in SUBSET D
              /\ Cardinality(s \ {c(s)}) = Cardinality(s) - 1
          BY <3>2, ChosenIsTaken
        <4>2. more[s \ {c(s)}] = total[s \ {c(s)}]
          BY <1>3, <2>3, <4>1
        <4>3. Cardinality(s) <= m - 1 => total[s] = w[c(s)] + total[s \ {c(s)}]
          BY <2>2, <3>2 DEF Sums
        <4> HIDE DEF c
        <4> QED
          BY <3>2, <4>2, <4>3
      <3> QED
        BY <3>1, <3>2
    <2>4. Sums(w, D, more, m)
      <3> HIDE DEF more
      <3> QED
        BY <2>3 DEF Sums
    <2> QED
      BY <1>3, <2>4
  <1> QED
    BY <1>4, <1>5

\* The sums over the subsets of D.
SumsOver(w, D) ==
    CHOOSE total : total = [s \in SUBSET D |->
        IF s = {} THEN 0 ELSE w[CHOOSE x \in s : TRUE] + total[s \ {CHOOSE x \in s : TRUE}]]

(* The fold of the community modules is the sum over the whole set.        *)
LEMMA SumIsOver ==
    ASSUME NEW w
    PROVE  SumFunction(w) = SumsOver(w, DOMAIN w)[DOMAIN w]
  BY DEF SumFunction, SumFunctionOnSet, FoldFunctionOnSet, MapThenFoldSet, SumsOver

(* The recursion of the fold has a solution: that of all cardinalities.    *)
LEMMA SumsOverSums ==
    ASSUME NEW D, IsFiniteSet(D), NEW w, NEW s \in SUBSET D
    PROVE  SumsOver(w, D)[s] =
               IF s = {} THEN 0
               ELSE w[CHOOSE x \in s : TRUE] + SumsOver(w, D)[s \ {CHOOSE x \in s : TRUE}]
  <1> DEFINE c(t) == CHOOSE x \in t : TRUE
             Body(total) == [t \in SUBSET D |->
                                IF t = {} THEN 0 ELSE w[c(t)] + total[t \ {c(t)}]]
  <1>1. Cardinality(D) \in Nat
    BY FS_CardinalityType
  <1>2. PICK total : Sums(w, D, total, Cardinality(D))
    BY <1>1, SumsExist
  <1> DEFINE all == [t \in SUBSET D |-> total[t]]
  <1>3. ASSUME NEW t \in SUBSET D
        PROVE  all[t] = IF t = {} THEN 0 ELSE w[c(t)] + all[t \ {c(t)}]
    <2>1. Cardinality(t) <= Cardinality(D)
      BY FS_Subset
    <2>2. total[t] = IF t = {} THEN 0 ELSE w[c(t)] + total[t \ {c(t)}]
      BY <1>2, <2>1 DEF Sums
    <2>3. t \ {c(t)} \in SUBSET D
      OBVIOUS
    <2> HIDE DEF c
    <2> QED
      BY <2>2, <2>3
  <1>4. all = Body(all)
    <2> HIDE DEF c
    <2> QED
      BY <1>3
  <1>5. SumsOver(w, D) = Body(SumsOver(w, D))
    <2>1. SumsOver(w, D) = CHOOSE f : f = Body(f)
      BY DEF SumsOver
    <2>2. \E f : f = Body(f)
      BY <1>4
    <2> HIDE DEF Body
    <2> QED
      BY <2>1, <2>2
  <1> QED
    BY <1>5

(* Sums of naturals are naturals.                                          *)
LEMMA SumsAreNatural ==
    ASSUME NEW D, IsFiniteSet(D), NEW w, \A x \in D : w[x] \in Nat, NEW s \in SUBSET D
    PROVE  SumsOver(w, D)[s] \in Nat
  <1> DEFINE total == SumsOver(w, D)
             Bad == {n \in Nat : \E t \in SUBSET D : Cardinality(t) = n /\ total[t] \notin Nat}
  <1>1. SUFFICES ASSUME Bad # {} PROVE FALSE
    BY ChosenIsTaken
  <1>2. PICK n \in Bad : \A k \in Bad : n <= k
    <2>1. Bad \in SUBSET Nat
      OBVIOUS
    <2> HIDE DEF Bad
    <2> QED
      BY <1>1, <2>1, LeastOfNaturals
  <1>3. PICK t \in SUBSET D : Cardinality(t) = n /\ total[t] \notin Nat
    BY <1>2
  <1> DEFINE c == CHOOSE x \in t : TRUE
  <1>4. total[t] = IF t = {} THEN 0 ELSE w[c] + total[t \ {c}]
    BY SumsOverSums
  <1>5. n \in Nat /\ t # {}
    BY <1>2, <1>3, <1>4
  <1>6. c \in D /\ t \ {c} \in SUBSET D /\ Cardinality(t \ {c}) \in Nat
    BY <1>5, ChosenIsTaken
  <1>7. Cardinality(t \ {c}) = n - 1
    BY <1>3, <1>5, ChosenIsTaken
  <1>8. Cardinality(t \ {c}) \notin Bad
    <2> HIDE DEF Bad, c
    <2> QED
      BY <1>2, <1>5, <1>7
  <1>9. total[t \ {c}] \in Nat
    <2> HIDE DEF c, total
    <2> QED
      BY <1>6, <1>8
  <1>10. w[c] \in Nat
    BY <1>6
  <1> HIDE DEF c, total, Bad
  <1> QED
    BY <1>3, <1>4, <1>5, <1>9, <1>10

(* It does not matter which element is taken away first.                   *)
LEMMA SumsTakeAny ==
    ASSUME NEW D, IsFiniteSet(D), NEW w, \A x \in D : w[x] \in Nat,
           NEW s \in SUBSET D, NEW y \in s
    PROVE  SumsOver(w, D)[s] = w[y] + SumsOver(w, D)[s \ {y}]
  <1> DEFINE total == SumsOver(w, D)
             Any(t) == \A x \in t : total[t] = w[x] + total[t \ {x}]
             Bad == {n \in Nat : \E t \in SUBSET D : Cardinality(t) = n /\ ~Any(t)}
  <1>1. SUFFICES ASSUME Bad # {} PROVE FALSE
    <2>1. Any(s) => total[s] = w[y] + total[s \ {y}]
      OBVIOUS
    <2> HIDE DEF Any
    <2> QED
      BY <2>1, ChosenIsTaken
  <1>2. PICK n \in Bad : \A k \in Bad : n <= k
    <2>1. Bad \in SUBSET Nat
      OBVIOUS
    <2> HIDE DEF Bad
    <2> QED
      BY <1>1, <2>1, LeastOfNaturals
  <1>3. PICK t \in SUBSET D : Cardinality(t) = n /\ ~Any(t)
    BY <1>2
  <1>4. PICK x \in t : total[t] # w[x] + total[t \ {x}]
    BY <1>3
  <1> DEFINE c == CHOOSE e \in t : TRUE
  <1>5. n \in Nat /\ t # {} /\ c \in t /\ x \in t
    BY <1>2, <1>4
  <1>6. total[t] = w[c] + total[t \ {c}]
    BY <1>5, SumsOverSums
  <1> HIDE DEF c
  <1>7. c # x
    BY <1>4, <1>6
  <1>8. \A z \in t : Any(t \ {z})
    <2> SUFFICES ASSUME NEW z \in t PROVE Any(t \ {z})
      OBVIOUS
    <2>1. Cardinality(t \ {z}) = n - 1 /\ Cardinality(t \ {z}) \in Nat /\ t \ {z} \in SUBSET D
      BY <1>3, ChosenIsTaken
    <2>2. Cardinality(t \ {z}) \notin Bad
      <3> HIDE DEF Bad
      <3> QED
        BY <1>2, <1>5, <2>1
    <2> HIDE DEF Any
    <2> QED
      BY <2>1, <2>2
  <1>9. total[t \ {c}] = w[x] + total[(t \ {c}) \ {x}]
    BY <1>5, <1>7, <1>8
  <1>10. total[t \ {x}] = w[c] + total[(t \ {x}) \ {c}]
    BY <1>5, <1>7, <1>8
  <1>11. (t \ {c}) \ {x} = (t \ {x}) \ {c}
    OBVIOUS
  <1>12. /\ total[(t \ {c}) \ {x}] \in Nat /\ total[t \ {c}] \in Nat /\ total[t \ {x}] \in Nat
         /\ w[c] \in Nat /\ w[x] \in Nat
    BY <1>5, SumsAreNatural
  <1> HIDE DEF total
  <1> QED
    BY <1>4, <1>6, <1>9, <1>10, <1>11, <1>12

(* Renaming the elements leaves the sum as it is.                          *)
LEMMA SumsAreOfWeights ==
    ASSUME NEW D, IsFiniteSet(D), NEW E, IsFiniteSet(E), NEW w, NEW v, NEW h,
           \A x \in D : w[x] \in Nat, \A y \in E : v[y] \in Nat,
           \A x \in D : h[x] \in E /\ v[h[x]] = w[x],
           \A x, y \in D : h[x] = h[y] => x = y,
           NEW s \in SUBSET D
    PROVE  SumsOver(w, D)[s] = SumsOver(v, E)[{h[x] : x \in s}]
  <1> DEFINE left == SumsOver(w, D)
             right == SumsOver(v, E)
             Image(t) == {h[x] : x \in t}
             Bad == {n \in Nat : \E t \in SUBSET D :
                                    Cardinality(t) = n /\ left[t] # right[Image(t)]}
  <1>1. SUFFICES ASSUME Bad # {} PROVE FALSE
    <2>1. Cardinality(s) \in Nat
      BY ChosenIsTaken
    <2> HIDE DEF left, right, Image
    <2>2. left[s] = right[Image(s)]
      BY <2>1
    <2> QED
      BY <2>2 DEF left, right, Image
  <1>2. PICK n \in Bad : \A k \in Bad : n <= k
    <2>1. Bad \in SUBSET Nat
      OBVIOUS
    <2> HIDE DEF Bad
    <2> QED
      BY <1>1, <2>1, LeastOfNaturals
  <1>3. PICK t \in SUBSET D : Cardinality(t) = n /\ left[t] # right[Image(t)]
    BY <1>2
  <1>4. CASE t = {}
    <2>1. Image(t) = {}
      BY <1>4
    <2>2. left[t] = 0
      BY <1>4, SumsOverSums
    <2>3. right[{}] = 0
      BY SumsOverSums
    <2> QED
      BY <1>3, <2>1, <2>2, <2>3
  <1>5. CASE t # {}
    <2>1. PICK x \in t : TRUE
      BY <1>5
    <2>2. /\ Cardinality(t \ {x}) = n - 1 /\ Cardinality(t \ {x}) \in Nat
          /\ t \ {x} \in SUBSET D /\ n \in Nat
      BY <1>2, <1>3, ChosenIsTaken
    <2>3. Cardinality(t \ {x}) \notin Bad
      <3> HIDE DEF Bad
      <3> QED
        BY <1>2, <2>2
    <2>4. left[t \ {x}] = right[Image(t \ {x})]
      <3> HIDE DEF left, right, Image
      <3> QED
        BY <2>2, <2>3
    <2>5. Image(t \ {x}) = Image(t) \ {h[x]}
      BY <2>1
    <2>6. Image(t) \in SUBSET E /\ h[x] \in Image(t)
      BY <2>1
    <2> HIDE DEF Image
    <2>7. left[t] = w[x] + left[t \ {x}]
      BY <2>1, SumsTakeAny
    <2>8. right[Image(t)] = v[h[x]] + right[Image(t) \ {h[x]}]
      BY <2>6, SumsTakeAny
    <2>9. v[h[x]] = w[x]
      BY <2>1
    <2> QED
      BY <1>3, <2>4, <2>5, <2>7, <2>8, <2>9
  <1> QED
    BY <1>4, <1>5

(* The sum of nothing is zero.                                             *)
LEMMA SumOfNothing ==
    ASSUME NEW w, DOMAIN w = {}
    PROVE  SumFunction(w) = 0
  BY SumIsOver, SumsOverSums, FS_EmptySet

(* A sum of naturals is a natural.                                         *)
LEMMA SumIsNatural ==
    ASSUME NEW w, IsFiniteSet(DOMAIN w), \A x \in DOMAIN w : w[x] \in Nat
    PROVE  SumFunction(w) \in Nat
  BY SumIsOver, SumsAreNatural

(* A sum is the same under other names for what is summed.                 *)
LEMMA SumIsOfWeights ==
    ASSUME NEW w, IsFiniteSet(DOMAIN w), NEW v, NEW h,
           \A x \in DOMAIN w : w[x] \in Nat,
           DOMAIN v = {h[x] : x \in DOMAIN w}, \A x \in DOMAIN w : v[h[x]] = w[x],
           \A x, y \in DOMAIN w : h[x] = h[y] => x = y
    PROVE  IsFiniteSet(DOMAIN v) /\ SumFunction(w) = SumFunction(v)
  <1> DEFINE D == DOMAIN w
             E == DOMAIN v
             k == [x \in D |-> h[x]]
  <1>1. k \in Surjection(D, E)
    BY DEF Surjection
  <1>2. IsFiniteSet(E)
    <2> HIDE DEF D, E, k
    <2>1. IsFiniteSet(D)
      BY DEF D
    <2> QED
      BY <1>1, <2>1, FS_Surjection
  <1>3. \A y \in E : v[y] \in Nat
    OBVIOUS
  <1>4. SumsOver(w, D)[D] = SumsOver(v, E)[{h[x] : x \in D}]
    <2>1. D \in SUBSET D /\ \A x \in D : h[x] \in E
      OBVIOUS
    <2> QED
      BY <1>2, <1>3, <2>1, SumsAreOfWeights
  <1> QED
    BY <1>2, <1>4, SumIsOver

(* Adding an element to what is summed adds its weight.                    *)
LEMMA SumWithOneMore ==
    ASSUME NEW w, NEW v, NEW x, IsFiniteSet(DOMAIN w), x \notin DOMAIN w,
           DOMAIN v = DOMAIN w \cup {x}, \A y \in DOMAIN w : v[y] = w[y],
           \A y \in DOMAIN v : v[y] \in Nat
    PROVE  /\ IsFiniteSet(DOMAIN v)
           /\ SumFunction(v) = SumFunction(w) + v[x]
           /\ SumFunction(w) \in Nat /\ v[x] \in Nat
  <1> DEFINE D == DOMAIN w
             E == DOMAIN v
             h == [y \in D |-> y]
  <1>1. IsFiniteSet(E)
    BY FS_AddElement
  <1>2. SumsOver(w, D)[D] = SumsOver(v, E)[{h[y] : y \in D}]
    <2>1. D \in SUBSET D /\ \A y \in D : h[y] \in E /\ v[h[y]] = w[y] /\ w[y] \in Nat
      OBVIOUS
    <2>2. \A y, z \in D : h[y] = h[z] => y = z
      OBVIOUS
    <2> HIDE DEF h
    <2> QED
      BY <1>1, <2>1, <2>2, SumsAreOfWeights
  <1>3. {h[y] : y \in D} = E \ {x}
    OBVIOUS
  <1>4. SumsOver(v, E)[E] = v[x] + SumsOver(v, E)[E \ {x}]
    <2>1. E \in SUBSET E /\ x \in E /\ \A y \in E : v[y] \in Nat
      OBVIOUS
    <2> HIDE DEF E
    <2> QED
      BY <1>1, <2>1, SumsTakeAny
  <1>5. SumFunction(w) \in Nat /\ v[x] \in Nat
    BY SumIsNatural
  <1>6. SumFunction(v) = v[x] + SumFunction(w)
    <2> HIDE DEF h
    <2> QED
      BY <1>2, <1>3, <1>4, SumIsOver
  <1> QED
    BY <1>1, <1>5, <1>6

(* Two weights that differ at one element have sums that differ by as much. *)
LEMMA SumWithOneChanged ==
    ASSUME NEW w, NEW v, NEW x \in DOMAIN w, IsFiniteSet(DOMAIN w), DOMAIN v = DOMAIN w,
           \A y \in DOMAIN w : w[y] \in Nat /\ v[y] \in Nat,
           \A y \in DOMAIN w \ {x} : v[y] = w[y]
    PROVE  /\ SumFunction(v) = SumFunction(w) - w[x] + v[x]
           /\ w[x] <= SumFunction(w) /\ SumFunction(w) \in Nat
  <1> DEFINE u == [y \in DOMAIN w \ {x} |-> w[y]]
  <1>1. IsFiniteSet(DOMAIN u) /\ x \notin DOMAIN u
    BY FS_RemoveElement
  <1>2. DOMAIN w = DOMAIN u \cup {x} /\ \A y \in DOMAIN u : w[y] = u[y] /\ v[y] = u[y]
    OBVIOUS
  <1> HIDE DEF u
  <1>3. SumFunction(w) = SumFunction(u) + w[x] /\ SumFunction(u) \in Nat /\ w[x] \in Nat
    BY <1>1, <1>2, SumWithOneMore
  <1>4. SumFunction(v) = SumFunction(u) + v[x] /\ v[x] \in Nat
    BY <1>1, <1>2, SumWithOneMore
  <1> QED
    BY <1>3, <1>4

-------------------------------------------------------------------------------
(* The buckets *)

\* Every entry sits in the bucket of its key's digest, alone with its key.
BucketsAreSound ==
    /\ IsFiniteSet(DOMAIN entries)
    /\ \A d \in DOMAIN entries : entries[d] \in Seq(CacheEntry)
    /\ \A s \in Slots :
          /\ s[1] = Digest[At(s).key]
          /\ At(s).estimated_bytes = EstimatedBytes(At(s).key, At(s).artifact)
    /\ \A s, t \in Slots : At(s).key = At(t).key => s = t

(* A slot is a position of a bucket.                                       *)
LEMMA SlotIsPosition ==
    \A s : s \in Slots <=>
        \E d \in DOMAIN entries : \E i \in DOMAIN entries[d] : s = <<d, i>>
  BY DEF Slots

(* There are finitely many slots, each with an entry.                      *)
LEMMA SlotsHoldEntries ==
    ASSUME BucketsAreSound
    PROVE  /\ IsFiniteSet(Slots)
           /\ \A s \in Slots : At(s) \in CacheEntry
  <1>1. ASSUME NEW d \in DOMAIN entries
        PROVE  /\ IsFiniteSet({d} \X DOMAIN entries[d])
               /\ \A i \in DOMAIN entries[d] : entries[d][i] \in CacheEntry
    <2>1. entries[d] \in Seq(CacheEntry)
      BY DEF BucketsAreSound
    <2> HIDE DEF CacheEntry
    <2>2. /\ DOMAIN entries[d] = 1..Len(entries[d]) /\ Len(entries[d]) \in Nat
          /\ \A i \in DOMAIN entries[d] : entries[d][i] \in CacheEntry
      BY <2>1
    <2>3. IsFiniteSet(1..Len(entries[d]))
      BY <2>2, FS_Interval
    <2>4. IsFiniteSet({d})
      BY FS_Singleton
    <2> QED
      BY <2>2, <2>3, <2>4, FS_Product
  <1>2. IsFiniteSet(Slots)
    <2> DEFINE row == [d \in DOMAIN entries |-> {d} \X DOMAIN entries[d]]
               rows == {row[d] : d \in DOMAIN entries}
    <2>1. IsFiniteSet(rows)
      <3>1. row \in Surjection(DOMAIN entries, rows)
        BY DEF Surjection
      <3>2. IsFiniteSet(DOMAIN entries)
        BY DEF BucketsAreSound
      <3> HIDE DEF row, rows
      <3> QED
        BY <3>1, <3>2, FS_Surjection
    <2>2. \A r \in rows : IsFiniteSet(r)
      BY <1>1
    <2>3. Slots = UNION rows
      BY DEF Slots
    <2> HIDE DEF rows
    <2> QED
      BY <2>1, <2>2, <2>3, FS_UNION
  <1>3. ASSUME NEW s \in Slots
        PROVE  At(s) \in CacheEntry
    <2>1. PICK d \in DOMAIN entries : \E i \in DOMAIN entries[d] : s = <<d, i>>
      BY SlotIsPosition
    <2>2. PICK i \in DOMAIN entries[d] : s = <<d, i>>
      BY <2>1
    <2>3. At(s) = entries[d][i]
      BY <2>2 DEF At
    <2> QED
      BY <1>1, <2>3
  <1> QED
    BY <1>2, <1>3

(* find answers with the one entry of a key, if there is one.              *)
LEMMA FindIsExact ==
    ASSUME BucketsAreSound, NEW k \in Keys
    PROVE  /\ k \in Resident <=> PositionsOf(k) # {}
           /\ k \in Resident =>
                 /\ <<Digest[k], FirstOf(k)>> \in Slots
                 /\ EntryOf(k) = At(<<Digest[k], FirstOf(k)>>) /\ EntryOf(k).key = k
  <1>1. ASSUME NEW i \in PositionsOf(k)
        PROVE  /\ <<Digest[k], i>> \in Slots /\ At(<<Digest[k], i>>).key = k
               /\ Bucket(Digest[k])[i] = At(<<Digest[k], i>>) /\ i \in Nat
    <2>1. Digest[k] \in DOMAIN entries
      BY DEF PositionsOf, Bucket
    <2>2. Bucket(Digest[k]) = entries[Digest[k]] /\ i \in DOMAIN entries[Digest[k]]
      BY <2>1 DEF PositionsOf, Bucket
    <2>3. entries[Digest[k]] \in Seq(CacheEntry)
      BY <2>1 DEF BucketsAreSound
    <2>4. i \in Nat
      <3> HIDE DEF CacheEntry
      <3> QED
        BY <2>2, <2>3
    <2>5. entries[Digest[k]][i].key = k
      BY <2>2 DEF PositionsOf
    <2> QED
      BY <2>1, <2>2, <2>4, <2>5, SlotIsPosition DEF At
  <1>2. ASSUME NEW s \in Slots, At(s).key = k
        PROVE  s[2] \in PositionsOf(k) /\ s = <<Digest[k], s[2]>>
    <2>1. PICK d \in DOMAIN entries : \E i \in DOMAIN entries[d] : s = <<d, i>>
      BY SlotIsPosition
    <2>2. PICK i \in DOMAIN entries[d] : s = <<d, i>>
      BY <2>1
    <2> QED
      BY <1>2, <2>2 DEF BucketsAreSound, PositionsOf, Bucket, At
  <1>3. \A i, j \in PositionsOf(k) : i = j
    BY <1>1 DEF BucketsAreSound
  <1>4. ASSUME NEW i \in PositionsOf(k)
        PROVE  FirstOf(k) \in PositionsOf(k)
    <2>1. i \in Nat
      BY <1>1
    <2>2. \A j \in PositionsOf(k) : i <= j
      BY <1>3, <2>1
    <2> QED
      BY <2>2 DEF FirstOf
  <1>5. k \in Resident <=> PositionsOf(k) # {}
    BY <1>1, <1>2 DEF Resident
  <1> QED
    BY <1>1, <1>4, <1>5 DEF EntryOf

(* So the entry in a slot is the entry of its key.                         *)
LEMMA EntryOfSlot ==
    BucketsAreSound =>
        /\ \A s \in Slots : At(s).key \in Resident /\ EntryOf(At(s).key) = At(s)
        /\ \A k \in Resident : k \in Keys /\ \E s \in Slots : At(s).key = k
  <1> SUFFICES ASSUME BucketsAreSound
               PROVE  /\ \A s \in Slots : At(s).key \in Resident /\ EntryOf(At(s).key) = At(s)
                      /\ \A k \in Resident : k \in Keys /\ \E s \in Slots : At(s).key = k
    OBVIOUS
  <1>1. ASSUME NEW s \in Slots
        PROVE  At(s).key \in Resident /\ EntryOf(At(s).key) = At(s)
    <2>1. At(s).key \in Resident /\ At(s).key \in Keys
      BY SlotsHoldEntries DEF Resident, CacheEntry
    <2>2. PICK t \in Slots : EntryOf(At(s).key) = At(t) /\ At(t).key = At(s).key
      BY <2>1, FindIsExact
    <2> QED
      BY <2>1, <2>2 DEF BucketsAreSound
  <1>2. \A k \in Resident : k \in Keys /\ \E s \in Slots : At(s).key = k
    BY SlotsHoldEntries DEF Resident, CacheEntry
  <1> QED
    BY <1>1, <1>2

(* The same after a step.                                                  *)
LEMMA EntryOfNextSlot ==
    BucketsAreSound' =>
        /\ (\A s \in Slots : At(s).key \in Resident /\ EntryOf(At(s).key) = At(s))'
        /\ (\A k \in Resident : k \in Keys /\ \E s \in Slots : At(s).key = k)'
  BY EntryOfSlot, PTL

-------------------------------------------------------------------------------
(* What the operations do to the buckets *)

\* An entry as an operation writes it.
IsEntry(e) == e \in CacheEntry /\ e.estimated_bytes = EstimatedBytes(e.key, e.artifact)

(* What is in a bucket.                                                    *)
LEMMA BucketFacts ==
    ASSUME BucketsAreSound, NEW d \in DOMAIN entries
    PROVE  /\ Len(entries[d]) \in Nat /\ DOMAIN entries[d] = 1..Len(entries[d])
           /\ \A i \in DOMAIN entries[d] : entries[d][i] \in CacheEntry
           /\ entries[d] \in Seq(CacheEntry)
           /\ entries[d] \in [DOMAIN entries[d] -> CacheEntry]
  <1>1. entries[d] \in Seq(CacheEntry)
    BY DEF BucketsAreSound
  <1> HIDE DEF CacheEntry
  <1> QED
    BY <1>1

(* Writing over an entry with the same key.                                *)
LEMMA EntryReplaced ==
    ASSUME BucketsAreSound, NEW p \in Slots, NEW e, IsEntry(e), e.key = At(p).key,
           entries' = [entries EXCEPT ![p[1]] = [entries[p[1]] EXCEPT ![p[2]] = e]]
    PROVE  /\ BucketsAreSound' /\ Slots' = Slots
           /\ \A s \in Slots : At(s)' = IF s = p THEN e ELSE At(s)
  <1>1. p[1] \in DOMAIN entries /\ p[2] \in DOMAIN entries[p[1]] /\ p = <<p[1], p[2]>>
    BY SlotIsPosition
  <1>2. DOMAIN entries' = DOMAIN entries
    OBVIOUS
  <1>3. ASSUME NEW d \in DOMAIN entries
        PROVE  /\ DOMAIN entries'[d] = DOMAIN entries[d] /\ entries'[d] \in Seq(CacheEntry)
               /\ \A i \in DOMAIN entries[d] :
                     entries'[d][i] = IF <<d, i>> = p THEN e ELSE entries[d][i]
    <2>1. CASE d = p[1]
      <3>1. entries'[d] = [entries[d] EXCEPT ![p[2]] = e]
        BY <2>1
      <3>2. entries[d] \in Seq(CacheEntry) /\ e \in CacheEntry
        BY BucketFacts DEF IsEntry
      <3>3. entries'[d] \in Seq(CacheEntry)
        <4> HIDE DEF CacheEntry
        <4> QED
          BY <1>1, <2>1, <3>1, <3>2
      <3> QED
        BY <1>1, <2>1, <3>1, <3>3
    <2>2. CASE d # p[1]
      <3>1. entries'[d] = entries[d]
        BY <2>2
      <3> QED
        BY <1>1, <2>2, <3>1, BucketFacts
    <2> QED
      BY <2>1, <2>2
  <1>4. Slots' = Slots
    BY <1>2, <1>3 DEF Slots
  <1>5. ASSUME NEW s \in Slots
        PROVE  At(s)' = IF s = p THEN e ELSE At(s)
    <2>1. PICK d \in DOMAIN entries : \E i \in DOMAIN entries[d] : s = <<d, i>>
      BY SlotIsPosition
    <2>2. PICK i \in DOMAIN entries[d] : s = <<d, i>>
      BY <2>1
    <2> QED
      BY <1>3, <2>2 DEF At
  <1>6. \A s \in Slots : At(s)'.key = At(s).key
    BY <1>5
  <1>7. BucketsAreSound'
    <2>1. IsFiniteSet(DOMAIN entries')
      BY <1>2 DEF BucketsAreSound
    <2>2. \A d \in DOMAIN entries' : entries'[d] \in Seq(CacheEntry)
      BY <1>2, <1>3
    <2>3. \A s \in Slots : s[1] = Digest[At(s)'.key]
      BY <1>6 DEF BucketsAreSound
    <2>4. \A s \in Slots : At(s)'.estimated_bytes = EstimatedBytes(At(s)'.key, At(s)'.artifact)
      BY <1>5 DEF BucketsAreSound, IsEntry
    <2>5. \A s, t \in Slots : At(s)'.key = At(t)'.key => s = t
      BY <1>6 DEF BucketsAreSound
    <2> QED
      BY <1>4, <2>1, <2>2, <2>3, <2>4, <2>5 DEF BucketsAreSound
  <1> QED
    BY <1>4, <1>5, <1>7

\* The slot in which a new entry of k ends up.
NextSlot(k) == <<Digest[k], Len(Bucket(Digest[k])) + 1>>

(* Appending an entry with a new key.                                      *)
LEMMA EntryAppended ==
    ASSUME BucketsAreSound, NEW e, IsEntry(e), e.key \notin Resident,
           entries' = PutBucket(Digest[e.key], Append(Bucket(Digest[e.key]), e))
    PROVE  /\ BucketsAreSound' /\ NextSlot(e.key) \notin Slots
           /\ Slots' = Slots \cup {NextSlot(e.key)}
           /\ \A s \in Slots' : At(s)' = IF s = NextSlot(e.key) THEN e ELSE At(s)
  <1> DEFINE d == Digest[e.key]
             b == Bucket(d)
  <1>0. PICK p : p = NextSlot(e.key)
    OBVIOUS
  <1>1. b \in Seq(CacheEntry) /\ DOMAIN b = 1..Len(b) /\ Len(b) \in Nat
    <2>1. CASE d \in DOMAIN entries
      BY <2>1, BucketFacts DEF Bucket
    <2>2. CASE d \notin DOMAIN entries
      <3>1. b = <<>>
        BY <2>2 DEF Bucket
      <3> HIDE DEF b, CacheEntry
      <3> QED
        BY <3>1
    <2> QED
      BY <2>1, <2>2
  <1>2. DOMAIN b = IF d \in DOMAIN entries THEN DOMAIN entries[d] ELSE {}
    BY <1>1 DEF Bucket
  <1>3. e \in CacheEntry
    BY DEF IsEntry
  <1>4. /\ Append(b, e) \in Seq(CacheEntry) /\ Append(b, e) # <<>>
        /\ DOMAIN Append(b, e) = 1..(Len(b) + 1)
        /\ Append(b, e)[Len(b) + 1] = e
        /\ \A i \in 1..Len(b) : Append(b, e)[i] = b[i]
    <2> HIDE DEF b, CacheEntry
    <2> QED
      BY <1>1, <1>3
  <1>5. /\ DOMAIN entries' = DOMAIN entries \cup {d}
        /\ entries'[d] = Append(b, e)
        /\ \A x \in DOMAIN entries \ {d} : entries'[x] = entries[x]
    <2> HIDE DEF b, d
    <2>1. entries' = [x \in (DOMAIN entries \cup {d}) \ {} |->
                         IF x = d THEN Append(b, e) ELSE entries[x]]
      BY <1>4 DEF PutBucket, b, d
    <2> QED
      BY <2>1
  <1>6. p = <<d, Len(b) + 1>>
    BY <1>0 DEF NextSlot
  <1>7. /\ DOMAIN entries'[d] = DOMAIN b \cup {Len(b) + 1} /\ Len(b) + 1 \notin DOMAIN b
        /\ \A i \in DOMAIN b : entries'[d][i] = b[i]
    BY <1>1, <1>4, <1>5
  <1>8. d \in DOMAIN entries => b = entries[d]
    BY DEF Bucket
  <1> HIDE DEF b, d
  <1>9. p \notin Slots
    BY <1>2, <1>6, <1>7, SlotIsPosition
  <1>10. ASSUME NEW s
         PROVE  s \in Slots' <=> s \in Slots \/ s = p
    <2>1. s \in Slots' <=> \E x \in DOMAIN entries' : \E i \in DOMAIN entries'[x] : s = <<x, i>>
      BY DEF Slots
    <2>2. s \in Slots => s \in Slots'
      BY <1>2, <1>5, <1>7, <2>1, SlotIsPosition
    <2>3. p \in Slots'
      BY <1>5, <1>6, <1>7 DEF Slots
    <2>4. ASSUME s \in Slots'
          PROVE  s \in Slots \/ s = p
      <3>1. PICK x \in DOMAIN entries' : \E i \in DOMAIN entries'[x] : s = <<x, i>>
        BY <2>1, <2>4
      <3>2. PICK i \in DOMAIN entries'[x] : s = <<x, i>>
        BY <3>1
      <3>3. CASE x = d
        BY <1>2, <1>6, <1>7, <3>2, <3>3, SlotIsPosition
      <3>4. CASE x # d
        BY <1>5, <3>2, <3>4, SlotIsPosition
      <3> QED
        BY <3>3, <3>4
    <2> QED
      BY <2>2, <2>3, <2>4
  <1>11. Slots' = Slots \cup {p}
    BY <1>10
  <1>12. At(p)' = e
    BY <1>4, <1>5, <1>6 DEF At
  <1>13. ASSUME NEW s \in Slots
         PROVE  At(s)' = At(s)
    <2>1. PICK x \in DOMAIN entries : \E i \in DOMAIN entries[x] : s = <<x, i>>
      BY SlotIsPosition
    <2>2. PICK i \in DOMAIN entries[x] : s = <<x, i>>
      BY <2>1
    <2>3. CASE x = d
      BY <1>2, <1>7, <1>8, <2>2, <2>3 DEF At
    <2>4. CASE x # d
      BY <1>5, <2>2, <2>4 DEF At
    <2> QED
      BY <2>3, <2>4
  <1>14. \A s \in Slots : At(s).key # e.key
    BY DEF Resident
  <1>15. BucketsAreSound'
    <2>1. IsFiniteSet(DOMAIN entries')
      BY <1>5, FS_AddElement DEF BucketsAreSound
    <2>2. \A x \in DOMAIN entries' : entries'[x] \in Seq(CacheEntry)
      BY <1>4, <1>5 DEF BucketsAreSound
    <2>3. ASSUME NEW s \in Slots'
          PROVE  s[1] = Digest[At(s)'.key]
      <3>1. CASE s = p
        BY <1>6, <1>12, <3>1 DEF d
      <3>2. CASE s \in Slots
        BY <1>13, <3>2 DEF BucketsAreSound
      <3> QED
        BY <1>11, <3>1, <3>2
    <2>4. \A s \in Slots' : At(s)'.estimated_bytes = EstimatedBytes(At(s)'.key, At(s)'.artifact)
      BY <1>11, <1>12, <1>13 DEF BucketsAreSound, IsEntry
    <2>5. \A s, t \in Slots' : At(s)'.key = At(t)'.key => s = t
      BY <1>11, <1>12, <1>13, <1>14 DEF BucketsAreSound
    <2> QED
      BY <2>1, <2>2, <2>3, <2>4, <2>5 DEF BucketsAreSound
  <1> QED
    BY <1>0, <1>9, <1>11, <1>12, <1>13, <1>15

\* Where the entry in a slot was before that of v was taken out.
Moved(v, s) == IF s[1] = v[1] /\ s[2] >= v[2] THEN <<s[1], s[2] + 1>> ELSE s

(* The bucket an entry is taken out of.                                    *)
LEMMA ShorterBucket ==
    ASSUME NEW b \in Seq(CacheEntry), NEW i \in 1..Len(b)
    PROVE  /\ WithoutPosition(b, i) \in Seq(CacheEntry)
           /\ DOMAIN WithoutPosition(b, i) = 1..(Len(b) - 1)
           /\ \A j \in 1..(Len(b) - 1) :
                 WithoutPosition(b, i)[j] = b[IF j >= i THEN j + 1 ELSE j]
  <1> DEFINE n == Len(b)
             w == WithoutPosition(b, i)
  <1>1. n \in Nat /\ DOMAIN b = 1..n /\ \A j \in 1..n : b[j] \in CacheEntry
    <2> HIDE DEF CacheEntry
    <2> QED
      OBVIOUS
  <1>2. i \in 1..n /\ n - 1 \in Nat
    BY <1>1
  <1>3. w = [j \in 1..(n - 1) |-> IF j < i THEN b[j] ELSE b[j + 1]]
    BY DEF WithoutPosition
  <1> HIDE DEF n, w, CacheEntry
  <1>4. \A j \in 1..(n - 1) : j \in 1..n /\ j + 1 \in 1..n /\ (j < i <=> ~(j >= i))
    BY <1>1, <1>2
  <1>5. \A j \in 1..(n - 1) : w[j] = b[IF j >= i THEN j + 1 ELSE j] /\ w[j] \in CacheEntry
    BY <1>1, <1>3, <1>4
  <1>6. w \in [1..(n - 1) -> CacheEntry]
    BY <1>3, <1>5
  <1>7. w \in Seq(CacheEntry)
    BY <1>2, <1>6
  <1> QED
    BY <1>3, <1>5, <1>7 DEF n, w

(* Taking the entry of a slot out.                                         *)
LEMMA EntryRemoved ==
    ASSUME BucketsAreSound, NEW v \in Slots,
           entries' = PutBucket(v[1], WithoutPosition(entries[v[1]], v[2]))
    PROVE  /\ BucketsAreSound'
           /\ \A s \in Slots' : Moved(v, s) \in Slots \ {v} /\ At(s)' = At(Moved(v, s))
           /\ \A t \in Slots \ {v} : \E s \in Slots' : Moved(v, s) = t
  <1>1. PICK d \in DOMAIN entries : \E i \in DOMAIN entries[d] : v = <<d, i>>
    BY SlotIsPosition
  <1>2. PICK i \in DOMAIN entries[d] : v = <<d, i>>
    BY <1>1
  <1>3. PICK b : b = entries[d]
    OBVIOUS
  <1>4. PICK n : n = Len(b)
    OBVIOUS
  <1>5. b \in Seq(CacheEntry) /\ n \in Nat /\ DOMAIN b = 1..n /\ i \in 1..n
    BY <1>2, <1>3, <1>4, BucketFacts
  <1>6. PICK w : w = WithoutPosition(b, i)
    OBVIOUS
  <1>7. /\ w \in Seq(CacheEntry) /\ DOMAIN w = 1..(n - 1)
        /\ \A j \in 1..(n - 1) : w[j] = b[IF j >= i THEN j + 1 ELSE j]
    BY <1>4, <1>5, <1>6, ShorterBucket
  <1>8. entries' = PutBucket(d, w)
    BY <1>2, <1>3, <1>6
  <1>9. /\ \A x \in DOMAIN entries \ {d} : x \in DOMAIN entries' /\ entries'[x] = entries[x]
        /\ DOMAIN entries' \subseteq DOMAIN entries
        /\ d \in DOMAIN entries' => entries'[d] = w
        /\ d \notin DOMAIN entries' => w = <<>>
    BY <1>8 DEF PutBucket
  <1>10. d \notin DOMAIN entries' => n - 1 = 0
    <2>1. ASSUME w = <<>>
          PROVE  1..(n - 1) = {}
      BY <1>7, <2>1
    <2> QED
      BY <1>5, <1>9, <2>1
  <1>11. \A x, j : <<x, j>> \in Slots' <=>
             (x # d /\ <<x, j>> \in Slots) \/ (x = d /\ j \in 1..(n - 1))
    <2> SUFFICES ASSUME NEW x, NEW j
                 PROVE  <<x, j>> \in Slots' <=>
                            (x # d /\ <<x, j>> \in Slots) \/ (x = d /\ j \in 1..(n - 1))
      OBVIOUS
    <2>1. <<x, j>> \in Slots' <=> x \in DOMAIN entries' /\ j \in DOMAIN entries'[x]
      BY DEF Slots
    <2>2. <<x, j>> \in Slots <=> x \in DOMAIN entries /\ j \in DOMAIN entries[x]
      BY DEF Slots
    <2>3. CASE x # d
      BY <1>9, <2>1, <2>2, <2>3
    <2>4. CASE x = d /\ d \in DOMAIN entries'
      BY <1>7, <1>9, <2>1, <2>4
    <2>5. CASE x = d /\ d \notin DOMAIN entries'
      <3>1. 1..(n - 1) = {}
        BY <1>10, <2>5
      <3> QED
        BY <2>1, <2>5, <3>1
    <2> QED
      BY <2>3, <2>4, <2>5
  <1>12. ASSUME NEW s \in Slots'
         PROVE  /\ Moved(v, s) \in Slots \ {v} /\ At(s)' = At(Moved(v, s))
                /\ Moved(v, s)[1] = s[1]
    <2>1. \E x, j : s = <<x, j>>
      BY DEF Slots
    <2>2. PICK x, j : s = <<x, j>>
      BY <2>1
    <2>3. CASE x # d
      <3>1. Moved(v, s) = s /\ s \in Slots /\ s # v
        BY <1>2, <1>11, <2>2, <2>3 DEF Moved
      <3>2. entries'[x] = entries[x]
        BY <1>9, <2>2, <2>3, <3>1, SlotIsPosition
      <3> QED
        BY <2>2, <3>1, <3>2 DEF At
    <2>4. CASE x = d
      <3>1. j \in 1..(n - 1) /\ d \in DOMAIN entries'
        BY <1>5, <1>10, <1>11, <2>2, <2>4
      <3>2. Moved(v, s) = <<d, IF j >= i THEN j + 1 ELSE j>>
        BY <1>2, <2>2, <2>4 DEF Moved
      <3>3. (IF j >= i THEN j + 1 ELSE j) \in 1..n /\ (IF j >= i THEN j + 1 ELSE j) # i
        BY <1>5, <3>1
      <3>4. Moved(v, s) \in Slots
        BY <1>3, <1>5, <3>2, <3>3, SlotIsPosition
      <3>5. At(s)' = w[j]
        BY <1>9, <2>2, <2>4, <3>1 DEF At
      <3>6. At(Moved(v, s)) = b[IF j >= i THEN j + 1 ELSE j]
        BY <1>3, <3>2 DEF At
      <3> QED
        BY <1>2, <1>7, <2>2, <2>4, <3>1, <3>2, <3>3, <3>4, <3>5, <3>6
    <2> QED
      BY <2>3, <2>4
  <1>13. ASSUME NEW t \in Slots \ {v}
         PROVE  \E s \in Slots' : Moved(v, s) = t
    <2>1. PICK x \in DOMAIN entries : \E j \in DOMAIN entries[x] : t = <<x, j>>
      BY SlotIsPosition
    <2>2. PICK j \in DOMAIN entries[x] : t = <<x, j>>
      BY <2>1
    <2>3. CASE x # d
      <3>1. t \in Slots' /\ Moved(v, t) = t
        BY <1>2, <1>11, <2>2, <2>3 DEF Moved
      <3> QED
        BY <3>1
    <2>4. CASE x = d /\ j < i
      <3>1. j \in 1..(n - 1)
        BY <1>3, <1>5, <2>2, <2>4
      <3>2. t \in Slots' /\ Moved(v, t) = t
        BY <1>2, <1>5, <1>11, <2>2, <2>4, <3>1 DEF Moved
      <3> QED
        BY <3>2
    <2>5. CASE x = d /\ ~(j < i)
      <3>1. j # i /\ j \in 1..n
        BY <1>2, <1>3, <1>5, <2>2, <2>5
      <3>2. j - 1 \in 1..(n - 1) /\ j - 1 >= i /\ (j - 1) + 1 = j
        BY <1>5, <2>5, <3>1
      <3>3. <<d, j - 1>> \in Slots' /\ Moved(v, <<d, j - 1>>) = t
        BY <1>2, <1>11, <2>2, <2>5, <3>2 DEF Moved
      <3> QED
        BY <3>3
    <2> QED
      BY <2>3, <2>4, <2>5
  <1>14. \A s, t \in Slots' : Moved(v, s) = Moved(v, t) => s = t
    <2> SUFFICES ASSUME NEW s \in Slots', NEW t \in Slots', Moved(v, s) = Moved(v, t)
                 PROVE  s = t
      OBVIOUS
    <2>1. \E x, j, y, k : s = <<x, j>> /\ t = <<y, k>>
      BY DEF Slots
    <2>2. PICK x, j, y, k : s = <<x, j>> /\ t = <<y, k>>
      BY <2>1
    <2>3. x = y
      BY <1>12, <2>2
    <2>4. CASE x # d
      BY <1>2, <2>2, <2>3, <2>4 DEF Moved
    <2>5. CASE x = d
      <3>1. j \in 1..(n - 1) /\ k \in 1..(n - 1)
        BY <1>11, <2>2, <2>3, <2>5
      <3>2. (IF j >= i THEN j + 1 ELSE j) = (IF k >= i THEN k + 1 ELSE k)
        BY <1>2, <2>2, <2>3, <2>5 DEF Moved
      <3>3. j = k
        BY <1>5, <3>1, <3>2
      <3> QED
        BY <2>2, <2>3, <3>3
    <2> QED
      BY <2>4, <2>5
  <1>15. BucketsAreSound'
    <2>1. IsFiniteSet(DOMAIN entries')
      BY <1>9, FS_Subset DEF BucketsAreSound
    <2>2. \A x \in DOMAIN entries' : entries'[x] \in Seq(CacheEntry)
      BY <1>7, <1>9 DEF BucketsAreSound
    <2>3. \A s \in Slots' : s[1] = Digest[At(s)'.key]
      BY <1>12 DEF BucketsAreSound
    <2>4. \A s \in Slots' : At(s)'.estimated_bytes = EstimatedBytes(At(s)'.key, At(s)'.artifact)
      BY <1>12 DEF BucketsAreSound
    <2>5. \A s, t \in Slots' : At(s)'.key = At(t)'.key => s = t
      BY <1>12, <1>14 DEF BucketsAreSound
    <2> QED
      BY <2>1, <2>2, <2>3, <2>4, <2>5 DEF BucketsAreSound
  <1> QED
    BY <1>12, <1>13, <1>15

-------------------------------------------------------------------------------
(* The map from keys to entries *)

(* What the map is made of.                                                *)
LEMMA ResidentFacts ==
    BucketsAreSound =>
        /\ IsFiniteSet(Resident)
        /\ \A k \in Resident : /\ k \in Keys /\ IsEntry(EntryOf(k)) /\ EntryOf(k).key = k
                               /\ EntryOf(k).artifact \in Artifacts
                               /\ EntryOf(k).estimated_bytes \in Nat
                               /\ EntryOf(k).last_used \in Nat
  <1> SUFFICES ASSUME BucketsAreSound
               PROVE  /\ IsFiniteSet(Resident)
                      /\ \A k \in Resident :
                            /\ k \in Keys /\ IsEntry(EntryOf(k)) /\ EntryOf(k).key = k
                            /\ EntryOf(k).artifact \in Artifacts
                            /\ EntryOf(k).estimated_bytes \in Nat
                            /\ EntryOf(k).last_used \in Nat
    OBVIOUS
  <1>1. IsFiniteSet(Resident)
    <2> DEFINE key == [s \in Slots |-> At(s).key]
    <2>1. key \in Surjection(Slots, Resident)
      BY DEF Surjection, Resident
    <2> HIDE DEF key
    <2> QED
      BY <2>1, SlotsHoldEntries, FS_Surjection
  <1>2. ASSUME NEW k \in Resident
        PROVE  k \in Keys /\ IsEntry(EntryOf(k)) /\ EntryOf(k).key = k
    <2>1. PICK s \in Slots : At(s).key = k
      BY EntryOfSlot
    <2>2. EntryOf(k) = At(s) /\ At(s) \in CacheEntry /\ k \in Keys
      BY <2>1, EntryOfSlot, SlotsHoldEntries
    <2>3. At(s).estimated_bytes = EstimatedBytes(At(s).key, At(s).artifact)
      BY DEF BucketsAreSound
    <2> QED
      BY <2>1, <2>2, <2>3 DEF IsEntry
  <1> QED
    BY <1>1, <1>2 DEF IsEntry, CacheEntry

(* The entry of a resident key is written over.                            *)
LEMMA MapReplaced ==
    ASSUME BucketsAreSound, NEW k \in Resident, NEW e, IsEntry(e), e.key = k,
           entries' = [entries EXCEPT ![Digest[k]] =
                                         [entries[Digest[k]] EXCEPT ![FirstOf(k)] = e]]
    PROVE  /\ BucketsAreSound' /\ Resident' = Resident
           /\ \A x \in Resident : EntryOf(x)' = IF x = k THEN e ELSE EntryOf(x)
  <1>1. PICK p : p = <<Digest[k], FirstOf(k)>>
    OBVIOUS
  <1>2. k \in Keys
    BY EntryOfSlot
  <1>3. p \in Slots /\ At(p).key = k
    BY <1>1, <1>2, FindIsExact
  <1>4. /\ BucketsAreSound' /\ Slots' = Slots
        /\ \A s \in Slots : At(s)' = IF s = p THEN e ELSE At(s)
    BY <1>1, <1>3, EntryReplaced
  <1>5. \A s \in Slots : At(s)'.key = At(s).key
    BY <1>3, <1>4
  <1>6. Resident' = Resident
    BY <1>4, <1>5 DEF Resident
  <1>7. ASSUME NEW x \in Resident
        PROVE  EntryOf(x)' = IF x = k THEN e ELSE EntryOf(x)
    <2>1. PICK s \in Slots : At(s).key = x
      BY EntryOfSlot
    <2>2. EntryOf(x) = At(s)
      BY <2>1, EntryOfSlot
    <2>3. EntryOf(x)' = At(s)'
      BY <1>4, <1>5, <2>1, EntryOfNextSlot
    <2>4. s = p <=> x = k
      BY <1>3, <2>1 DEF BucketsAreSound
    <2> QED
      BY <1>4, <2>2, <2>3, <2>4
  <1> QED
    BY <1>4, <1>6, <1>7

(* An entry is added under a key that was not resident.                    *)
LEMMA MapExtended ==
    ASSUME BucketsAreSound, NEW e, IsEntry(e), e.key \notin Resident,
           entries' = PutBucket(Digest[e.key], Append(Bucket(Digest[e.key]), e))
    PROVE  /\ BucketsAreSound' /\ Resident' = Resident \cup {e.key}
           /\ EntryOf(e.key)' = e
           /\ \A x \in Resident : EntryOf(x)' = EntryOf(x)
  <1>1. PICK p : p = NextSlot(e.key)
    OBVIOUS
  <1>2. /\ BucketsAreSound' /\ p \notin Slots /\ Slots' = Slots \cup {p}
        /\ \A s \in Slots' : At(s)' = IF s = p THEN e ELSE At(s)
    BY <1>1, EntryAppended
  <1>3. Resident' = Resident \cup {e.key}
    <2>1. Resident' = {At(s)'.key : s \in Slots'}
      BY DEF Resident
    <2>2. \A s \in Slots : At(s)' = At(s)
      BY <1>2
    <2>3. p \in Slots'
      BY <1>2
    <2>4. \A s \in Slots' : s = p => At(s)'.key = e.key
      BY <1>2
    <2> QED
      BY <1>2, <2>1, <2>2, <2>3, <2>4 DEF Resident
  <1>4. EntryOf(e.key)' = e
    BY <1>2, EntryOfNextSlot
  <1>5. ASSUME NEW x \in Resident
        PROVE  EntryOf(x)' = EntryOf(x)
    <2>1. PICK s \in Slots : At(s).key = x
      BY EntryOfSlot
    <2>2. EntryOf(x) = At(s)
      BY <2>1, EntryOfSlot
    <2>3. At(s)' = At(s) /\ s \in Slots'
      BY <1>2
    <2>4. EntryOf(x)' = At(s)'
      BY <1>2, <2>1, <2>3, EntryOfNextSlot
    <2> QED
      BY <2>2, <2>3, <2>4
  <1> QED
    BY <1>2, <1>3, <1>4, <1>5

(* The entry of a slot is taken out.                                       *)
LEMMA MapReduced ==
    ASSUME BucketsAreSound, NEW v \in Slots,
           entries' = PutBucket(v[1], WithoutPosition(entries[v[1]], v[2]))
    PROVE  /\ BucketsAreSound' /\ Resident' = Resident \ {At(v).key}
           /\ \A x \in Resident' : EntryOf(x)' = EntryOf(x)
  <1>1. /\ BucketsAreSound'
        /\ \A s \in Slots' : Moved(v, s) \in Slots \ {v} /\ At(s)' = At(Moved(v, s))
        /\ \A t \in Slots \ {v} : \E s \in Slots' : Moved(v, s) = t
    BY EntryRemoved
  <1>2. \A t \in Slots \ {v} : At(t).key # At(v).key
    BY DEF BucketsAreSound
  <1>3. ASSUME NEW x
        PROVE  x \in Resident' <=> x \in Resident /\ x # At(v).key
    <2>1. x \in Resident' <=> \E s \in Slots' : At(s)'.key = x
      BY DEF Resident
    <2>2. x \in Resident <=> \E t \in Slots : At(t).key = x
      BY DEF Resident
    <2>3. ASSUME NEW s \in Slots', At(s)'.key = x
          PROVE  x \in Resident /\ x # At(v).key
      <3>1. At(Moved(v, s)).key = x /\ Moved(v, s) \in Slots \ {v}
        BY <1>1, <2>3
      <3> QED
        BY <1>2, <2>2, <3>1
    <2>4. ASSUME NEW t \in Slots, At(t).key = x, x # At(v).key
          PROVE  \E s \in Slots' : At(s)'.key = x
      <3>1. PICK s \in Slots' : Moved(v, s) = t
        BY <1>1, <2>4
      <3> QED
        BY <1>1, <2>4, <3>1
    <2> QED
      BY <2>1, <2>2, <2>3, <2>4
  <1>4. ASSUME NEW x \in Resident'
        PROVE  EntryOf(x)' = EntryOf(x)
    <2>1. PICK s \in Slots' : At(s)'.key = x
      BY DEF Resident
    <2>2. EntryOf(x)' = At(s)'
      BY <1>1, <2>1, EntryOfNextSlot
    <2>3. At(s)' = At(Moved(v, s)) /\ Moved(v, s) \in Slots
      BY <1>1
    <2>4. EntryOf(x) = At(Moved(v, s))
      BY <2>1, <2>3, EntryOfSlot
    <2> QED
      BY <2>2, <2>3, <2>4
  <1>5. Resident' = Resident \ {At(v).key}
    BY <1>3
  <1> QED
    BY <1>1, <1>4, <1>5

-------------------------------------------------------------------------------
(* The running totals *)

EntryWeights == [k \in Resident |-> EntryOf(k).estimated_bytes]
KeyWeights == [k \in Resident |-> KeyBytes[k]]
PlanWeights == [k \in Resident |-> ArtifactBytes[EntryOf(k).artifact]]

TotalsAreExact ==
    /\ entry_count = Cardinality(Resident)
    /\ resident_bytes = SumFunction(EntryWeights)
    /\ resident_key_bytes = SumFunction(KeyWeights)
    /\ resident_artifact_bytes = SumFunction(PlanWeights)

(* What is summed are naturals.                                            *)
LEMMA WeightsAreNatural ==
    BucketsAreSound =>
        /\ IsFiniteSet(Resident)
        /\ \A k \in Resident :
              EntryWeights[k] \in Nat /\ KeyWeights[k] \in Nat /\ PlanWeights[k] \in Nat
  BY ResidentFacts, CacheAssumption DEF EntryWeights, KeyWeights, PlanWeights

(* The same after a step.                                                  *)
LEMMA NextWeightsAreNatural ==
    BucketsAreSound' =>
        /\ (IsFiniteSet(Resident))'
        /\ (\A k \in Resident :
              EntryWeights[k] \in Nat /\ KeyWeights[k] \in Nat /\ PlanWeights[k] \in Nat)'
  BY WeightsAreNatural, PTL

(* The totals after an entry is written over.                              *)
LEMMA TotalsWhenReplaced ==
    ASSUME BucketsAreSound, BucketsAreSound', TotalsAreExact, NEW k \in Resident, NEW e,
           Resident' = Resident,
           \A x \in Resident : EntryOf(x)' = IF x = k THEN e ELSE EntryOf(x),
           entry_count' = entry_count,
           resident_bytes' = resident_bytes - EntryOf(k).estimated_bytes + e.estimated_bytes,
           resident_key_bytes' = resident_key_bytes,
           resident_artifact_bytes' =
               resident_artifact_bytes - ArtifactBytes[EntryOf(k).artifact]
                                       + ArtifactBytes[e.artifact]
    PROVE  TotalsAreExact'
  <1>1. IsFiniteSet(Resident)
    BY WeightsAreNatural
  <1>2. resident_bytes' = SumFunction(EntryWeights')
    <2>1. /\ DOMAIN EntryWeights = Resident /\ DOMAIN EntryWeights' = Resident
          /\ \A x \in Resident : EntryWeights[x] \in Nat /\ EntryWeights'[x] \in Nat
      BY WeightsAreNatural, NextWeightsAreNatural DEF EntryWeights
    <2>2. /\ EntryWeights[k] = EntryOf(k).estimated_bytes /\ EntryWeights'[k] = e.estimated_bytes
          /\ \A x \in Resident \ {k} : EntryWeights'[x] = EntryWeights[x]
      BY DEF EntryWeights
    <2>3. SumFunction(EntryWeights')
              = SumFunction(EntryWeights) - EntryWeights[k] + EntryWeights'[k]
      BY <1>1, <2>1, <2>2, SumWithOneChanged
    <2> QED
      BY <2>2, <2>3 DEF TotalsAreExact
  <1>3. resident_key_bytes' = SumFunction(KeyWeights')
    BY DEF TotalsAreExact, KeyWeights
  <1>4. resident_artifact_bytes' = SumFunction(PlanWeights')
    <2>1. /\ DOMAIN PlanWeights = Resident /\ DOMAIN PlanWeights' = Resident
          /\ \A x \in Resident : PlanWeights[x] \in Nat /\ PlanWeights'[x] \in Nat
      BY WeightsAreNatural, NextWeightsAreNatural DEF PlanWeights
    <2>2. /\ PlanWeights[k] = ArtifactBytes[EntryOf(k).artifact]
          /\ PlanWeights'[k] = ArtifactBytes[e.artifact]
          /\ \A x \in Resident \ {k} : PlanWeights'[x] = PlanWeights[x]
      BY DEF PlanWeights
    <2>3. SumFunction(PlanWeights') = SumFunction(PlanWeights) - PlanWeights[k] + PlanWeights'[k]
      BY <1>1, <2>1, <2>2, SumWithOneChanged
    <2> QED
      BY <2>2, <2>3 DEF TotalsAreExact
  <1> QED
    BY <1>2, <1>3, <1>4 DEF TotalsAreExact

(* The totals after an entry is added.                                     *)
LEMMA TotalsWhenExtended ==
    ASSUME BucketsAreSound, BucketsAreSound', TotalsAreExact, NEW k, k \notin Resident, NEW e,
           Resident' = Resident \cup {k}, EntryOf(k)' = e,
           \A x \in Resident : EntryOf(x)' = EntryOf(x),
           entry_count' = entry_count + 1,
           resident_bytes' = resident_bytes + e.estimated_bytes,
           resident_key_bytes' = resident_key_bytes + KeyBytes[k],
           resident_artifact_bytes' = resident_artifact_bytes + ArtifactBytes[e.artifact]
    PROVE  TotalsAreExact'
  <1>1. IsFiniteSet(Resident)
    BY WeightsAreNatural
  <1>2. resident_bytes' = SumFunction(EntryWeights')
    <2>1. /\ DOMAIN EntryWeights = Resident /\ DOMAIN EntryWeights' = Resident \cup {k}
          /\ \A x \in Resident \cup {k} : EntryWeights'[x] \in Nat
      BY NextWeightsAreNatural DEF EntryWeights
    <2>2. /\ EntryWeights'[k] = e.estimated_bytes
          /\ \A x \in Resident : EntryWeights'[x] = EntryWeights[x]
      BY DEF EntryWeights
    <2>3. SumFunction(EntryWeights') = SumFunction(EntryWeights) + EntryWeights'[k]
      BY <1>1, <2>1, <2>2, SumWithOneMore
    <2> QED
      BY <2>2, <2>3 DEF TotalsAreExact
  <1>3. resident_key_bytes' = SumFunction(KeyWeights')
    <2>1. /\ DOMAIN KeyWeights = Resident /\ DOMAIN KeyWeights' = Resident \cup {k}
          /\ \A x \in Resident \cup {k} : KeyWeights'[x] \in Nat
      BY NextWeightsAreNatural DEF KeyWeights
    <2>2. /\ KeyWeights'[k] = KeyBytes[k]
          /\ \A x \in Resident : KeyWeights'[x] = KeyWeights[x]
      BY DEF KeyWeights
    <2>3. SumFunction(KeyWeights') = SumFunction(KeyWeights) + KeyWeights'[k]
      BY <1>1, <2>1, <2>2, SumWithOneMore
    <2> QED
      BY <2>2, <2>3 DEF TotalsAreExact
  <1>4. resident_artifact_bytes' = SumFunction(PlanWeights')
    <2>1. /\ DOMAIN PlanWeights = Resident /\ DOMAIN PlanWeights' = Resident \cup {k}
          /\ \A x \in Resident \cup {k} : PlanWeights'[x] \in Nat
      BY NextWeightsAreNatural DEF PlanWeights
    <2>2. /\ PlanWeights'[k] = ArtifactBytes[e.artifact]
          /\ \A x \in Resident : PlanWeights'[x] = PlanWeights[x]
      BY DEF PlanWeights
    <2>3. SumFunction(PlanWeights') = SumFunction(PlanWeights) + PlanWeights'[k]
      BY <1>1, <2>1, <2>2, SumWithOneMore
    <2> QED
      BY <2>2, <2>3 DEF TotalsAreExact
  <1>5. entry_count' = Cardinality(Resident')
    BY <1>1, FS_AddElement DEF TotalsAreExact
  <1> QED
    BY <1>2, <1>3, <1>4, <1>5 DEF TotalsAreExact

(* The totals after an entry is taken out: no subtraction saturates.       *)
LEMMA TotalsWhenReduced ==
    ASSUME BucketsAreSound, BucketsAreSound', TotalsAreExact, NEW k \in Resident,
           Resident' = Resident \ {k},
           \A x \in Resident' : EntryOf(x)' = EntryOf(x),
           entry_count' = entry_count - 1,
           resident_bytes' = Less(resident_bytes, EntryOf(k).estimated_bytes),
           resident_key_bytes' = Less(resident_key_bytes, KeyBytes[k]),
           resident_artifact_bytes' =
               Less(resident_artifact_bytes, ArtifactBytes[EntryOf(k).artifact])
    PROVE  TotalsAreExact'
  <1>1. IsFiniteSet(Resident) /\ IsFiniteSet(Resident') /\ Resident = Resident' \cup {k}
    BY WeightsAreNatural, NextWeightsAreNatural
  <1>2. resident_bytes' = SumFunction(EntryWeights')
    <2>1. /\ DOMAIN EntryWeights = Resident /\ DOMAIN EntryWeights' = Resident'
          /\ \A x \in Resident : EntryWeights[x] \in Nat
      BY WeightsAreNatural DEF EntryWeights
    <2>2. /\ EntryWeights[k] = EntryOf(k).estimated_bytes
          /\ \A x \in Resident' : EntryWeights[x] = EntryWeights'[x]
      BY <1>1 DEF EntryWeights
    <2>3. /\ SumFunction(EntryWeights) = SumFunction(EntryWeights') + EntryWeights[k]
          /\ SumFunction(EntryWeights') \in Nat /\ EntryWeights[k] \in Nat
      BY <1>1, <2>1, <2>2, SumWithOneMore
    <2> QED
      BY <2>2, <2>3 DEF TotalsAreExact, Less
  <1>3. resident_key_bytes' = SumFunction(KeyWeights')
    <2>1. /\ DOMAIN KeyWeights = Resident /\ DOMAIN KeyWeights' = Resident'
          /\ \A x \in Resident : KeyWeights[x] \in Nat
      BY WeightsAreNatural DEF KeyWeights
    <2>2. /\ KeyWeights[k] = KeyBytes[k]
          /\ \A x \in Resident' : KeyWeights[x] = KeyWeights'[x]
      BY <1>1 DEF KeyWeights
    <2>3. /\ SumFunction(KeyWeights) = SumFunction(KeyWeights') + KeyWeights[k]
          /\ SumFunction(KeyWeights') \in Nat /\ KeyWeights[k] \in Nat
      BY <1>1, <2>1, <2>2, SumWithOneMore
    <2> QED
      BY <2>2, <2>3 DEF TotalsAreExact, Less
  <1>4. resident_artifact_bytes' = SumFunction(PlanWeights')
    <2>1. /\ DOMAIN PlanWeights = Resident /\ DOMAIN PlanWeights' = Resident'
          /\ \A x \in Resident : PlanWeights[x] \in Nat
      BY WeightsAreNatural DEF PlanWeights
    <2>2. /\ PlanWeights[k] = ArtifactBytes[EntryOf(k).artifact]
          /\ \A x \in Resident' : PlanWeights[x] = PlanWeights'[x]
      BY <1>1 DEF PlanWeights
    <2>3. /\ SumFunction(PlanWeights) = SumFunction(PlanWeights') + PlanWeights[k]
          /\ SumFunction(PlanWeights') \in Nat /\ PlanWeights[k] \in Nat
      BY <1>1, <2>1, <2>2, SumWithOneMore
    <2> QED
      BY <2>2, <2>3 DEF TotalsAreExact, Less
  <1>5. entry_count' = Cardinality(Resident')
    BY <1>1, FS_RemoveElement DEF TotalsAreExact
  <1> QED
    BY <1>2, <1>3, <1>4, <1>5 DEF TotalsAreExact

-------------------------------------------------------------------------------
(* The invariant *)

\* No two entries were used at the same time, and none in the future.
UsesAreOrdered ==
    /\ clock \in Nat
    /\ \A k \in Resident : EntryOf(k).last_used <= clock
    /\ \A j, k \in Resident : EntryOf(j).last_used = EntryOf(k).last_used => j = k

\* Between calls the bounds hold; while they are enforced, the plan inserted
\* last is still there, and would fit alone.
BoundsHold ==
    /\ enforcing \in BOOLEAN
    /\ ~enforcing => ~OverLimits
    /\ enforcing => /\ MaxEntries >= 1
                    /\ \E k \in Resident : /\ EntryOf(k).last_used = clock
                                           /\ EntryOf(k).estimated_bytes <= MaxBytes

CacheInv == BucketsAreSound /\ TotalsAreExact /\ UsesAreOrdered /\ BoundsHold

\* The map the buckets stand for.
Plan == [k \in Resident |-> EntryOf(k).artifact]
Used == [k \in Resident |-> EntryOf(k).last_used]

(* The totals are naturals, and below the bounds exactly if the map is.    *)
LEMMA TotalsAreOfTheMap ==
    ASSUME BucketsAreSound, TotalsAreExact
    PROVE  /\ entry_count \in Nat /\ resident_bytes \in Nat
           /\ resident_key_bytes \in Nat /\ resident_artifact_bytes \in Nat
           /\ ExceedsLimits(Plan) <=> OverLimits
  <1>1. /\ entry_count \in Nat /\ resident_bytes \in Nat
        /\ resident_key_bytes \in Nat /\ resident_artifact_bytes \in Nat
    <2>1. /\ DOMAIN EntryWeights = Resident /\ DOMAIN KeyWeights = Resident
          /\ DOMAIN PlanWeights = Resident
      BY DEF EntryWeights, KeyWeights, PlanWeights
    <2>2. IsFiniteSet(Resident) /\ Cardinality(Resident) \in Nat
      BY WeightsAreNatural, FS_CardinalityType
    <2> QED
      BY <2>1, <2>2, WeightsAreNatural, SumIsNatural DEF TotalsAreExact
  <1>2. DOMAIN Plan = Resident /\ \A k \in Resident : Plan[k] = EntryOf(k).artifact
    BY DEF Plan
  <1>3. [k \in DOMAIN Plan |-> EstimatedBytes(k, Plan[k])] = EntryWeights
    <2>1. \A k \in Resident : EstimatedBytes(k, Plan[k]) = EntryOf(k).estimated_bytes
      BY <1>2, ResidentFacts DEF IsEntry
    <2> QED
      BY <1>2, <2>1 DEF EntryWeights
  <1> QED
    BY <1>1, <1>2, <1>3 DEF ExceedsLimits, OverLimits, TotalsAreExact

(* The uses after one key was used.                                        *)
LEMMA UsesWhenUsed ==
    ASSUME BucketsAreSound, UsesAreOrdered, clock' = clock + 1, NEW k, k \in Resident',
           EntryOf(k)'.last_used = clock + 1,
           \A x \in Resident' \ {k} : x \in Resident /\ EntryOf(x)' = EntryOf(x)
    PROVE  UsesAreOrdered'
  <1>1. \A x \in Resident : EntryOf(x).last_used \in Nat
    BY ResidentFacts
  <1>2. \A x \in Resident' \ {k} : EntryOf(x)'.last_used \in Nat /\ EntryOf(x)'.last_used <= clock
    BY <1>1 DEF UsesAreOrdered
  <1>3. \A x, y \in Resident' : EntryOf(x)'.last_used = EntryOf(y)'.last_used => x = y
    <2> SUFFICES ASSUME NEW x \in Resident', NEW y \in Resident',
                        EntryOf(x)'.last_used = EntryOf(y)'.last_used
                 PROVE  x = y
      OBVIOUS
    <2>1. CASE x = k \/ y = k
      BY <1>2, <2>1 DEF UsesAreOrdered
    <2>2. CASE x # k /\ y # k
      BY <2>2 DEF UsesAreOrdered
    <2> QED
      BY <2>1, <2>2
  <1>4. clock' \in Nat /\ \A x \in Resident' : EntryOf(x)'.last_used <= clock'
    BY <1>2 DEF UsesAreOrdered
  <1> QED
    BY <1>3, <1>4 DEF UsesAreOrdered

(* A cache without buckets is in order.                                    *)
LEMMA NoBuckets ==
    entries = EmptyBuckets => BucketsAreSound /\ Slots = {} /\ Resident = {}
  <1> SUFFICES ASSUME entries = EmptyBuckets
               PROVE  BucketsAreSound /\ Slots = {} /\ Resident = {}
    OBVIOUS
  <1>1. DOMAIN entries = {}
    BY DEF EmptyBuckets
  <1>2. Slots = {} /\ Resident = {}
    BY <1>1, SlotIsPosition DEF Resident
  <1>3. IsFiniteSet(DOMAIN entries)
    BY <1>1, FS_EmptySet
  <1> QED
    BY <1>1, <1>2, <1>3 DEF BucketsAreSound

(* The same after a step.                                                  *)
LEMMA NoBucketsNext ==
    (entries = EmptyBuckets)' => BucketsAreSound' /\ (Slots = {})' /\ (Resident = {})'
  BY NoBuckets, PTL

(* Totals of zero are those of a cache without entries.                    *)
LEMMA NoTotals ==
    /\ Resident = {} /\ entry_count = 0 /\ resident_bytes = 0
    /\ resident_key_bytes = 0 /\ resident_artifact_bytes = 0
    => TotalsAreExact /\ ~OverLimits
  <1> SUFFICES ASSUME Resident = {}, entry_count = 0, resident_bytes = 0,
                      resident_key_bytes = 0, resident_artifact_bytes = 0
               PROVE  TotalsAreExact /\ ~OverLimits
    OBVIOUS
  <1>1. /\ DOMAIN EntryWeights = {} /\ DOMAIN KeyWeights = {} /\ DOMAIN PlanWeights = {}
    BY DEF EntryWeights, KeyWeights, PlanWeights
  <1>2. Cardinality(Resident) = 0
    BY FS_EmptySet
  <1>3. ~OverLimits
    BY CacheAssumption DEF OverLimits
  <1> QED
    BY <1>1, <1>2, <1>3, SumOfNothing DEF TotalsAreExact

(* The same after a step.                                                  *)
LEMMA NoTotalsNext ==
    (/\ Resident = {} /\ entry_count = 0 /\ resident_bytes = 0
     /\ resident_key_bytes = 0 /\ resident_artifact_bytes = 0)'
    => TotalsAreExact' /\ (~OverLimits)'
  BY NoTotals, PTL

-------------------------------------------------------------------------------
(* The steps of the cache are steps of the map *)

(* The first state is the empty map.                                       *)
LEMMA InitIsEmpty ==
    ASSUME Init
    PROVE  CacheInv /\ Lru!Init
  <1>1. BucketsAreSound /\ Slots = {} /\ Resident = {}
    BY NoBuckets DEF Init
  <1>2. TotalsAreExact /\ ~OverLimits
    BY <1>1, NoTotals DEF Init
  <1>3. UsesAreOrdered /\ BoundsHold
    BY <1>1, <1>2 DEF Init, UsesAreOrdered, BoundsHold
  <1> QED
    BY <1>1, <1>2, <1>3 DEF CacheInv, Lru!Init, Init

(* A lookup finds the entry of the key and refreshes it, or finds nothing. *)
LEMMA LookupStep ==
    ASSUME CacheInv, NEW k \in Keys, Lookup(k)
    PROVE  CacheInv' /\ (Lru!Hit(k) \/ Lru!Miss(k))
  <1>1. /\ ~enforcing /\ ~OverLimits /\ clock \in Nat /\ clock' = clock + 1
        /\ UNCHANGED <<occupancy, enforcing>>
    BY DEF Lookup, Tick, CacheInv, BoundsHold, UsesAreOrdered
  <1>2. ~ExceedsLimits(Plan)
    BY <1>1, TotalsAreOfTheMap DEF CacheInv
  <1>3. CASE k \in Resident
    <2>1. PICK e : e = [EntryOf(k) EXCEPT !.last_used = clock + 1]
      OBVIOUS
    <2>2. /\ EntryOf(k) \in CacheEntry /\ EntryOf(k).key = k
          /\ EntryOf(k).estimated_bytes = EstimatedBytes(k, EntryOf(k).artifact)
          /\ EntryOf(k).estimated_bytes \in Nat
      BY <1>3, ResidentFacts DEF CacheInv, IsEntry
    <2>3. /\ IsEntry(e) /\ e.key = k /\ e.last_used = clock + 1
          /\ e.artifact = EntryOf(k).artifact /\ e.estimated_bytes = EntryOf(k).estimated_bytes
      BY <1>1, <2>1, <2>2 DEF IsEntry, CacheEntry
    <2>4. /\ PositionsOf(k) # {} /\ <<Digest[k], FirstOf(k)>> \in Slots
          /\ EntryOf(k) = At(<<Digest[k], FirstOf(k)>>)
      BY <1>3, FindIsExact DEF CacheInv
    <2>5. entries' = [entries EXCEPT ![Digest[k]] =
                                        [entries[Digest[k]] EXCEPT ![FirstOf(k)] = e]]
      <3>1. entries' = [entries EXCEPT ![Digest[k]][FirstOf(k)].last_used = clock + 1]
        BY <2>4 DEF Lookup
      <3>2. e = [entries[Digest[k]][FirstOf(k)] EXCEPT !.last_used = clock + 1]
        BY <2>1, <2>4 DEF At
      <3> QED
        BY <3>1, <3>2
    <2>6. found' = EntryOf(k).artifact
      BY <2>4 DEF Lookup, EntryOf
    <2>7. /\ BucketsAreSound' /\ Resident' = Resident
          /\ \A x \in Resident : EntryOf(x)' = IF x = k THEN e ELSE EntryOf(x)
      BY <1>3, <2>3, <2>5, MapReplaced DEF CacheInv
    <2>8. TotalsAreExact'
      <3>1. /\ resident_bytes \in Nat /\ resident_artifact_bytes \in Nat
            /\ ArtifactBytes[EntryOf(k).artifact] \in Nat
        <4>1. EntryOf(k).artifact \in Artifacts
          BY <1>3, ResidentFacts DEF CacheInv
        <4> QED
          BY <4>1, TotalsAreOfTheMap, CacheAssumption DEF CacheInv
      <3>2. /\ resident_bytes' = resident_bytes - EntryOf(k).estimated_bytes + e.estimated_bytes
            /\ resident_artifact_bytes' =
                   resident_artifact_bytes - ArtifactBytes[EntryOf(k).artifact]
                                           + ArtifactBytes[e.artifact]
            /\ resident_key_bytes' = resident_key_bytes /\ entry_count' = entry_count
        BY <1>1, <2>2, <2>3, <3>1 DEF occupancy
      <3> QED
        BY <1>3, <2>7, <3>2, TotalsWhenReplaced DEF CacheInv
    <2>9. UsesAreOrdered'
      <3>1. k \in Resident' /\ EntryOf(k)'.last_used = clock + 1
        BY <1>3, <2>3, <2>7
      <3>2. \A x \in Resident' \ {k} : x \in Resident /\ EntryOf(x)' = EntryOf(x)
        BY <2>7
      <3> QED
        BY <1>1, <3>1, <3>2, UsesWhenUsed DEF CacheInv
    <2>10. BoundsHold'
      BY <1>1 DEF occupancy, OverLimits, CacheInv, BoundsHold
    <2>11. Plan' = Plan
      BY <2>3, <2>7 DEF Plan
    <2>12. Used' = [Used EXCEPT ![k] = clock + 1]
      <3>1. \A x \in Resident : EntryOf(x)'.last_used =
                                    IF x = k THEN clock + 1 ELSE EntryOf(x).last_used
        BY <2>3, <2>7
      <3> QED
        BY <2>7, <3>1 DEF Used
    <2>13. Lru!Hit(k)
      <3>1. k \in DOMAIN Plan /\ found' = Plan[k]
        BY <1>3, <2>6 DEF Plan
      <3> QED
        BY <1>1, <1>2, <2>11, <2>12, <3>1 DEF Lru!Hit, Plan, Used
    <2> QED
      BY <2>7, <2>8, <2>9, <2>10, <2>13 DEF CacheInv
  <1>4. CASE k \notin Resident
    <2>1. PositionsOf(k) = {}
      BY <1>4, FindIsExact DEF CacheInv
    <2>2. UNCHANGED entries /\ found' = None
      BY <2>1 DEF Lookup
    <2>3. Resident' = Resident /\ \A x \in Resident : EntryOf(x)' = EntryOf(x)
      BY <2>2 DEF Resident, EntryOf, Slots, At, Bucket, FirstOf, PositionsOf
    <2>4. BucketsAreSound'
      BY <2>2 DEF CacheInv, BucketsAreSound, Slots, At
    <2>5. TotalsAreExact'
      BY <1>1, <2>3 DEF CacheInv, TotalsAreExact, occupancy, EntryWeights, KeyWeights, PlanWeights
    <2>6. UsesAreOrdered'
      <3>1. \A x \in Resident : EntryOf(x).last_used \in Nat
        BY ResidentFacts DEF CacheInv
      <3> QED
        BY <1>1, <2>3, <3>1 DEF CacheInv, UsesAreOrdered
    <2>7. BoundsHold'
      BY <1>1 DEF occupancy, OverLimits, CacheInv, BoundsHold
    <2>8. Lru!Miss(k)
      <3>1. Plan' = Plan /\ Used' = Used /\ k \notin DOMAIN Plan
        BY <1>4, <2>3 DEF Plan, Used
      <3> QED
        BY <1>1, <1>2, <2>2, <3>1 DEF Lru!Miss, Plan, Used
    <2> QED
      BY <2>4, <2>5, <2>6, <2>7, <2>8 DEF CacheInv
  <1> QED
    BY <1>3, <1>4

(* A plan that could never fit is refused.                                 *)
LEMMA InsertBypassStep ==
    ASSUME CacheInv, NEW k \in Keys, NEW a \in Artifacts, InsertBypass(k, a)
    PROVE  CacheInv' /\ Lru!Refuse
  <1>1. ~enforcing /\ ~OverLimits /\ found' = None /\ UNCHANGED <<entries, occupancy, clock, enforcing>>
    BY DEF InsertBypass, CacheInv, BoundsHold
  <1>2. ~ExceedsLimits(Plan)
    BY <1>1, TotalsAreOfTheMap DEF CacheInv
  <1>3. Resident' = Resident /\ \A x \in Resident : EntryOf(x)' = EntryOf(x)
    BY <1>1 DEF Resident, EntryOf, Slots, At, Bucket, FirstOf, PositionsOf
  <1>4. BucketsAreSound'
    BY <1>1 DEF CacheInv, BucketsAreSound, Slots, At
  <1>5. TotalsAreExact'
    BY <1>1, <1>3 DEF CacheInv, TotalsAreExact, occupancy, EntryWeights, KeyWeights, PlanWeights
  <1>6. UsesAreOrdered'
    BY <1>1, <1>3 DEF CacheInv, UsesAreOrdered
  <1>7. BoundsHold'
    BY <1>1 DEF occupancy, OverLimits, CacheInv, BoundsHold
  <1>8. Plan' = Plan /\ Used' = Used
    BY <1>3 DEF Plan, Used
  <1> QED
    BY <1>1, <1>2, <1>4, <1>5, <1>6, <1>7, <1>8 DEF CacheInv, Lru!Refuse, Plan, Used

\* An entry as insert writes it now.
IsNewEntry(e, k, a) ==
    /\ IsEntry(e) /\ e.key = k /\ e.artifact = a /\ e.last_used = clock + 1
    /\ e.estimated_bytes = EstimatedBytes(k, a) /\ EstimatedBytes(k, a) \in Nat
    /\ EstimatedBytes(k, a) <= MaxBytes /\ MaxEntries >= 1

(* insert writes an entry that fits.                                       *)
LEMMA NewEntryFits ==
    ASSUME CacheInv, NEW k \in Keys, NEW a \in Artifacts, ~MustBypass(k, a)
    PROVE  IsNewEntry(NewEntry(k, a), k, a)
  <1>1. EstimatedBytes(k, a) \in Nat
    BY CacheAssumption DEF EstimatedBytes
  <1>2. EstimatedBytes(k, a) <= MaxBytes /\ MaxEntries >= 1
    BY <1>1, CacheAssumption DEF MustBypass
  <1>3. clock + 1 \in Nat
    BY DEF CacheInv, UsesAreOrdered
  <1> QED
    BY <1>1, <1>2, <1>3 DEF IsNewEntry, IsEntry, NewEntry, CacheEntry

(* What is left to show when a plan has been stored.                       *)
LEMMA StoreStep ==
    ASSUME CacheInv, NEW k \in Keys, NEW a \in Artifacts, NEW e, IsNewEntry(e, k, a),
           ~enforcing, enforcing', clock' = clock + 1, found' = None,
           BucketsAreSound', TotalsAreExact', Resident' = Resident \cup {k}, EntryOf(k)' = e,
           \A x \in Resident \ {k} : EntryOf(x)' = EntryOf(x)
    PROVE  CacheInv' /\ Lru!Store(k, a)
  <1>1. UsesAreOrdered'
    <2>1. k \in Resident' /\ EntryOf(k)'.last_used = clock + 1
      BY DEF IsNewEntry
    <2>2. \A x \in Resident' \ {k} : x \in Resident /\ EntryOf(x)' = EntryOf(x)
      OBVIOUS
    <2> QED
      BY <2>1, <2>2, UsesWhenUsed DEF CacheInv
  <1>2. BoundsHold'
    <2>1. k \in Resident' /\ EntryOf(k)'.last_used = clock' /\ EntryOf(k)'.estimated_bytes <= MaxBytes
      BY DEF IsNewEntry
    <2>2. MaxEntries >= 1
      BY DEF IsNewEntry
    <2> QED
      BY <2>1, <2>2 DEF BoundsHold
  <1>3. ~ExceedsLimits(Plan)
    BY TotalsAreOfTheMap DEF CacheInv, BoundsHold
  <1>4. Plan' = Lru!Extend(Plan, k, a)
    <2>1. EntryOf(k)'.artifact = a
      BY DEF IsNewEntry
    <2>2. \A x \in Resident \cup {k} : EntryOf(x)'.artifact = IF x = k THEN a ELSE Plan[x]
      BY <2>1 DEF Plan
    <2>3. DOMAIN Plan = Resident
      BY DEF Plan
    <2>4. Lru!Extend(Plan, k, a) = [x \in Resident \cup {k} |-> IF x = k THEN a ELSE Plan[x]]
      BY <2>3 DEF Lru!Extend
    <2>5. Plan' = [x \in Resident \cup {k} |-> EntryOf(x)'.artifact]
      BY DEF Plan
    <2> QED
      BY <2>2, <2>4, <2>5
  <1>5. Used' = Lru!Extend(Used, k, clock + 1)
    <2>1. EntryOf(k)'.last_used = clock + 1
      BY DEF IsNewEntry
    <2>2. \A x \in Resident \cup {k} :
              EntryOf(x)'.last_used = IF x = k THEN clock + 1 ELSE Used[x]
      BY <2>1 DEF Used
    <2>3. DOMAIN Used = Resident
      BY DEF Used
    <2>4. Lru!Extend(Used, k, clock + 1) =
              [x \in Resident \cup {k} |-> IF x = k THEN clock + 1 ELSE Used[x]]
      BY <2>3 DEF Lru!Extend
    <2>5. Used' = [x \in Resident \cup {k} |-> EntryOf(x)'.last_used]
      BY DEF Used
    <2> QED
      BY <2>2, <2>4, <2>5
  <1>6. Lru!Store(k, a)
    BY <1>3, <1>4, <1>5 DEF Lru!Store, Plan, Used
  <1> QED
    BY <1>1, <1>2, <1>6 DEF CacheInv

(* A plan stored over an older one of the same key.                        *)
LEMMA InsertReplaceStep ==
    ASSUME CacheInv, NEW k \in Keys, NEW a \in Artifacts, InsertReplace(k, a)
    PROVE  CacheInv' /\ Lru!Store(k, a)
  <1>1. PICK e : e = NewEntry(k, a)
    OBVIOUS
  <1>2. IsNewEntry(e, k, a)
    BY <1>1, NewEntryFits DEF InsertReplace
  <1>3. /\ k \in Resident /\ <<Digest[k], FirstOf(k)>> \in Slots
        /\ EntryOf(k).key = k /\ Bucket(Digest[k])[FirstOf(k)] = EntryOf(k)
    BY FindIsExact DEF InsertReplace, CacheInv, EntryOf
  <1>4. entries' = [entries EXCEPT ![Digest[k]] = [entries[Digest[k]] EXCEPT ![FirstOf(k)] = e]]
    BY <1>1 DEF InsertReplace
  <1>5. /\ BucketsAreSound' /\ Resident' = Resident
        /\ \A x \in Resident : EntryOf(x)' = IF x = k THEN e ELSE EntryOf(x)
    BY <1>2, <1>3, <1>4, MapReplaced DEF CacheInv, IsNewEntry
  <1>6. TotalsAreExact'
    <2>1. resident_key_bytes \in Nat /\ KeyBytes[k] \in Nat
      BY TotalsAreOfTheMap, CacheAssumption DEF CacheInv
    <2>2. /\ resident_bytes' = resident_bytes - EntryOf(k).estimated_bytes + e.estimated_bytes
          /\ resident_artifact_bytes' =
                 resident_artifact_bytes - ArtifactBytes[EntryOf(k).artifact]
                                         + ArtifactBytes[e.artifact]
          /\ resident_key_bytes' = resident_key_bytes - KeyBytes[k] + KeyBytes[k]
          /\ entry_count' = entry_count
      BY <1>2, <1>3 DEF InsertReplace, IsNewEntry
    <2>3. resident_key_bytes' = resident_key_bytes
      BY <2>1, <2>2
    <2> QED
      BY <1>3, <1>5, <2>2, <2>3, TotalsWhenReplaced DEF CacheInv
  <1>7. /\ ~enforcing /\ enforcing' /\ clock' = clock + 1 /\ found' = None
    BY DEF InsertReplace, Tick
  <1>8. /\ Resident' = Resident \cup {k} /\ EntryOf(k)' = e
        /\ \A x \in Resident \ {k} : EntryOf(x)' = EntryOf(x)
    BY <1>3, <1>5
  <1> QED
    BY <1>2, <1>5, <1>6, <1>7, <1>8, StoreStep

(* A plan stored under a key that was not resident.                        *)
LEMMA InsertNewStep ==
    ASSUME CacheInv, NEW k \in Keys, NEW a \in Artifacts, InsertNew(k, a)
    PROVE  CacheInv' /\ Lru!Store(k, a)
  <1>1. PICK e : e = NewEntry(k, a)
    OBVIOUS
  <1>2. IsNewEntry(e, k, a)
    BY <1>1, NewEntryFits DEF InsertNew
  <1>3. k \notin Resident
    BY FindIsExact DEF InsertNew, CacheInv
  <1>4. IsEntry(e) /\ e.key = k
    BY <1>2 DEF IsNewEntry
  <1>5. entries' = PutBucket(Digest[e.key], Append(Bucket(Digest[e.key]), e))
    BY <1>1, <1>4 DEF InsertNew
  <1>6. /\ BucketsAreSound' /\ Resident' = Resident \cup {k} /\ EntryOf(k)' = e
        /\ \A x \in Resident : EntryOf(x)' = EntryOf(x)
    <2>1. BucketsAreSound /\ e.key \notin Resident
      BY <1>3, <1>4 DEF CacheInv
    <2>2. /\ BucketsAreSound' /\ Resident' = Resident \cup {e.key}
          /\ EntryOf(e.key)' = e
          /\ \A x \in Resident : EntryOf(x)' = EntryOf(x)
      BY <1>4, <1>5, <2>1, MapExtended
    <2> QED
      BY <1>4, <2>2
  <1>7. TotalsAreExact'
    <2>1. /\ entry_count' = entry_count + 1
          /\ resident_bytes' = resident_bytes + e.estimated_bytes
          /\ resident_key_bytes' = resident_key_bytes + KeyBytes[k]
          /\ resident_artifact_bytes' = resident_artifact_bytes + ArtifactBytes[e.artifact]
      BY <1>2 DEF InsertNew, IsNewEntry
    <2> QED
      BY <1>3, <1>6, <2>1, TotalsWhenExtended DEF CacheInv
  <1>8. /\ ~enforcing /\ enforcing' /\ clock' = clock + 1 /\ found' = None
    BY DEF InsertNew, Tick
  <1>9. \A x \in Resident \ {k} : EntryOf(x)' = EntryOf(x)
    BY <1>6
  <1> QED
    BY <1>2, <1>6, <1>7, <1>8, <1>9, StoreStep

(* What a single key weighs is what the cache weighs.                      *)
LEMMA WeightOfOne ==
    ASSUME BucketsAreSound, TotalsAreExact, NEW k, Resident = {k}
    PROVE  entry_count = 1 /\ resident_bytes = EntryOf(k).estimated_bytes
  <1> DEFINE none == [x \in {} |-> 0]
  <1>1. entry_count = 1
    BY FS_Singleton DEF TotalsAreExact
  <1>2. SumFunction(none) = 0
    BY SumOfNothing
  <1>3. SumFunction(EntryWeights) = SumFunction(none) + EntryWeights[k]
    <2>1. IsFiniteSet(DOMAIN none)
      BY FS_EmptySet
    <2>2. DOMAIN EntryWeights = Resident
      BY DEF EntryWeights
    <2>3. DOMAIN none = {} /\ DOMAIN EntryWeights = DOMAIN none \cup {k} /\ k \notin DOMAIN none
      BY <2>2
    <2>4. \A x \in DOMAIN EntryWeights : EntryWeights[x] \in Nat
      BY <2>2, WeightsAreNatural
    <2> HIDE DEF none
    <2> QED
      BY <2>1, <2>3, <2>4, SumWithOneMore
  <1>4. EntryWeights[k] = EntryOf(k).estimated_bytes /\ EntryOf(k).estimated_bytes \in Nat
    BY ResidentFacts DEF EntryWeights
  <1> QED
    BY <1>1, <1>2, <1>3, <1>4 DEF TotalsAreExact

(* The victim is the least recently used key, and not the one used last.   *)
LEMMA VictimIsOldest ==
    ASSUME CacheInv, enforcing, OverLimits, NEW v \in Slots, IsVictim(v)
    PROVE  /\ At(v).key \in Resident /\ EntryOf(At(v).key) = At(v)
           /\ \A j \in Resident \ {At(v).key} : At(v).last_used < EntryOf(j).last_used
           /\ At(v).last_used < clock
  <1>1. PICK k : k = At(v).key
    OBVIOUS
  <1>2. k \in Resident /\ EntryOf(k) = At(v)
    BY <1>1, EntryOfSlot DEF CacheInv
  <1>3. \A x \in Resident : EntryOf(x).last_used \in Nat /\ EntryOf(x).last_used <= clock
    BY ResidentFacts DEF CacheInv, UsesAreOrdered
  <1>4. clock \in Nat
    BY DEF CacheInv, UsesAreOrdered
  <1>5. ASSUME NEW j \in Resident \ {k}
        PROVE  EntryOf(k).last_used < EntryOf(j).last_used
    <2>1. PICK t \in Slots : At(t).key = j
      BY EntryOfSlot DEF CacheInv
    <2>2. t \in Slots \ {v} /\ EntryOf(j) = At(t)
      BY <1>1, <2>1, EntryOfSlot DEF CacheInv
    <2>3. EntryOf(k).last_used < EntryOf(j).last_used
          \/ EntryOf(k).last_used = EntryOf(j).last_used
      BY <1>2, <2>2 DEF IsVictim, Precedes
    <2>4. EntryOf(k).last_used # EntryOf(j).last_used
      BY <1>2 DEF CacheInv, UsesAreOrdered
    <2> QED
      BY <2>3, <2>4
  <1>6. PICK n \in Resident : EntryOf(n).last_used = clock /\ EntryOf(n).estimated_bytes <= MaxBytes
    BY DEF CacheInv, BoundsHold
  <1>7. k # n
    <2> SUFFICES ASSUME k = n PROVE FALSE
      OBVIOUS
    <2>1. ASSUME NEW j \in Resident \ {k}
          PROVE  FALSE
      BY <1>3, <1>4, <1>5, <1>6
    <2>2. Resident = {k}
      BY <1>2, <2>1
    <2>3. entry_count = 1 /\ resident_bytes = EntryOf(k).estimated_bytes
      BY <2>2, WeightOfOne DEF CacheInv
    <2>4. MaxEntries \in Nat /\ MaxEntries >= 1 /\ MaxBytes \in Nat
      BY CacheAssumption DEF CacheInv, BoundsHold
    <2>5. EntryOf(k).estimated_bytes \in Nat
      BY <1>2, ResidentFacts DEF CacheInv
    <2> QED
      BY <1>6, <2>3, <2>4, <2>5 DEF OverLimits
  <1>8. EntryOf(k).last_used < clock
    BY <1>5, <1>6, <1>7
  <1> QED
    BY <1>1, <1>2, <1>5, <1>8

(* Eviction forgets the victim's key.                                      *)
LEMMA EvictStep ==
    ASSUME CacheInv, EvictVictim
    PROVE  CacheInv' /\ \E k \in Keys : Lru!Forget(k)
  <1>1. PICK v \in Slots :
            /\ IsVictim(v)
            /\ entries' = PutBucket(v[1], WithoutPosition(entries[v[1]], v[2]))
            /\ resident_bytes' = Less(resident_bytes, At(v).estimated_bytes)
            /\ resident_key_bytes' = Less(resident_key_bytes, KeyBytes[At(v).key])
            /\ resident_artifact_bytes' =
                   Less(resident_artifact_bytes, ArtifactBytes[At(v).artifact])
    BY DEF EvictVictim
  <1>2. PICK k : k = At(v).key
    OBVIOUS
  <1>3. /\ k \in Resident /\ EntryOf(k) = At(v) /\ EntryOf(k).last_used < clock
        /\ \A j \in Resident \ {k} : EntryOf(k).last_used < EntryOf(j).last_used
    BY <1>1, <1>2, VictimIsOldest DEF EvictVictim
  <1>4. /\ BucketsAreSound' /\ Resident' = Resident \ {k}
        /\ \A x \in Resident' : EntryOf(x)' = EntryOf(x)
    BY <1>1, <1>2, MapReduced DEF CacheInv
  <1>5. TotalsAreExact'
    <2>1. /\ resident_bytes' = Less(resident_bytes, EntryOf(k).estimated_bytes)
          /\ resident_key_bytes' = Less(resident_key_bytes, KeyBytes[k])
          /\ resident_artifact_bytes' =
                 Less(resident_artifact_bytes, ArtifactBytes[EntryOf(k).artifact])
          /\ entry_count' = entry_count - 1
      BY <1>1, <1>2, <1>3 DEF EvictVictim
    <2> QED
      BY <1>3, <1>4, <2>1, TotalsWhenReduced DEF CacheInv
  <1>6. UsesAreOrdered'
    BY <1>4 DEF UsesAreOrdered, CacheInv, EvictVictim
  <1>7. BoundsHold'
    <2>1. PICK n \in Resident : /\ EntryOf(n).last_used = clock
                                /\ EntryOf(n).estimated_bytes <= MaxBytes
      BY DEF CacheInv, BoundsHold, EvictVictim
    <2>2. n # k /\ clock \in Nat
      BY <1>3, <2>1 DEF CacheInv, UsesAreOrdered
    <2>3. n \in Resident' /\ EntryOf(n)' = EntryOf(n) /\ clock' = clock /\ enforcing' = enforcing
      BY <1>4, <2>2 DEF EvictVictim
    <2>4. enforcing /\ MaxEntries >= 1
      BY DEF CacheInv, BoundsHold, EvictVictim
    <2> QED
      BY <2>1, <2>3, <2>4 DEF BoundsHold
  <1>8. ExceedsLimits(Plan)
    BY TotalsAreOfTheMap DEF CacheInv, EvictVictim
  <1>9. k \in Keys
    BY <1>3, ResidentFacts DEF CacheInv
  <1>10. Plan' = Lru!Without(Plan, k) /\ Used' = Lru!Without(Used, k)
    BY <1>4 DEF Plan, Used, Lru!Without
  <1>11. /\ DOMAIN Plan = Resident /\ \A x \in Resident : Used[x] = EntryOf(x).last_used
    BY DEF Plan, Used
  <1>12. clock' = clock /\ found' = found
    BY DEF EvictVictim
  <1>13. Lru!Forget(k)
    <2>1. /\ k \in DOMAIN Plan /\ Used[k] < clock
          /\ \A j \in DOMAIN Plan \ {k} : Used[k] < Used[j]
      BY <1>3, <1>11
    <2> QED
      BY <1>8, <1>10, <1>12, <2>1 DEF Lru!Forget, Plan, Used
  <1> QED
    BY <1>4, <1>5, <1>6, <1>7, <1>9, <1>13 DEF CacheInv

(* The end of the loop changes nothing, and the bounds hold.               *)
LEMMA EnforceDoneStep ==
    ASSUME CacheInv, EnforceDone
    PROVE  CacheInv' /\ UNCHANGED <<Plan, Used, clock, found>>
  <1>1. /\ enforcing /\ enforcing' = FALSE /\ UNCHANGED <<entries, occupancy, clock, found>>
        /\ ~OverLimits \/ Slots = {}
    BY DEF EnforceDone
  <1>2. ~OverLimits
    <2>1. Resident # {}
      BY <1>1 DEF CacheInv, BoundsHold
    <2> QED
      BY <1>1, <2>1 DEF Resident
  <1>3. Resident' = Resident /\ \A x \in Resident : EntryOf(x)' = EntryOf(x)
    BY <1>1 DEF Resident, EntryOf, Slots, At, Bucket, FirstOf, PositionsOf
  <1>4. BucketsAreSound'
    BY <1>1 DEF CacheInv, BucketsAreSound, Slots, At
  <1>5. TotalsAreExact'
    BY <1>1, <1>3 DEF CacheInv, TotalsAreExact, occupancy, EntryWeights, KeyWeights, PlanWeights
  <1>6. UsesAreOrdered'
    BY <1>1, <1>3 DEF CacheInv, UsesAreOrdered
  <1>7. BoundsHold'
    BY <1>1, <1>2 DEF occupancy, OverLimits, BoundsHold
  <1>8. Plan' = Plan /\ Used' = Used
    BY <1>3 DEF Plan, Used
  <1> QED
    BY <1>1, <1>4, <1>5, <1>6, <1>7, <1>8 DEF CacheInv

(* Clearing leaves the empty map.                                          *)
LEMMA ClearStep ==
    ASSUME CacheInv, Clear
    PROVE  CacheInv' /\ Lru!Clear
  <1>1. ~enforcing /\ ~OverLimits
    BY DEF Clear, CacheInv, BoundsHold
  <1>2. ~ExceedsLimits(Plan)
    BY <1>1, TotalsAreOfTheMap DEF CacheInv
  <1>3. BucketsAreSound' /\ Slots' = {} /\ Resident' = {}
    <2>1. (entries = EmptyBuckets)'
      BY DEF Clear, EmptyBuckets
    <2> QED
      BY <2>1, NoBucketsNext
  <1>4. TotalsAreExact' /\ ~OverLimits'
    <2>1. (/\ Resident = {} /\ entry_count = 0 /\ resident_bytes = 0
           /\ resident_key_bytes = 0 /\ resident_artifact_bytes = 0)'
      BY <1>3 DEF Clear
    <2> QED
      BY <2>1, NoTotalsNext
  <1>5. UsesAreOrdered'
    BY <1>3 DEF Clear, CacheInv, UsesAreOrdered
  <1>6. BoundsHold'
    <2>1. enforcing \in BOOLEAN /\ ~enforcing /\ enforcing' = enforcing
      BY DEF Clear, CacheInv, BoundsHold
    <2> QED
      BY <1>4, <2>1 DEF BoundsHold
  <1>7. Lru!Clear
    BY <1>2, <1>3 DEF Clear, Lru!Clear, Plan
  <1> QED
    BY <1>3, <1>4, <1>5, <1>6, <1>7 DEF CacheInv

-------------------------------------------------------------------------------
(* The theorems *)

(* A step of the cache keeps the invariant, and is a step of the map or    *)
(* leaves the map as it is.                                                *)
LEMMA CacheStep ==
    ASSUME CacheInv, [Next]_vars
    PROVE  CacheInv' /\ [Lru!Next]_(Lru!vars)
  <1>1. CASE UNCHANGED vars
    <2>1. UNCHANGED <<entries, occupancy, clock, enforcing, found>>
      BY <1>1 DEF vars, occupancy
    <2>2. Resident' = Resident /\ \A x \in Resident : EntryOf(x)' = EntryOf(x)
      BY <2>1 DEF Resident, EntryOf, Slots, At, Bucket, FirstOf, PositionsOf
    <2>3. BucketsAreSound'
      BY <2>1 DEF CacheInv, BucketsAreSound, Slots, At
    <2>4. TotalsAreExact'
      BY <2>1, <2>2
      DEF CacheInv, TotalsAreExact, occupancy, EntryWeights, KeyWeights, PlanWeights
    <2>5. UsesAreOrdered'
      BY <2>1, <2>2 DEF CacheInv, UsesAreOrdered
    <2>6. BoundsHold'
      BY <2>1, <2>2 DEF occupancy, OverLimits, CacheInv, BoundsHold
    <2>7. Plan' = Plan /\ Used' = Used
      BY <2>2 DEF Plan, Used
    <2> QED
      BY <2>1, <2>3, <2>4, <2>5, <2>6, <2>7 DEF CacheInv, Lru!vars, Plan, Used
  <1>2. CASE \E k \in Keys : Lookup(k)
    BY <1>2, LookupStep DEF Lru!Next
  <1>3. CASE \E k \in Keys : \E a \in Artifacts : Insert(k, a)
    BY <1>3, InsertBypassStep, InsertReplaceStep, InsertNewStep DEF Insert, Lru!Next
  <1>4. CASE EvictVictim
    BY <1>4, EvictStep DEF Lru!Next
  <1>5. CASE EnforceDone
    BY <1>5, EnforceDoneStep DEF Lru!vars, Plan, Used
  <1>6. CASE Clear
    BY <1>6, ClearStep DEF Lru!Next
  <1> QED
    BY <1>1, <1>2, <1>3, <1>4, <1>5, <1>6 DEF Next, EnforceLimits

(* Whatever is called in whatever order, the buckets find each key, the    *)
(* totals are the sums over the map, the uses are ordered, and while the   *)
(* bounds are enforced the plan inserted last is kept.                     *)
THEOREM CacheInvHolds == Spec => []CacheInv
  <1>1. Init => CacheInv
    BY InitIsEmpty
  <1>2. CacheInv /\ [Next]_vars => CacheInv'
    BY CacheStep
  <1> QED
    BY <1>1, <1>2, PTL DEF Spec

(* The buckets, positions and running totals implement the exact LRU map.  *)
THEOREM CacheImplementsLru == Spec => ImplementsLru
  <1>1. Init => Lru!Init
    BY InitIsEmpty
  <1>2. CacheInv /\ [Next]_vars => [Lru!Next]_(Lru!vars)
    BY CacheStep
  <1> QED
    BY <1>1, <1>2, CacheInvHolds, PTL DEF Spec, ImplementsLru, Lru!Spec

(* Summing over the slots is summing over the keys.                        *)
LEMMA SlotTotals ==
    ASSUME BucketsAreSound, TotalsAreExact
    PROVE  /\ entry_count = Cardinality(Slots)
           /\ resident_bytes = SumFunction([s \in Slots |-> At(s).estimated_bytes])
           /\ resident_key_bytes = SumFunction([s \in Slots |-> KeyBytes[At(s).key]])
           /\ resident_artifact_bytes = SumFunction([s \in Slots |-> ArtifactBytes[At(s).artifact]])
  <1> DEFINE key == [s \in Slots |-> At(s).key]
             e == [s \in Slots |-> At(s).estimated_bytes]
             b == [s \in Slots |-> KeyBytes[At(s).key]]
             p == [s \in Slots |-> ArtifactBytes[At(s).artifact]]
  <1>1. IsFiniteSet(Slots) /\ \A s \in Slots : At(s) \in CacheEntry
    BY SlotsHoldEntries
  <1>2. \A s, t \in Slots : key[s] = key[t] => s = t
    BY DEF BucketsAreSound
  <1>3. Resident = {key[s] : s \in Slots}
    BY DEF Resident
  <1>4. \A s \in Slots : key[s] \in Resident /\ EntryOf(key[s]) = At(s)
    BY EntryOfSlot
  <1>5. entry_count = Cardinality(Slots)
    <2>1. key \in Bijection(Slots, Resident)
      BY <1>2, <1>3 DEF Bijection, Injection, Surjection, IsInjective
    <2>2. ExistsBijection(Slots, Resident)
      BY <2>1 DEF ExistsBijection
    <2> HIDE DEF key
    <2>3. Cardinality(Slots) = Cardinality(Resident)
      BY <1>1, <2>2, FS_Bijection
    <2> QED
      BY <2>3 DEF TotalsAreExact
  <1>6. resident_bytes = SumFunction(e)
    <2>1. /\ DOMAIN e = Slots /\ DOMAIN EntryWeights = {key[s] : s \in Slots}
          /\ \A s \in Slots : e[s] \in Nat /\ EntryWeights[key[s]] = e[s]
      BY <1>1, <1>3, <1>4 DEF EntryWeights, CacheEntry
    <2> HIDE DEF e, key
    <2>2. SumFunction(e) = SumFunction(EntryWeights)
      BY <1>1, <1>2, <2>1, SumIsOfWeights
    <2> QED
      BY <2>2 DEF TotalsAreExact
  <1>7. resident_key_bytes = SumFunction(b)
    <2>1. /\ DOMAIN b = Slots /\ DOMAIN KeyWeights = {key[s] : s \in Slots}
          /\ \A s \in Slots : b[s] \in Nat /\ KeyWeights[key[s]] = b[s]
      BY <1>1, <1>3, <1>4, CacheAssumption DEF KeyWeights, CacheEntry
    <2> HIDE DEF b, key
    <2>2. SumFunction(b) = SumFunction(KeyWeights)
      BY <1>1, <1>2, <2>1, SumIsOfWeights
    <2> QED
      BY <2>2 DEF TotalsAreExact
  <1>8. resident_artifact_bytes = SumFunction(p)
    <2>1. /\ DOMAIN p = Slots /\ DOMAIN PlanWeights = {key[s] : s \in Slots}
          /\ \A s \in Slots : p[s] \in Nat /\ PlanWeights[key[s]] = p[s]
      BY <1>1, <1>3, <1>4, CacheAssumption DEF PlanWeights, CacheEntry
    <2> HIDE DEF p, key
    <2>2. SumFunction(p) = SumFunction(PlanWeights)
      BY <1>1, <1>2, <2>1, SumIsOfWeights
    <2> QED
      BY <2>2 DEF TotalsAreExact
  <1> QED
    BY <1>5, <1>6, <1>7, <1>8

(* The totals the cache reports are the sums over its slots, and between   *)
(* two calls they exceed neither bound.                                    *)
THEOREM OccupancyStaysExact == Spec => []OccupancyIsExact
  <1>1. CacheInv => OccupancyIsExact
    <2> SUFFICES ASSUME CacheInv PROVE OccupancyIsExact
      OBVIOUS
    <2>1. BucketsAreSound /\ TotalsAreExact /\ (~enforcing => ~OverLimits)
      BY DEF CacheInv, BoundsHold
    <2>2. entry_count \in Nat /\ resident_bytes \in Nat
      BY <2>1, TotalsAreOfTheMap
    <2>3. ~OverLimits => entry_count <= MaxEntries /\ resident_bytes <= MaxBytes
      BY <2>2, CacheAssumption DEF OverLimits
    <2> QED
      BY <2>1, <2>3, SlotTotals DEF OccupancyIsExact
  <1> QED
    BY <1>1, CacheInvHolds, PTL

===============================================================================
