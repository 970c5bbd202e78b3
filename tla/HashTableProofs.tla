-------------------------- MODULE HashTableProofs --------------------------
(* Proofs about module HashTable, for any keys, any hashes, any capacity and
   any number of insertions. *)
EXTENDS HashTable, FiniteSetTheorems, SequenceTheorems, WellFoundedInduction, TLAPS

-----------------------------------------------------------------------------
(* Arithmetic: a prime and the multiples of a stride. *)

\* A set of numbers has a least one.
LEMMA LeastNat ==
    ASSUME NEW S \in SUBSET Nat, S # {}
    PROVE  \E n \in S : \A m \in S : n <= m
<1>1. PICK n \in S : \A m \in S : ~ (<<m, n>> \in OpToRel(<, Nat))
  BY NatLessThanWellFounded, WFMin
<1>2. \A m \in S : ~ (m < n)
  BY <1>1 DEF OpToRel
<1>. QED
  BY <1>2

\* Division with a rest.
LEMMA DivMod ==
    ASSUME NEW a \in Nat, NEW b \in Nat \ {0}
    PROVE  /\ a % b \in 0..(b - 1)
           /\ \E q \in Nat : a = b * q + (a % b)
<1>1. a % b \in 0..(b - 1)
  OBVIOUS
<1>2. a = b * (a \div b) + (a % b)
  OBVIOUS
<1>3. a \div b \in Nat
  OBVIOUS
<1>. QED
  BY <1>1, <1>2, <1>3

\* There is one quotient and one rest.
LEMMA Rests ==
    ASSUME NEW b \in Nat \ {0}, NEW q \in Int, NEW t \in Int,
           NEW r \in 0..(b - 1), NEW u \in 0..(b - 1), b * q + r = b * t + u
    PROVE  q = t /\ r = u
<1>1. b * (q - t) = u - r
  OBVIOUS
<1>2. q - t <= 0
  <2>1. SUFFICES ASSUME q - t >= 1 PROVE FALSE
    OBVIOUS
  <2>2. b * (q - t) >= b
    BY <2>1
  <2>. QED
    BY <1>1, <2>2
<1>3. q - t >= 0
  <2>1. SUFFICES ASSUME q - t <= -1 PROVE FALSE
    OBVIOUS
  <2>2. b * (q - t) <= -b
    BY <2>1
  <2>. QED
    BY <1>1, <2>2
<1>. QED
  BY <1>1, <1>2, <1>3

\* is_prime looks at divisors up to the root only: that is enough.
LEMMA DividesNot ==
    ASSUME NEW p \in Nat \ {0}, is_prime(p), NEW m \in 2..(p - 1)
    PROVE  p % m # 0
<1>. SUFFICES ASSUME p % m = 0 PROVE FALSE
  OBVIOUS
<1>0. m \in Nat \ {0}
  OBVIOUS
<1>1. PICK q \in Nat : p = m * q + (p % m)
  BY <1>0, DivMod
<1>2. p = m * q
  BY <1>1
<1>3. q \in 2..(p - 1)
  <2>1. q # 0 /\ q # 1
    BY <1>2
  <2>2. m * q >= 2 * q
    OBVIOUS
  <2>. QED
    BY <1>2, <2>1, <2>2
<1>4. m * m > p
  BY DEF is_prime
<1>5. q < m
  <2>1. SUFFICES ASSUME q >= m PROVE FALSE
    OBVIOUS
  <2>2. m * q >= m * m
    BY <2>1
  <2>. QED
    BY <1>2, <1>4, <2>2
<1>6. q * q <= p
  <2>1. q * q <= m * q
    BY <1>5
  <2>. QED
    BY <1>2, <2>1
<1>7. p % q # 0
  BY <1>3, <1>6 DEF is_prime
<1>. q \in Nat \ {0}
  BY <1>3
<1>8. PICK u \in Nat : p = q * u + (p % q)
  BY DivMod
<1>9. p % q \in 0..(q - 1)
  BY DivMod
<1>10. q * m + 0 = q * u + (p % q)
  BY <1>2, <1>8
<1>11. 0 = p % q
  <2>. DEFINE r == p % q
  <2>1. r \in 0..(q - 1) /\ q * m + 0 = q * u + r
    BY <1>9, <1>10
  <2>2. 0 \in 0..(q - 1)
    OBVIOUS
  <2>. HIDE DEF r
  <2>3. 0 = r
    BY <2>1, <2>2, Rests
  <2>. QED
    BY <2>3 DEF r
<1>. QED
  BY <1>7, <1>11

\* Fewer than p strides never add up to a multiple of a prime p: the least
\* number of strides that did would divide p.
LEMMA NeverBack ==
    ASSUME NEW p \in Nat \ {0}, is_prime(p),
           NEW s \in 1..(p - 1), NEW n \in 1..(p - 1), NEW t \in Nat, n * s = p * t
    PROVE  FALSE
<1>. DEFINE S == {m \in 1..p : \E q \in Nat : m * s = p * q}
<1>1. n \in S
  OBVIOUS
<1>2. PICK m \in S : \A j \in S : m <= j
  <2>. HIDE DEF S
  <2>1. S \in SUBSET Nat
    BY DEF S
  <2>. QED
    BY <1>1, <2>1, LeastNat
<1>3. m \in 1..(p - 1) /\ m <= n
  BY <1>1, <1>2
<1>4. PICK u \in Nat : m * s = p * u
  BY <1>2
<1>. m \in Nat \ {0}
  BY <1>3
<1>5. PICK q \in Nat : p = m * q + (p % m)
  BY DivMod
<1>. DEFINE r == p % m
<1>6. r \in 0..(m - 1)
  BY DivMod
<1>7. p = m * q + r
  BY <1>5
<1>8. r * s = p * (s - q * u)
  <2>. HIDE DEF r
  <2>1. p * s = (m * q + r) * s
    BY <1>7
  <2>2. (m * q + r) * s = (m * s) * q + r * s
    BY <1>3, <1>6
  <2>3. (m * s) * q = (p * u) * q
    BY <1>4
  <2>4. (p * u) * q = p * (q * u)
    BY <1>3
  <2>5. p * (s - q * u) = p * s - p * (q * u)
    OBVIOUS
  <2>. QED
    BY <1>3, <1>6, <2>1, <2>2, <2>3, <2>4, <2>5
<1>9. r = 0
  <2>. HIDE DEF r
  <2>. SUFFICES ASSUME r # 0 PROVE FALSE
    OBVIOUS
  <2>1. r \in 1..p /\ r < m
    BY <1>3, <1>6
  <2>2. r * s >= 0
    BY <2>1
  <2>3. s - q * u >= 0
    <3>. DEFINE d == s - q * u
    <3>0. d \in Int /\ p * d >= 0
      BY <1>8, <2>2
    <3>. HIDE DEF d
    <3>1. ASSUME d <= -1 PROVE p * d < 0
      BY <3>0, <3>1
    <3>. QED
      BY <3>0, <3>1 DEF d
  <2>4. r \in S
    BY <1>8, <2>1, <2>3
  <2>. HIDE DEF S
  <2>. QED
    BY <1>2, <2>1, <2>4
<1>10. m = 1
  <2>1. ASSUME m # 1 PROVE FALSE
    <3>1. m \in 2..(p - 1)
      BY <1>3, <2>1
    <3>2. p % m # 0
      BY <3>1, DividesNot
    <3>. QED
      BY <1>9, <3>2
  <2>. QED
    BY <2>1
<1>11. s = p * u
  BY <1>4, <1>10
<1>12. u = 0 \/ p * u >= p
  OBVIOUS
<1>13. p * 0 = 0
  OBVIOUS
<1>14. s < p /\ s > 0
  OBVIOUS
<1>. QED
  BY ONLY <1>11, <1>12, <1>13, <1>14

-----------------------------------------------------------------------------
(* Slots and tries. *)

\* The capacity is a prime, and there is at least one slot.
LEMMA CapacityIsPrime ==
    ASSUME NEW h \in Hints
    PROVE  next_prime(h) \in Nat \ {0} /\ is_prime(next_prime(h))
<1>. DEFINE P == {p \in h..(2 * h + 1) : is_prime(p)}
<1>1. h \in Nat
  BY HintsAssumption
<1>2. P \in SUBSET Nat /\ P # {}
  BY <1>1, PrimesAssumption
<1>3. PICK p \in P : \A q \in P : p <= q
  <2>. HIDE DEF P
  <2>. QED
    BY <1>2, LeastNat
<1>4. \A q \in h..(p - 1) : ~is_prime(q)
  BY <1>1, <1>3
<1>5. next_prime(h) \in h..(2 * h + 1) /\ is_prime(next_prime(h))
  BY <1>3, <1>4 DEF next_prime
<1>. QED
  BY <1>1, <1>5 DEF is_prime

\* The table's variables have their types; its size is a prime.
HashTypes ==
    /\ status \in {"ok", "crashed", "spinning", "freed"}
    /\ destructor \in BOOLEAN
    /\ cap \in Nat \ {0} /\ is_prime(cap)
    /\ items \in [Slots -> Item \cup {NULL}]
    /\ inserts \in 0..MaxInserts
    /\ taken \subseteq 1..inserts
    /\ destroyed \in [Values -> Nat]

\* Two tries of a key differ by a multiple of the stride.
LEMMA TriesApart ==
    ASSUME NEW p \in Nat \ {0}, is_prime(p), NEW d \in Nat, NEW s \in 1..(p - 1),
           NEW i \in 0..(p - 1), NEW j \in 0..(p - 1), i < j,
           (d + i * s) % p = (d + j * s) % p
    PROVE  FALSE
<1>1. d + i * s \in Nat /\ d + j * s \in Nat
  OBVIOUS
<1>2. PICK q \in Nat : d + i * s = p * q + ((d + i * s) % p)
  BY <1>1, DivMod
<1>3. PICK t \in Nat : d + j * s = p * t + ((d + j * s) % p)
  BY <1>1, DivMod
<1>. DEFINE r == (d + i * s) % p
<1>4. r \in 0..(p - 1)
  BY <1>1, DivMod
<1>5. d + i * s = p * q + r /\ d + j * s = p * t + r
  BY <1>2, <1>3
<1>. HIDE DEF r
<1>6. (j - i) * s = p * (t - q)
  <2>1. (j - i) * s = j * s - i * s
    OBVIOUS
  <2>2. p * (t - q) = p * t - p * q
    OBVIOUS
  <2>. QED
    BY <1>4, <1>5, <2>1, <2>2
<1>7. (j - i) * s > 0
  <2>1. j - i >= 1 /\ s >= 1
    OBVIOUS
  <2>. QED
    BY <2>1
<1>8. t - q \in Nat
  <2>. DEFINE e == t - q
  <2>1. e \in Int /\ p * e > 0
    BY <1>6, <1>7
  <2>. HIDE DEF e
  <2>2. ASSUME e <= -1 PROVE p * e < 0
    BY <2>1, <2>2
  <2>. QED
    BY <2>1, <2>2 DEF e
<1>9. j - i \in 1..(p - 1)
  OBVIOUS
<1>. QED
  BY <1>6, <1>8, <1>9, NeverBack

\* With a stride, a key tries every slot.
LEMMA TriesReach ==
    ASSUME HashTypes, NEW k \in Keys, Stride(k) # 0, NEW slot \in Slots
    PROVE  \E i \in Tries(k) : At(k, i) = slot
<1>. DEFINE f == [i \in Slots |-> At(k, i)]
            d == djb2[k]
            s == Stride(k)
<1>1. cap \in Nat \ {0} /\ is_prime(cap) /\ d \in Nat /\ djb2a[k] \in Nat
  BY HashAssumption DEF HashTypes
<1>2. s \in 1..(cap - 1)
  BY <1>1 DEF Stride
<1>3. \A i \in Slots : At(k, i) = (d + i * s) % cap
  BY DEF At
<1>. HIDE DEF d, s
<1>4. \A i \in Slots : At(k, i) \in Slots
  BY <1>1, <1>2, <1>3 DEF Slots
<1>5. ASSUME NEW i \in Slots, NEW j \in Slots, i < j, At(k, i) = At(k, j) PROVE FALSE
  BY <1>1, <1>2, <1>3, <1>5, TriesApart DEF Slots
<1>6. \A i, j \in Slots : f[i] = f[j] => i = j
  <2>1. \A i, j \in Slots : i < j \/ j < i \/ i = j
    BY <1>1 DEF Slots
  <2>. QED
    BY <1>5, <2>1
<1>7. f \in [Slots -> Slots]
  BY <1>4
<1>8. f \in Injection(Slots, Slots)
  <2>. HIDE DEF f
  <2>. QED
    BY <1>6, <1>7 DEF Injection, IsInjective
<1>9. f \in Surjection(Slots, Slots)
  <2>1. IsFiniteSet(Slots)
    BY <1>1, FS_Interval DEF Slots
  <2>. HIDE DEF f
  <2>. QED
    BY <1>8, <2>1, FS_Injection
<1>10. \E i \in Slots : f[i] = slot
  <2>. HIDE DEF f
  <2>. QED
    BY <1>9 DEF Surjection
<1>11. Tries(k) = Slots
  BY DEF Tries, Slots
<1>. QED
  BY <1>10, <1>11

-----------------------------------------------------------------------------
(* What changes when an item is put in a slot. *)

InUse == {s \in Slots : items[s] # NULL}

LEMMA InUseIs == InUse = Live \cup Marked /\ InUse = Slots \ Unused
  BY DEF InUse, Live, Marked, Unused

LEMMA SlotsFinite ==
    ASSUME HashTypes
    PROVE  /\ IsFiniteSet(Slots) /\ Cardinality(Slots) = cap
           /\ IsFiniteSet(Live) /\ Cardinality(Live) \in Nat
           /\ IsFiniteSet(InUse) /\ Cardinality(InUse) \in Nat
<1>1. IsFiniteSet(Slots) /\ Cardinality(Slots) = cap
  BY FS_Interval DEF Slots, HashTypes
<1>2. Live \in SUBSET Slots /\ InUse \in SUBSET Slots
  BY DEF Live, InUse
<1>3. IsFiniteSet(Live) /\ IsFiniteSet(InUse)
  BY <1>1, <1>2, FS_Subset
<1>. QED
  BY <1>1, <1>3, FS_CardinalityType

LEMMA PutItem ==
    ASSUME HashTypes, NEW s \in Slots, NEW item \in Item,
           items' = [items EXCEPT ![s] = item], cap' = cap
    PROVE  /\ items' \in [Slots' -> Item \cup {NULL}]
           /\ Slots' = Slots
           /\ \A t \in Slots \ {s} : items'[t] = items[t]
           /\ items'[s] = item /\ item # NULL
           /\ InUse' = InUse \cup {s}
           /\ Live' = IF item.deleted THEN Live \ {s} ELSE Live \cup {s}
<1>1. Slots' = Slots
  BY DEF Slots
<1>2. items \in [Slots -> Item \cup {NULL}] /\ item # NULL
  BY NULLAssumption DEF HashTypes
<1>3. /\ items' \in [Slots -> Item \cup {NULL}]
      /\ \A t \in Slots \ {s} : items'[t] = items[t]
      /\ items'[s] = item
  BY <1>2
<1>4. InUse' = InUse \cup {s}
  BY <1>1, <1>2, <1>3 DEF InUse
<1>5. Live' = IF item.deleted THEN Live \ {s} ELSE Live \cup {s}
  BY <1>1, <1>2, <1>3 DEF Live
<1>. QED
  BY <1>1, <1>2, <1>3, <1>4, <1>5

\* Who owns the values, without counting: an item in use owns an accepted
\* value, no other item has it, and the accepted values without an owner are
\* those that have been destroyed.
OneOwner ==
    /\ \A s \in InUse : items[s].value \in taken
    /\ \A s, t \in InUse : items[s].value = items[t].value => s = t
    /\ \A v \in Values :
           destroyed[v] = IF v \in taken /\ \A s \in InUse : items[s].value # v THEN 1 ELSE 0

\* An item with a new value comes into a slot; what was there is destroyed.
LEMMA NewOwner ==
    ASSUME HashTypes, OneOwner, NEW s \in Slots, NEW item \in Item,
           items' = [items EXCEPT ![s] = item], cap' = cap,
           item.value \notin taken, taken' = taken \cup {item.value},
           s \in InUse => Destroy(items[s].value),
           s \notin InUse => UNCHANGED destroyed
    PROVE  OneOwner'
<1>1. /\ \A t \in Slots \ {s} : items'[t] = items[t]
      /\ items'[s] = item
      /\ InUse' = InUse \cup {s}
  BY PutItem
<1>2. InUse \subseteq Slots /\ \A t \in InUse : items[t] \in Item
  BY DEF InUse, HashTypes
<1>3. \A t \in InUse' : items'[t].value \in taken'
  BY <1>1, <1>2 DEF OneOwner
<1>4. \A t, u \in InUse' : items'[t].value = items'[u].value => t = u
  BY <1>1, <1>2 DEF OneOwner
<1>5. item.value \in Values /\ taken \subseteq Values
  BY MaxInsertsAssumption DEF Item, HashTypes, Values
<1>6. ASSUME NEW v \in Values
      PROVE destroyed'[v] =
                IF v \in taken' /\ \A t \in InUse' : items'[t].value # v THEN 1 ELSE 0
  <2>1. CASE s \notin InUse
    <3>1. destroyed'[v] = destroyed[v]
      BY <2>1
    <3>2. (\A t \in InUse' : items'[t].value # v)
              <=> v # item.value /\ \A t \in InUse : items[t].value # v
      BY <1>1, <1>2, <2>1
    <3>. QED
      BY <1>5, <3>1, <3>2 DEF OneOwner
  <2>2. CASE s \in InUse
    <3>. DEFINE w == items[s].value
    <3>1. w \in taken /\ w \in Values /\ w # item.value
      BY <1>2, <2>2 DEF OneOwner, Item
    <3>2. destroyed' = [destroyed EXCEPT ![w] = @ + 1]
      BY <2>2 DEF Destroy
    <3>3. (\A t \in InUse' : items'[t].value # v)
              <=> v # item.value /\ (v = w \/ \A t \in InUse : items[t].value # v)
      BY <1>1, <1>2, <2>2 DEF OneOwner
    <3>4. destroyed[v] \in Nat /\ destroyed \in [Values -> Nat]
      BY DEF HashTypes
    <3>5. CASE v = w
      <4>1. destroyed[w] = 0
        BY <2>2, <3>1 DEF OneOwner
      <4>2. destroyed'[v] = 1
        BY <3>1, <3>2, <3>4, <3>5, <4>1
      <4>. QED
        BY <3>1, <3>3, <3>5, <4>2
    <3>6. CASE v # w
      <4>1. destroyed'[v] = destroyed[v]
        BY <3>2, <3>4, <3>6
      <4>. HIDE DEF w
      <4>. QED
        BY <1>5, <3>3, <3>6, <4>1 DEF OneOwner
    <3>. QED
      BY <3>5, <3>6
  <2>. QED
    BY <2>1, <2>2
<1>. QED
  BY <1>3, <1>4, <1>6 DEF OneOwner

\* An item is marked and keeps its value.
LEMMA SameOwner ==
    ASSUME HashTypes, OneOwner, NEW s \in InUse, NEW item \in Item,
           items' = [items EXCEPT ![s] = item], cap' = cap,
           item.value = items[s].value, UNCHANGED <<taken, destroyed>>
    PROVE  OneOwner'
<1>1. s \in Slots
  BY DEF InUse
<1>2. /\ \A t \in Slots \ {s} : items'[t] = items[t]
      /\ items'[s] = item
      /\ InUse' = InUse \cup {s}
  BY <1>1, PutItem
<1>3. InUse' = InUse /\ \A t \in InUse : items'[t].value = items[t].value
  BY <1>2 DEF InUse
<1>. QED
  BY <1>3 DEF OneOwner

-----------------------------------------------------------------------------
(* The inductive invariant. *)

HashInv ==
    /\ HashTypes
    /\ CountsAgree
    /\ OneOwner
    /\ status = "freed" => InUse = {}
    /\ SpinMeansUsedUp

\* One owner is a count of one.
LEMMA OwnersCounted == HashInv => ValuesOwnedOnce
<1>. SUFFICES ASSUME HashInv PROVE ValuesOwnedOnce
  OBVIOUS
<1>1. \A v \in Values : Holders(v) = {s \in InUse : items[s].value = v}
  BY InUseIs DEF Holders
<1>2. ASSUME NEW v \in Values
      PROVE Cardinality(Holders(v)) + destroyed[v] = IF v \in taken THEN 1 ELSE 0
  <2>1. CASE Holders(v) = {}
    <3>1. destroyed[v] = IF v \in taken THEN 1 ELSE 0
      BY <1>1, <2>1 DEF HashInv, OneOwner
    <3>2. Cardinality(Holders(v)) = 0
      BY <2>1, FS_EmptySet
    <3>. QED
      BY <3>1, <3>2
  <2>2. CASE Holders(v) # {}
    <3>1. PICK s \in InUse : items[s].value = v
      BY <1>1, <2>2
    <3>2. Holders(v) = {s}
      BY <1>1, <3>1 DEF HashInv, OneOwner
    <3>3. v \in taken /\ destroyed[v] = 0
      BY <3>1 DEF HashInv, OneOwner
    <3>4. Cardinality(Holders(v)) = 1
      BY <3>2, FS_Singleton
    <3>. QED
      BY <3>3, <3>4
  <2>. QED
    BY <2>1, <2>2
<1>. QED
  BY <1>2, InUseIs DEF ValuesOwnedOnce, HashInv

LEMMA NewTable == hashtable_new_table => HashInv
<1>. SUFFICES ASSUME hashtable_new_table PROVE HashInv
  OBVIOUS
<1>1. cap \in Nat \ {0} /\ is_prime(cap)
  BY CapacityIsPrime DEF hashtable_new_table
<1>2. HashTypes
  BY <1>1, MaxInsertsAssumption DEF hashtable_new_table, HashTypes
<1>3. InUse = {} /\ Live = {} /\ Live \cup Marked = {}
  BY DEF hashtable_new_table, InUse, Live, Marked
<1>4. CountsAgree
  BY <1>3, FS_EmptySet DEF CountsAgree, hashtable_new_table
<1>5. OneOwner
  BY <1>3 DEF OneOwner, hashtable_new_table
<1>. QED
  BY <1>2, <1>3, <1>4, <1>5 DEF HashInv, SpinMeansUsedUp, hashtable_new_table

\* The items stay: the counts and the owners do.
LEMMA ItemsStay ==
    ASSUME HashInv, status = "ok", UNCHANGED <<tableVars, taken, destroyed>>,
           inserts' \in inserts..MaxInserts, status' \in {"ok", "crashed"}
    PROVE  HashInv'
<1>1. HashTypes'
  BY DEF HashInv, HashTypes, tableVars, Slots
<1>2. CountsAgree'
  BY DEF HashInv, CountsAgree, tableVars, Live, Marked, Slots
<1>3. OneOwner'
  BY DEF HashInv, OneOwner, tableVars, InUse, Slots
<1>. QED
  BY <1>1, <1>2, <1>3 DEF HashInv, SpinMeansUsedUp

\* An item comes into a slot, with the value of this insertion.
LEMMA NewValueStep ==
    ASSUME HashInv, status = "ok", NEW s \in Slots, NEW item \in Item,
           items' = [items EXCEPT ![s] = item], UNCHANGED <<status, cap, destructor>>,
           item.value = inserts + 1, inserts' = inserts + 1, inserts' <= MaxInserts,
           taken' = taken \cup {item.value},
           s \in InUse => Destroy(items[s].value),
           s \notin InUse => UNCHANGED destroyed,
           ~item.deleted,
           size' = IF s \in Live THEN size ELSE size + 1,
           occupied' = IF s \in InUse THEN occupied ELSE occupied + 1
    PROVE  HashInv'
<1>. HashTypes
  BY DEF HashInv
<1>1. /\ items' \in [Slots' -> Item \cup {NULL}]
      /\ InUse' = InUse \cup {s}
      /\ Live' = Live \cup {s}
  BY PutItem
<1>2. HashTypes'
  <2>1. destroyed' \in [Values -> Nat]
    BY DEF HashTypes, Destroy
  <2>. QED
    BY <1>1, <2>1 DEF HashTypes
<1>3. CountsAgree'
  <2>0. size = Cardinality(Live) /\ occupied = Cardinality(InUse)
    BY InUseIs DEF HashInv, CountsAgree
  <2>1. Cardinality(Live') = size'
    <3>1. Cardinality(Live \cup {s})
              = IF s \in Live THEN Cardinality(Live) ELSE Cardinality(Live) + 1
      BY SlotsFinite, FS_AddElement
    <3>. QED
      BY <1>1, <2>0, <3>1
  <2>2. Cardinality(InUse') = occupied'
    <3>1. Cardinality(InUse \cup {s})
              = IF s \in InUse THEN Cardinality(InUse) ELSE Cardinality(InUse) + 1
      BY SlotsFinite, FS_AddElement
    <3>. QED
      BY <1>1, <2>0, <3>1
  <2>3. InUse' = (Live \cup Marked)'
    BY DEF InUse, Live, Marked, Slots
  <2>. QED
    BY <2>1, <2>2, <2>3 DEF CountsAgree
<1>4. OneOwner'
  <2>1. item.value \notin taken
    BY DEF HashTypes
  <2>. QED
    BY <2>1, NewOwner DEF HashInv
<1>. QED
  BY <1>2, <1>3, <1>4 DEF HashInv, SpinMeansUsedUp

LEMMA InsertStep ==
    ASSUME HashInv, NEW k \in Keys, hashtable_insert(k)
    PROVE  HashInv'
<1>. DEFINE v == inserts + 1
            stops == Unused \cup Marked \cup LiveOf(k)
            s == First(k, stops)
<1>. HashTypes /\ status = "ok" /\ v \in Values /\ inserts' = v /\ v <= MaxInserts
  BY DEF HashInv, HashTypes, hashtable_insert, Values
<1>1. CASE Refuse(k)
  BY <1>1, ItemsStay DEF Refuse, HashTypes
<1>2. CASE s \in LiveOf(k) /\ Replace(k, v, s)
  <2>1. s \in Live /\ s \in InUse /\ s \in Slots /\ items[s] \in Item
    BY <1>2 DEF LiveOf, Live, InUse, HashTypes
  <2>2. CASE destructor
    <3>. DEFINE item == [items[s] EXCEPT !.value = v]
    <3>1. items' = [items EXCEPT ![s] = item]
      BY <1>2, <2>2 DEF Replace
    <3>2. item \in Item /\ item.value = v /\ ~item.deleted
      BY <2>1 DEF Item, Live
    <3>3. Destroy(items[s].value)
      BY <1>2, <2>2 DEF Replace
    <3>4. UNCHANGED <<status, cap, destructor, size, occupied>> /\ taken' = taken \cup {v}
      BY <1>2, <2>2 DEF Replace
    <3>. HIDE DEF s, item
    <3>. QED
      BY <2>1, <3>1, <3>2, <3>3, <3>4, NewValueStep
  <2>3. CASE ~destructor
    BY <1>2, <2>3, ItemsStay DEF Replace, HashTypes
  <2>. QED
    BY <2>2, <2>3
<1>3. CASE s \in Marked /\ Reuse(k, v, s)
  <2>1. s \notin Live /\ s \in InUse /\ s \in Slots
    BY <1>3 DEF Marked, Live, InUse
  <2>2. NewItem(k, v) \in Item /\ NewItem(k, v).value = v /\ ~NewItem(k, v).deleted
    BY DEF NewItem, Item
  <2>. HIDE DEF s
  <2>. QED
    BY <1>3, <2>1, <2>2, NewValueStep DEF Reuse
<1>4. CASE s \in Unused /\ Fill(k, v, s)
  <2>1. s \notin Live /\ s \notin InUse /\ s \in Slots
    BY <1>4 DEF Unused, Live, InUse
  <2>2. NewItem(k, v) \in Item /\ NewItem(k, v).value = v /\ ~NewItem(k, v).deleted
    BY DEF NewItem, Item
  <2>. HIDE DEF s
  <2>. QED
    BY <1>4, <2>1, <2>2, NewValueStep DEF Fill
<1>. QED
  BY <1>1, <1>2, <1>3, <1>4 DEF hashtable_insert

\* Without an unused slot to stop at, all slots are in use.
LEMMA SpinStep ==
    ASSUME HashInv, NEW k \in Keys, status = "ok", Hits(k, Unused \cup LiveOf(k)) = {}
    PROVE  occupied = cap \/ Stride(k) = 0
<1>. SUFFICES ASSUME Stride(k) # 0 PROVE occupied = cap
  OBVIOUS
<1>. HashTypes
  BY DEF HashInv
<1>1. ASSUME NEW s \in Unused PROVE FALSE
  <2>1. PICK i \in Tries(k) : At(k, i) = s
    BY TriesReach DEF Unused
  <2>. QED
    BY <2>1 DEF Hits
<1>2. InUse = Slots
  BY <1>1, InUseIs
<1>. QED
  BY <1>2, SlotsFinite, InUseIs DEF HashInv, CountsAgree

LEMMA MarkStep ==
    ASSUME HashInv, status = "ok", NEW s \in Live, Mark(s), size' = size - 1,
           UNCHANGED <<status, cap, occupied, destructor, inserts, taken>>
    PROVE  HashInv'
<1>. DEFINE item == [items[s] EXCEPT !.deleted = TRUE]
<1>. HashTypes /\ s \in Slots /\ s \in InUse /\ items[s] \in Item
  BY DEF HashInv, HashTypes, Live, InUse
<1>1. items' = [items EXCEPT ![s] = item] /\ UNCHANGED destroyed
  BY DEF Mark
<1>2. item \in Item /\ item.value = items[s].value /\ item.deleted
  BY DEF Item
<1>. HIDE DEF item
<1>3. /\ items' \in [Slots' -> Item \cup {NULL}]
      /\ InUse' = InUse \cup {s}
      /\ Live' = Live \ {s}
  BY <1>1, <1>2, PutItem
<1>4. HashTypes'
  BY <1>1, <1>3 DEF HashTypes
<1>5. CountsAgree'
  <2>1. Cardinality(Live') = size'
    BY <1>3, SlotsFinite, FS_RemoveElement DEF HashInv, CountsAgree
  <2>2. InUse' = InUse
    BY <1>3
  <2>3. InUse' = (Live \cup Marked)'
    BY DEF InUse, Live, Marked, Slots
  <2>. QED
    BY <2>1, <2>2, <2>3, InUseIs DEF CountsAgree, HashInv
<1>6. OneOwner'
  BY <1>1, <1>2, SameOwner DEF HashInv
<1>. QED
  BY <1>4, <1>5, <1>6 DEF HashInv, SpinMeansUsedUp

LEMMA RemoveStep ==
    ASSUME HashInv, NEW k \in Keys, hashtable_remove(k)
    PROVE  HashInv'
<1>. DEFINE stops == Unused \cup LiveOf(k)
<1>. HashTypes /\ status = "ok" /\ UNCHANGED <<inserts, taken>>
  BY DEF HashInv, hashtable_remove
<1>1. CASE Hits(k, stops) = {} /\ status' = "spinning" /\ Answer("remove", k, NULL)
           /\ UNCHANGED <<tableVars, destroyed>>
  <2>1. HashTypes'
    BY <1>1 DEF HashTypes, tableVars, Slots
  <2>2. CountsAgree'
    BY <1>1 DEF HashInv, CountsAgree, tableVars, Live, Marked, Slots
  <2>3. OneOwner'
    BY <1>1 DEF HashInv, OneOwner, tableVars, InUse, Slots
  <2>4. SpinMeansUsedUp'
    <3>1. occupied = cap \/ Stride(k) = 0
      BY <1>1, SpinStep
    <3>2. result'.key = k
      BY <1>1 DEF Answer
    <3>. QED
      BY <1>1, <3>1, <3>2 DEF SpinMeansUsedUp, tableVars, Stride
  <2>. QED
    BY <1>1, <2>1, <2>2, <2>3, <2>4 DEF HashInv
<1>2. CASE UNCHANGED <<status, tableVars, destroyed>>
  BY <1>2, ItemsStay DEF HashTypes
<1>3. CASE /\ Hits(k, stops) # {} /\ First(k, stops) \in LiveOf(k)
           /\ Mark(First(k, stops)) /\ size' = size - 1
           /\ UNCHANGED <<status, cap, occupied, destructor>>
  <2>1. First(k, stops) \in Live
    BY <1>3 DEF LiveOf
  <2>. QED
    BY <1>3, <2>1, MarkStep
<1>. QED
  BY <1>1, <1>2, <1>3 DEF hashtable_remove

LEMMA FreeStep ==
    ASSUME HashInv, hashtable_delete_table
    PROVE  HashInv'
<1>1. HashTypes /\ status = "ok" /\ status' = "freed" /\ UNCHANGED <<cap, destructor, inserts, taken>>
  BY DEF HashInv, hashtable_delete_table
<1>2. Slots' = Slots /\ items' = [s \in Slots |-> NULL]
  BY <1>1 DEF Slots, hashtable_delete_table
<1>3. \A v \in Values :
          destroyed'[v] = destroyed[v] + IF \E s \in InUse : items[s].value = v THEN 1 ELSE 0
  BY InUseIs DEF hashtable_delete_table, DoomedItems
<1>4. HashTypes'
  <2>1. destroyed' \in [Values -> Nat]
    BY <1>1 DEF hashtable_delete_table, HashTypes
  <2>. QED
    BY <1>1, <1>2, <2>1 DEF HashTypes
<1>5. InUse' = {}
  BY <1>2 DEF InUse
<1>6. OneOwner'
  <2>1. \A v \in Values : destroyed'[v] = IF v \in taken THEN 1 ELSE 0
    BY <1>3 DEF HashInv, OneOwner
  <2>. QED
    BY <1>1, <1>5, <2>1 DEF OneOwner
<1>. QED
  BY <1>1, <1>4, <1>5, <1>6 DEF HashInv, CountsAgree, SpinMeansUsedUp

LEMMA HashStep == HashInv /\ [HashNext]_hashVars => HashInv'
<1>. SUFFICES ASSUME HashInv, [HashNext]_hashVars PROVE HashInv'
  OBVIOUS
<1>1. ASSUME NEW k \in Keys, hashtable_search(k) PROVE HashInv'
  BY <1>1, ItemsStay DEF hashtable_search, HashInv, HashTypes
<1>2. CASE UNCHANGED hashVars
  <2>1. HashTypes'
    BY <1>2 DEF HashInv, HashTypes, hashVars, tableVars, Slots
  <2>2. CountsAgree'
    BY <1>2 DEF HashInv, CountsAgree, hashVars, tableVars, Live, Marked, Slots
  <2>3. OneOwner' /\ InUse' = InUse
    BY <1>2 DEF HashInv, OneOwner, hashVars, tableVars, InUse, Slots
  <2>. QED
    BY <1>2, <2>1, <2>2, <2>3 DEF HashInv, SpinMeansUsedUp, hashVars, tableVars
<1>. QED
  BY <1>1, <1>2, InsertStep, RemoveStep, FreeStep DEF HashNext

-----------------------------------------------------------------------------
\* Whatever is inserted, replaced, removed and reused: the invariant holds.
THEOREM HashInvariant == HashSpec => []HashInv
  BY NewTable, HashStep, PTL DEF HashSpec

\* size and occupied are what a walk over the slots would count.
THEOREM CountsSafe == HashSpec => []CountsAgree
<1>1. HashInv => CountsAgree
  BY DEF HashInv
<1>. QED
  BY <1>1, HashInvariant, PTL

\* No value is lost, shared, destroyed twice or destroyed while it could be
\* found, and none survives the table.
THEOREM ValuesSafe == HashSpec => []ValuesOwnedOnce
  BY OwnersCounted, HashInvariant, PTL

\* hashtable_remove spins only in a table whose slots have all been used, or
\* for a key whose stride is a multiple of the capacity.
THEOREM SpinSafe == HashSpec => []SpinMeansUsedUp
<1>1. HashInv => SpinMeansUsedUp
  BY DEF HashInv
<1>. QED
  BY <1>1, HashInvariant, PTL

-----------------------------------------------------------------------------
(* The order of a pile: the tries that find an item of the key, counted    *)
(* from the last.                                                          *)

Position(T, i) == Cardinality({j \in T : j >= i})
Nth(T, n) == CHOOSE i \in T : Position(T, i) = n

LEMMA PositionIs ==
    ASSUME NEW T \in SUBSET Nat, IsFiniteSet(T)
    PROVE  /\ Cardinality(T) \in Nat
           /\ \A i \in T : Position(T, i) \in 1..Cardinality(T)
           /\ \A i, j \in T : i < j => Position(T, i) # Position(T, j)
<1>1. Cardinality(T) \in Nat
  BY FS_CardinalityType
<1>2. ASSUME NEW i \in T PROVE Position(T, i) \in 1..Cardinality(T)
  <2>. DEFINE A == {j \in T : j >= i}
  <2>1. A \in SUBSET T /\ i \in A
    OBVIOUS
  <2>. HIDE DEF A
  <2>2. IsFiniteSet(A) /\ Cardinality(A) <= Cardinality(T)
    BY <2>1, FS_Subset
  <2>3. Cardinality(A) \in Nat /\ Cardinality(A) # 0
    BY <2>1, <2>2, FS_CardinalityType, FS_EmptySet
  <2>. QED
    BY <1>1, <2>2, <2>3 DEF Position, A
<1>3. ASSUME NEW i \in T, NEW j \in T, i < j, Position(T, i) = Position(T, j) PROVE FALSE
  <2>. DEFINE A == {l \in T : l >= i}
              B == {l \in T : l >= j}
  <2>1. B \in SUBSET A /\ A \in SUBSET T /\ i \in A /\ i \notin B
    <3>1. i \in Nat /\ j \in Nat /\ \A l \in T : l >= j => l >= i
      BY <1>3
    <3>2. ~(i >= j) /\ i >= i
      BY <1>3, <3>1
    <3>. QED
      BY <3>1, <3>2
  <2>2. Cardinality(A) = Cardinality(B)
    BY <1>3 DEF Position
  <2>. HIDE DEF A, B
  <2>. QED
    BY <2>1, <2>2, FS_Subset
<1>. QED
  BY <1>1, <1>2, <1>3

\* Every position is taken.
LEMMA NthIs ==
    ASSUME NEW T \in SUBSET Nat, IsFiniteSet(T), NEW n \in 1..Cardinality(T)
    PROVE  Nth(T, n) \in T /\ Position(T, Nth(T, n)) = n
<1>. DEFINE c == Cardinality(T)
            f == [i \in T |-> Position(T, i)]
<1>1. c \in Nat /\ \A i \in T : f[i] \in 1..c
  BY PositionIs
<1>2. \A i, j \in T : f[i] = f[j] => i = j
  <2>1. \A i, j \in T : i < j \/ j < i \/ i = j
    OBVIOUS
  <2>. QED
    BY <2>1, PositionIs
<1>3. IsFiniteSet(1..c) /\ Cardinality(1..c) = c
  BY <1>1, FS_Interval
<1>4. f \in [T -> 1..c]
  BY <1>1
<1>5. f \in Surjection(T, 1..c)
  <2>. HIDE DEF f
  <2>1. f \in Injection(T, 1..c)
    BY <1>2, <1>4 DEF Injection, IsInjective
  <2>. QED
    BY <1>3, <2>1, FS_Injection
<1>6. \E i \in T : f[i] = n
  <2>. HIDE DEF f
  <2>. QED
    BY <1>5 DEF Surjection
<1>. QED
  BY <1>6 DEF Nth

\* An earlier try comes last.
LEMMA EarlierTry ==
    ASSUME NEW T \in SUBSET Nat, IsFiniteSet(T), NEW m \in Nat, \A j \in T : m < j
    PROVE  /\ Cardinality(T \cup {m}) = Cardinality(T) + 1
           /\ \A n \in 1..Cardinality(T) : Nth(T \cup {m}, n) = Nth(T, n)
           /\ Nth(T \cup {m}, Cardinality(T) + 1) = m
<1>. DEFINE U == T \cup {m}
<1>1. m \notin T /\ Cardinality(T) \in Nat
  BY PositionIs
<1>2. IsFiniteSet(U) /\ Cardinality(U) = Cardinality(T) + 1
  BY <1>1, FS_AddElement
<1>3. \A i \in T : Position(U, i) = Position(T, i)
  <2>. SUFFICES ASSUME NEW i \in T PROVE Position(U, i) = Position(T, i)
    OBVIOUS
  <2>1. {j \in U : j >= i} = {j \in T : j >= i}
    <3>1. ~(m >= i)
      OBVIOUS
    <3>. QED
      BY <3>1
  <2>. QED
    BY <2>1 DEF Position
<1>4. Position(U, m) = Cardinality(T) + 1
  <2>1. {j \in U : j >= m} = U
    <3>1. \A j \in U : j >= m
      OBVIOUS
    <3>. QED
      BY <3>1
  <2>. QED
    BY <1>2, <2>1 DEF Position
<1>5. ASSUME NEW n \in 1..Cardinality(T) PROVE Nth(U, n) = Nth(T, n)
  <2>1. Nth(T, n) \in T /\ Position(T, Nth(T, n)) = n
    BY NthIs
  <2>2. \A i \in U : Position(U, i) = n <=> i = Nth(T, n)
    <3>1. Position(U, m) # n /\ m # Nth(T, n)
      BY <1>1, <1>4, <2>1
    <3>2. ASSUME NEW i \in T, Position(T, i) = n PROVE i = Nth(T, n)
      <4>1. Nth(T, n) \in Nat /\ i \in Nat
        BY <2>1
      <4>2. ~(i < Nth(T, n)) /\ ~(Nth(T, n) < i)
        BY <2>1, <3>2, PositionIs
      <4>. QED
        BY <4>1, <4>2
    <3>. QED
      BY <1>3, <2>1, <3>1, <3>2
  <2>. QED
    BY <2>1, <2>2 DEF Nth
<1>6. Nth(U, Cardinality(T) + 1) = m
  <2>1. \A i \in T : Position(U, i) # Cardinality(T) + 1
    <3>1. \A i \in T : Position(T, i) \in 1..Cardinality(T)
      BY PositionIs
    <3>. QED
      BY <1>1, <1>3, <3>1
  <2>. QED
    BY <1>4, <2>1 DEF Nth
<1>. QED
  BY <1>2, <1>5, <1>6

\* The values found at the tries of T, for the items `its`.
ValuesAt(k, T, its) == [n \in 1..Cardinality(T) |-> its[At(k, Nth(T, n))].value]

Reached(k) == Hits(k, LiveOf(k))

LEMMA PileIs ==
    /\ \A k : Pile(k) = ValuesAt(k, Reached(k), items)
    /\ cap' = cap => \A k : Pile(k)' = ValuesAt(k, Reached(k)', items')
<1>1. \A k : Pile(k) = ValuesAt(k, Reached(k), items)
  BY DEF Pile, ValuesAt, Reached, Nth, Position
<1>2. ASSUME cap' = cap PROVE \A k : Pile(k)' = ValuesAt(k, Reached(k)', items')
  <2>1. \A k : \A i : At(k, i)' = At(k, i)
    BY <1>2 DEF At, Stride
  <2>2. \A k : \A i : (djb2[k] + i * (Stride(k)')) % cap' = At(k, i)
    BY <1>2 DEF At, Stride
  <2>. QED
    BY <2>1, <2>2 DEF Pile, ValuesAt, Reached, Nth, Position
<1>. QED
  BY <1>1, <1>2

\* On the tries of T the two have the same values.
Agree(k, T, its, others) ==
    \A i \in T : /\ its[At(k, i)].value = others[At(k, i)].value
                 /\ its[At(k, i)].value \in Values

LEMMA ValuesSame ==
    ASSUME NEW k, NEW T \in SUBSET Nat, IsFiniteSet(T), NEW its, NEW others,
           Agree(k, T, its, others)
    PROVE  ValuesAt(k, T, its) = ValuesAt(k, T, others)
<1>1. \A n \in 1..Cardinality(T) : Nth(T, n) \in T
  BY NthIs
<1>. QED
  BY <1>1 DEF ValuesAt, Agree

Before(m, T) == \A i \in T : m < i

Added(old, v, new) == old \in Seq(Values) /\ new = Append(old, v)

LEMMA ValuesGrow ==
    ASSUME NEW k, NEW T \in SUBSET Nat, IsFiniteSet(T), NEW its, NEW others,
           Agree(k, T, its, others), NEW m \in Nat, Before(m, T)
    PROVE  Added(ValuesAt(k, T, its), others[At(k, m)].value,
                 ValuesAt(k, T \cup {m}, others))
<1>. DEFINE c == Cardinality(T)
            old == ValuesAt(k, T, its)
            new == ValuesAt(k, T \cup {m}, others)
            v == others[At(k, m)].value
<1>1. c \in Nat /\ \A n \in 1..c : Nth(T, n) \in T
  BY PositionIs, NthIs
<1>0. \A i \in T : m < i
  BY DEF Before
<1>2. /\ Cardinality(T \cup {m}) = c + 1
      /\ \A n \in 1..c : Nth(T \cup {m}, n) = Nth(T, n)
      /\ Nth(T \cup {m}, c + 1) = m
  BY <1>0, EarlierTry
<1>3. old = [n \in 1..c |-> its[At(k, Nth(T, n))].value]
  BY DEF ValuesAt
<1>4. new = [n \in 1..(c + 1) |-> others[At(k, Nth(T \cup {m}, n))].value]
  BY <1>2 DEF ValuesAt
<1>5. \A n \in 1..c : its[At(k, Nth(T, n))].value \in Values
  BY <1>1 DEF Agree
<1>6. \A n \in 1..c :
          others[At(k, Nth(T \cup {m}, n))].value = its[At(k, Nth(T, n))].value
  BY <1>1, <1>2 DEF Agree
<1>7. others[At(k, Nth(T \cup {m}, c + 1))].value = v
  BY <1>2
<1>. HIDE DEF c, v
<1>8. old \in Seq(Values) /\ Len(old) = c
  BY <1>1, <1>3, <1>5
<1>9. new = [n \in 1..(c + 1) |-> IF n = c + 1 THEN v ELSE old[n]]
  <2>1. \A n \in 1..(c + 1) : n = c + 1 \/ n \in 1..c
    BY <1>1
  <2>2. \A n \in 1..c : old[n] = its[At(k, Nth(T, n))].value
    BY <1>3
  <2>. HIDE DEF old, new
  <2>. QED
    BY <1>4, <1>6, <1>7, <2>1, <2>2
<1>. HIDE DEF old, new
<1>10. new = Append(old, v)
  BY <1>1, <1>8, <1>9
<1>. QED
  BY <1>8, <1>10 DEF old, new, v, Added

\* The top of a pile and what is below it.
LEMMA TopIs ==
    ASSUME NEW s \in Seq(Values), NEW v, NEW p, p = Append(s, v)
    PROVE  p # <<>> /\ p[Len(p)] = v /\ SubSeq(p, 1, Len(p) - 1) = s
<1>1. Len(p) = Len(s) + 1 /\ Len(s) \in Nat
  OBVIOUS
<1>2. p[Len(s) + 1] = v /\ \A i \in 1..Len(s) : p[i] = s[i]
  OBVIOUS
<1>. DEFINE b == SubSeq(p, 1, Len(s))
<1>3. /\ b \in Seq(Values)
      /\ Len(b) = IF 1 <= Len(s) THEN Len(s) - 1 + 1 ELSE 0
      /\ \A i \in 1..(Len(s) - 1 + 1) : b[i] = p[1 + i - 1]
  BY <1>1, <1>2, SubSeqProperties
<1>4. Len(b) = Len(s) /\ \A i \in 1..Len(s) : b[i] = s[i]
  BY <1>1, <1>2, <1>3
<1>. HIDE DEF b
<1>5. b = s
  BY <1>3, <1>4, SeqEqual
<1>6. p # <<>> /\ Len(p) - 1 = Len(s)
  BY <1>1
<1>. QED
  BY <1>1, <1>2, <1>5, <1>6 DEF b

-----------------------------------------------------------------------------
(* Tries. *)

LEMMA FirstIs ==
    ASSUME HashTypes, NEW k \in Keys, NEW S, Hits(k, S) # {}
    PROVE  \E i \in Hits(k, S) : First(k, S) = At(k, i) /\ \A j \in Hits(k, S) : i <= j
<1>1. Hits(k, S) \in SUBSET Nat
  BY DEF Hits, Tries, HashTypes
<1>2. \E i \in Hits(k, S) : \A j \in Hits(k, S) : i <= j
  BY <1>1, LeastNat
<1>. QED
  BY <1>2 DEF First

\* A key tries no slot twice.
LEMMA OneTry ==
    ASSUME HashTypes, NEW k \in Keys, NEW i \in Tries(k), NEW j \in Tries(k),
           At(k, i) = At(k, j)
    PROVE  i = j
<1>. DEFINE d == djb2[k]
            s == Stride(k)
<1>1. cap \in Nat \ {0} /\ is_prime(cap) /\ d \in Nat /\ djb2a[k] \in Nat
  BY HashAssumption DEF HashTypes
<1>2. CASE s = 0
  BY <1>2 DEF Tries
<1>3. CASE s # 0
  <2>1. s \in 1..(cap - 1)
    BY <1>1, <1>3 DEF Stride
  <2>2. i \in 0..(cap - 1) /\ j \in 0..(cap - 1)
    BY <1>3 DEF Tries
  <2>3. (d + i * s) % cap = (d + j * s) % cap
    BY DEF At
  <2>. HIDE DEF d, s
  <2>4. ~(i < j)
    BY <1>1, <2>1, <2>2, <2>3, TriesApart
  <2>5. ~(j < i)
    BY <1>1, <2>1, <2>2, <2>3, TriesApart
  <2>. QED
    BY <1>1, <2>2, <2>4, <2>5
<1>. QED
  BY <1>2, <1>3

LEMMA ReachedIs ==
    ASSUME HashTypes, NEW k \in Keys
    PROVE  /\ Reached(k) \in SUBSET Nat /\ IsFiniteSet(Reached(k))
           /\ Reached(k) \in SUBSET Tries(k)
           /\ \A i \in Reached(k) : At(k, i) \in LiveOf(k) /\ At(k, i) \in Slots
                                    /\ items[At(k, i)].value \in Values
<1>1. cap \in Nat \ {0}
  BY DEF HashTypes
<1>2. Reached(k) \in SUBSET Tries(k) /\ Tries(k) \in SUBSET (0..(cap - 1))
  BY <1>1 DEF Reached, Hits, Tries
<1>3. IsFiniteSet(Reached(k))
  <2>1. IsFiniteSet(0..(cap - 1)) /\ Reached(k) \in SUBSET (0..(cap - 1))
    BY <1>1, <1>2, FS_Interval
  <2>. QED
    BY <2>1, FS_Subset
<1>4. \A i \in Reached(k) : At(k, i) \in LiveOf(k)
  BY DEF Reached, Hits
<1>5. \A s \in LiveOf(k) : s \in Slots /\ items[s] \in Item
  BY DEF LiveOf, Live, HashTypes
<1>. QED
  BY <1>1, <1>2, <1>3, <1>4, <1>5 DEF Item

\* An item comes into the slot of a try.
LEMMA PutReached ==
    ASSUME HashTypes, NEW s \in Slots, NEW item \in Item,
           items' = [items EXCEPT ![s] = item], cap' = cap
    PROVE  /\ Unused' = Unused \ {s}
           /\ \A k \in Keys :
                 Reached(k)' = IF ~item.deleted /\ item.key = k
                               THEN Reached(k) \cup {i \in Tries(k) : At(k, i) = s}
                               ELSE Reached(k) \ {i \in Tries(k) : At(k, i) = s}
<1>1. /\ Slots' = Slots
      /\ \A t \in Slots \ {s} : items'[t] = items[t]
      /\ items'[s] = item /\ item # NULL
      /\ Live' = IF item.deleted THEN Live \ {s} ELSE Live \cup {s}
  BY PutItem
<1>2. Unused' = Unused \ {s}
  BY <1>1 DEF Unused
<1>3. ASSUME NEW k \in Keys
      PROVE  LiveOf(k)' = IF ~item.deleted /\ item.key = k
                          THEN LiveOf(k) \cup {s} ELSE LiveOf(k) \ {s}
  <2>1. \A t \in Live : t \in Slots
    BY DEF Live
  <2>. QED
    BY <1>1, <2>1 DEF LiveOf
<1>4. ASSUME NEW k \in Keys
      PROVE  Reached(k)' = IF ~item.deleted /\ item.key = k
                           THEN Reached(k) \cup {i \in Tries(k) : At(k, i) = s}
                           ELSE Reached(k) \ {i \in Tries(k) : At(k, i) = s}
  <2>1. Reached(k)' = {i \in Tries(k) : At(k, i) \in LiveOf(k)'}
    BY DEF Reached, Hits, Tries, At, Stride
  <2>2. Reached(k) = {i \in Tries(k) : At(k, i) \in LiveOf(k)}
    BY DEF Reached, Hits
  <2>. QED
    BY <1>3, <2>1, <2>2
<1>. QED
  BY <1>2, <1>4

\* A key's item is never behind a slot that was not used: the search for it
\* does not stop before it.
NoGaps ==
    \A k \in Keys : \A i \in Reached(k) : \A j \in Tries(k) :
        j < i => At(k, j) \notin Unused

Held == [k \in Keys |-> Pile(k)]

\* A pile stays as it is when an item of no concern to it changes.
LEMMA OtherPile ==
    ASSUME HashTypes, NEW s \in Slots, NEW item \in Item,
           items' = [items EXCEPT ![s] = item], cap' = cap,
           NEW k \in Keys, s \notin LiveOf(k), item.deleted \/ item.key # k
    PROVE  Pile(k)' = Pile(k) /\ Reached(k)' = Reached(k)
<1>1. \A i \in Reached(k) : At(k, i) # s /\ At(k, i) \in Slots
  BY ReachedIs
<1>2. Reached(k)' = Reached(k)
  <2>1. ~(~item.deleted /\ item.key = k)
    OBVIOUS
  <2>2. Reached(k)' = Reached(k) \ {i \in Tries(k) : At(k, i) = s}
    BY <2>1, PutReached
  <2>. QED
    BY <1>1, <2>2
<1>3. Pile(k)' = ValuesAt(k, Reached(k), items')
  BY <1>2, PileIs
<1>4. Agree(k, Reached(k), items, items')
  BY <1>1, ReachedIs DEF HashTypes, Agree
<1>5. ValuesAt(k, Reached(k), items) = ValuesAt(k, Reached(k), items')
  BY <1>4, ReachedIs, ValuesSame
<1>. QED
  BY <1>2, <1>3, <1>5, PileIs

-----------------------------------------------------------------------------
(* What a search finds, and where an insertion lands.                      *)

LEMMA FirstTry ==
    ASSUME HashTypes, NEW k \in Keys, NEW S, LiveOf(k) \subseteq S, Hits(k, S) # {}
    PROVE  \E i \in Tries(k) :
              /\ i \in Nat /\ At(k, i) = First(k, S) /\ First(k, S) \in S
              /\ {j \in Tries(k) : At(k, j) = First(k, S)} = {i}
              /\ \A j \in Reached(k) \ {i} : i < j
              /\ \A j \in Tries(k) : j < i => At(k, j) \notin S
              /\ First(k, S) \in LiveOf(k) <=> i \in Reached(k)
<1>1. Tries(k) \in SUBSET Nat
  BY DEF Tries, HashTypes
<1>2. PICK i \in Hits(k, S) : First(k, S) = At(k, i) /\ \A j \in Hits(k, S) : i <= j
  BY FirstIs
<1>3. i \in Tries(k) /\ i \in Nat /\ At(k, i) \in S
  BY <1>1, <1>2 DEF Hits
<1>4. {j \in Tries(k) : At(k, j) = First(k, S)} = {i}
  BY <1>2, <1>3, OneTry
<1>5. ASSUME NEW j \in Reached(k), j # i PROVE i < j
  <2>1. j \in Hits(k, S) /\ j \in Nat
    BY <1>1 DEF Reached, Hits
  <2>. QED
    BY <1>2, <1>3, <1>5, <2>1
<1>6. ASSUME NEW j \in Tries(k), j < i PROVE At(k, j) \notin S
  <2>1. j \in Nat /\ ~(i <= j)
    BY <1>1, <1>3, <1>6
  <2>2. j \notin Hits(k, S)
    BY <1>2, <2>1
  <2>. QED
    BY <2>2 DEF Hits
<1>7. First(k, S) \in LiveOf(k) <=> i \in Reached(k)
  BY <1>2, <1>3 DEF Reached, Hits
<1>. QED
  BY <1>2, <1>3, <1>4, <1>5, <1>6, <1>7

\* The i-th try finds slot s, whose item is on top of the pile.
OnTop(k, s, i) ==
    /\ i \in Reached(k)
    /\ At(k, i) = s /\ {j \in Tries(k) : At(k, j) = s} = {i}
    /\ ValuesAt(k, Reached(k) \ {i}, items) \in Seq(Values)
    /\ Pile(k) = Append(ValuesAt(k, Reached(k) \ {i}, items), items[s].value)

\* The item found is the top of the pile.
LEMMA FoundIsTop ==
    ASSUME HashTypes, NEW k \in Keys, NEW S, LiveOf(k) \subseteq S, Hits(k, S) # {},
           NEW s, s = First(k, S), s \in LiveOf(k)
    PROVE  \E i : OnTop(k, s, i)
<1>1. PICK i \in Tries(k) :
          /\ i \in Nat /\ At(k, i) = s
          /\ {j \in Tries(k) : At(k, j) = s} = {i}
          /\ \A j \in Reached(k) \ {i} : i < j
          /\ i \in Reached(k)
  BY FirstTry
<1>. DEFINE T == Reached(k) \ {i}
<1>2. T \in SUBSET Nat /\ T \in SUBSET Reached(k) /\ T \cup {i} = Reached(k)
  BY <1>1, ReachedIs
<1>3. IsFiniteSet(T)
  BY <1>2, ReachedIs, FS_Subset
<1>4. Agree(k, T, items, items) /\ Before(i, T)
  BY <1>1, <1>2, ReachedIs DEF Agree, Before
<1>. HIDE DEF T
<1>5. Added(ValuesAt(k, T, items), items[At(k, i)].value,
            ValuesAt(k, T \cup {i}, items))
  BY <1>1, <1>2, <1>3, <1>4, ValuesGrow
<1>6. Pile(k) = Append(ValuesAt(k, T, items), items[s].value)
  BY <1>1, <1>2, <1>5, PileIs DEF Added
<1>. QED
  BY <1>1, <1>5, <1>6 DEF T, Added, OnTop

\* A search that ends without an item ends because there is none.
LEMMA NotFound ==
    ASSUME HashTypes, NoGaps, NEW k \in Keys, NEW S, S = Unused \cup LiveOf(k),
           Hits(k, S) = {} \/ First(k, S) \notin LiveOf(k)
    PROVE  Pile(k) = <<>>
<1>1. Reached(k) = {}
  <2>1. CASE Hits(k, S) = {}
    BY <2>1 DEF Reached, Hits
  <2>2. CASE Hits(k, S) # {}
    <3>0. LiveOf(k) \subseteq S /\ First(k, S) \notin LiveOf(k)
      BY <2>2
    <3>1. PICK i \in Tries(k) :
              /\ At(k, i) = First(k, S) /\ First(k, S) \in S
              /\ \A j \in Reached(k) \ {i} : i < j
              /\ i \notin Reached(k)
      BY <2>2, <3>0, FirstTry
    <3>2. At(k, i) \in Unused
      BY <3>0, <3>1
    <3>3. \A j \in Reached(k) : ~(i < j)
      BY <3>1, <3>2 DEF NoGaps
    <3>. QED
      BY <3>1, <3>3
  <2>. QED
    BY <2>1, <2>2
<1>2. Cardinality(Reached(k)) = 0
  BY <1>1, FS_EmptySet
<1>3. ValuesAt(k, Reached(k), items) = <<>>
  BY <1>2 DEF ValuesAt
<1>. QED
  BY <1>3, PileIs

\* An insertion that finds no item of the key adds to its pile.
LEMMA Push ==
    ASSUME HashTypes, NoGaps, NEW k \in Keys, NEW S,
           LiveOf(k) \subseteq S, Unused \subseteq S, Hits(k, S) # {},
           NEW s, s = First(k, S), s \in Slots, s \notin Live,
           NEW item \in Item, ~item.deleted, item.key = k,
           items' = [items EXCEPT ![s] = item], cap' = cap
    PROVE  /\ NoGaps'
           /\ Pile(k)' = Append(Pile(k), item.value)
           /\ \A l \in Keys \ {k} : Pile(l)' = Pile(l)
<1>0. \A l \in Keys : s \notin LiveOf(l)
  BY DEF LiveOf
<1>1. PICK i \in Tries(k) :
          /\ i \in Nat /\ At(k, i) = s
          /\ {j \in Tries(k) : At(k, j) = s} = {i}
          /\ \A j \in Reached(k) \ {i} : i < j
          /\ \A j \in Tries(k) : j < i => At(k, j) \notin S
          /\ i \notin Reached(k)
  BY <1>0, FirstTry
<1>2. /\ Unused' = Unused \ {s} /\ Reached(k)' = Reached(k) \cup {i}
  BY <1>1, PutReached
<1>3. \A l \in Keys \ {k} : Pile(l)' = Pile(l) /\ Reached(l)' = Reached(l)
  BY <1>0, OtherPile
<1>4. Pile(k)' = Append(Pile(k), item.value)
  <2>1. \A j \in Reached(k) : At(k, j) # s /\ At(k, j) \in Slots /\ i < j
    BY <1>0, <1>1, ReachedIs
  <2>2. Agree(k, Reached(k), items, items') /\ Before(i, Reached(k))
    BY <2>1, ReachedIs DEF HashTypes, Agree, Before
  <2>3. Added(ValuesAt(k, Reached(k), items), items'[At(k, i)].value,
              ValuesAt(k, Reached(k) \cup {i}, items'))
    BY <1>1, <2>2, ReachedIs, ValuesGrow
  <2>4. items'[At(k, i)].value = item.value
    BY <1>1 DEF HashTypes
  <2>. QED
    BY <1>2, <2>3, <2>4, PileIs DEF Added
<1>5. ASSUME NEW l \in Keys, NEW n \in Reached(l)', NEW j \in Tries(l), j < n
      PROVE  At(l, j) \notin Unused'
  <2>1. CASE n \in Reached(l)
    BY <1>2, <1>5, <2>1 DEF NoGaps
  <2>2. CASE n \notin Reached(l)
    <3>1. l = k /\ n = i
      BY <1>2, <1>3, <1>5, <2>2
    <3>. QED
      BY <1>1, <1>2, <1>5, <3>1
  <2>. QED
    BY <2>1, <2>2
<1>6. NoGaps'
  BY <1>5 DEF NoGaps, At, Tries, Stride
<1>. QED
  BY <1>3, <1>4, <1>6

\* The slots in use stay in use: only a new item could end up behind a gap.
LEMMA GapsStay ==
    ASSUME NoGaps, cap' = cap, Unused' \subseteq Unused,
           \A l \in Keys : Reached(l)' \subseteq Reached(l)
    PROVE  NoGaps'
BY DEF NoGaps, At, Tries, Stride

\* An insertion that finds an item of the key replaces the top of its pile.
Swapped(old, v, new, w) ==
    \E rest \in Seq(Values) : old = Append(rest, v) /\ new = Append(rest, w)

LEMMA Swap ==
    ASSUME HashTypes, NoGaps, NEW k \in Keys, NEW S, LiveOf(k) \subseteq S, Hits(k, S) # {},
           NEW s, s = First(k, S), s \in LiveOf(k),
           NEW item \in Item, ~item.deleted, item.key = k,
           items' = [items EXCEPT ![s] = item], cap' = cap
    PROVE  /\ NoGaps'
           /\ Swapped(Pile(k), items[s].value, Pile(k)', item.value)
           /\ \A l \in Keys \ {k} : Pile(l)' = Pile(l)
<1>1. PICK i \in Reached(k) :
          /\ At(k, i) = s /\ {j \in Tries(k) : At(k, j) = s} = {i}
          /\ ValuesAt(k, Reached(k) \ {i}, items) \in Seq(Values)
          /\ Pile(k) = Append(ValuesAt(k, Reached(k) \ {i}, items), items[s].value)
  <2>1. PICK i : OnTop(k, s, i)
    BY FoundIsTop
  <2>. QED
    BY <2>1 DEF OnTop
<1>2. i \in Nat /\ s \in Slots /\ i \in Tries(k)
  BY <1>1, ReachedIs
<1>. DEFINE T == Reached(k) \ {i}
<1>3. T \in SUBSET Nat /\ T \in SUBSET Reached(k) /\ T \cup {i} = Reached(k)
  BY <1>1, ReachedIs
<1>4. IsFiniteSet(T)
  BY <1>3, ReachedIs, FS_Subset
<1>5. Before(i, T)
  <2>1. PICK n \in Tries(k) :
            At(k, n) = First(k, S) /\ \A j \in Reached(k) \ {n} : n < j
    BY FirstTry
  <2>2. n = i
    BY <1>1, <1>2, <2>1
  <2>. QED
    BY <2>1, <2>2 DEF Before
<1>6. \A j \in T : At(k, j) # s /\ At(k, j) \in Slots
  BY <1>1, ReachedIs
<1>7. Agree(k, T, items, items')
  BY <1>3, <1>6, ReachedIs DEF Agree, HashTypes
<1>8. Reached(k)' = T \cup {i} /\ Unused' \subseteq Unused
  BY <1>1, <1>2, <1>3, PutReached
<1>9. \A l \in Keys \ {k} : Pile(l)' = Pile(l) /\ Reached(l)' = Reached(l)
  <2>1. \A l \in Keys \ {k} : s \notin LiveOf(l)
    BY DEF LiveOf
  <2>. QED
    BY <1>2, <2>1, OtherPile
<1>10. \A l \in Keys : Reached(l)' \subseteq Reached(l)
  BY <1>3, <1>8, <1>9
<1>11. items'[At(k, i)].value = item.value
  BY <1>1, <1>2 DEF HashTypes
<1>. HIDE DEF T
<1>12. Added(ValuesAt(k, T, items), items'[At(k, i)].value,
             ValuesAt(k, T \cup {i}, items'))
  BY <1>2, <1>3, <1>4, <1>5, <1>7, ValuesGrow
<1>13. Pile(k)' = Append(ValuesAt(k, T, items), item.value)
  BY <1>8, <1>11, <1>12, PileIs DEF Added
<1>14. NoGaps'
  BY <1>8, <1>10, GapsStay
<1>. QED
  BY <1>1, <1>9, <1>13, <1>14 DEF T, Swapped

\* A removal takes the top off the pile.
LEMMA Pop ==
    ASSUME HashTypes, NoGaps, NEW k \in Keys, NEW S, LiveOf(k) \subseteq S, Hits(k, S) # {},
           NEW s, s = First(k, S), s \in LiveOf(k),
           NEW item \in Item, item.deleted,
           items' = [items EXCEPT ![s] = item], cap' = cap
    PROVE  /\ NoGaps'
           /\ Pile(k)' \in Seq(Values)
           /\ Pile(k) = Append(Pile(k)', items[s].value)
           /\ \A l \in Keys \ {k} : Pile(l)' = Pile(l)
<1>1. PICK i \in Reached(k) :
          /\ At(k, i) = s /\ {j \in Tries(k) : At(k, j) = s} = {i}
          /\ ValuesAt(k, Reached(k) \ {i}, items) \in Seq(Values)
          /\ Pile(k) = Append(ValuesAt(k, Reached(k) \ {i}, items), items[s].value)
  <2>1. PICK i : OnTop(k, s, i)
    BY FoundIsTop
  <2>. QED
    BY <2>1 DEF OnTop
<1>2. s \in Slots
  BY <1>1, ReachedIs
<1>. DEFINE T == Reached(k) \ {i}
<1>3. T \in SUBSET Nat /\ T \in SUBSET Reached(k)
  BY ReachedIs
<1>4. IsFiniteSet(T)
  BY <1>3, ReachedIs, FS_Subset
<1>5. \A j \in T : At(k, j) # s /\ At(k, j) \in Slots
  BY <1>1, ReachedIs
<1>6. Agree(k, T, items, items')
  BY <1>3, <1>5, ReachedIs DEF HashTypes, Agree
<1>7. Reached(k)' = T /\ Unused' \subseteq Unused
  <2>1. ~(~item.deleted /\ item.key = k)
    OBVIOUS
  <2>2. Reached(k)' = Reached(k) \ {j \in Tries(k) : At(k, j) = s}
    BY <1>2, <2>1, PutReached
  <2>3. Unused' = Unused \ {s}
    BY <1>2, PutReached
  <2>. QED
    BY <1>1, <2>2, <2>3
<1>8. \A l \in Keys \ {k} : Pile(l)' = Pile(l) /\ Reached(l)' = Reached(l)
  <2>1. \A l \in Keys \ {k} : s \notin LiveOf(l)
    BY DEF LiveOf
  <2>. QED
    BY <1>2, <2>1, OtherPile
<1>9. \A l \in Keys : Reached(l)' \subseteq Reached(l)
  BY <1>3, <1>7, <1>8
<1>. HIDE DEF T
<1>10. ValuesAt(k, T, items) = ValuesAt(k, T, items')
  BY <1>3, <1>4, <1>6, ValuesSame
<1>11. Pile(k)' = ValuesAt(k, T, items)
  BY <1>7, <1>10, PileIs
<1>12. NoGaps'
  BY <1>7, <1>9, GapsStay
<1>. QED
  BY <1>1, <1>8, <1>11, <1>12 DEF T

\* No item of the table changes.
LEMMA PilesStay ==
    ASSUME UNCHANGED tableVars
    PROVE  Held' = Held /\ NoGaps' = NoGaps
<1>1. cap' = cap /\ items' = items
  BY DEF tableVars
<1>2. \A k \in Keys : Reached(k)' = Reached(k)
  BY <1>1 DEF Reached, Hits, LiveOf, Live, Slots, Tries, At, Stride
<1>3. \A k \in Keys : Pile(k)' = Pile(k)
  BY <1>1, <1>2, PileIs
<1>4. Unused' = Unused
  BY <1>1 DEF Unused, Slots
<1>. QED
  BY <1>1, <1>2, <1>3, <1>4 DEF Held, NoGaps, At, Tries, Stride

\* In an empty table every pile is empty.
LEMMA EmptyPiles ==
    /\ Live = {} => Held = [k \in Keys |-> <<>>] /\ NoGaps
    /\ Live' = {} => Held' = [k \in Keys |-> <<>>] /\ NoGaps'
<1>2. ASSUME Live = {} PROVE Held = [k \in Keys |-> <<>>] /\ NoGaps
  <2>1. \A k \in Keys : Reached(k) = {} /\ Hits(k, LiveOf(k)) = {}
    BY <1>2 DEF Reached, Hits, LiveOf
  <2>2. \A k \in Keys : Pile(k) = <<>>
    BY <2>1, FS_EmptySet DEF Pile
  <2>. QED
    BY <2>1, <2>2 DEF Held, NoGaps
<1>3. ASSUME Live' = {} PROVE Held' = [k \in Keys |-> <<>>] /\ NoGaps'
  <2>1. \A k \in Keys : Reached(k)' = {} /\ Hits(k, LiveOf(k))' = {}
    BY <1>3 DEF Reached, Hits, LiveOf
  <2>2. \A k \in Keys : Pile(k)' = <<>>
    BY <2>1, FS_EmptySet DEF Pile
  <2>. QED
    BY <2>1, <2>2 DEF Held, NoGaps
<1>. QED
  BY <1>2, <1>3

-----------------------------------------------------------------------------
(* HashTable implements Dictionary.                                        *)

LEMMA HeldPut ==
    ASSUME NEW k \in Keys, \A l \in Keys \ {k} : Pile(l)' = Pile(l)
    PROVE  Held' = [Held EXCEPT ![k] = Pile(k)'] /\ Held[k] = Pile(k)
BY DEF Held

\* An insertion that is refused, or that crashes, adds nothing.
LEMMA RefuseMaps ==
    ASSUME NoGaps, NEW k \in Keys, UNCHANGED tableVars,
           Answer("insert", k, 1) \/ UNCHANGED result
    PROVE  NoGaps' /\ (Piles!Refuse(k) \/ UNCHANGED Piles!vars)
<1>1. Held' = Held /\ NoGaps'
  BY PilesStay
<1>. QED
  BY <1>1 DEF Held, Answer, Piles!Refuse, Piles!Answer, Piles!vars

\* A new item on a pile, in place of its top or above it.
LEMMA InsertMaps ==
    ASSUME HashInv, NoGaps, NEW k \in Keys, hashtable_insert(k)
    PROVE  /\ NoGaps'
           /\ Piles!Next \/ UNCHANGED Piles!vars
<1>. DEFINE v == inserts + 1
            stops == Unused \cup Marked \cup LiveOf(k)
            s == First(k, stops)
<1>1. HashTypes /\ v \in Values /\ LiveOf(k) \subseteq stops /\ Unused \subseteq stops
  BY DEF HashInv, HashTypes, hashtable_insert, Values
<1>2. CASE Refuse(k) \/ (s \in LiveOf(k) /\ Replace(k, v, s) /\ ~destructor)
  <2>1. UNCHANGED tableVars /\ (Answer("insert", k, 1) \/ UNCHANGED result)
    BY <1>2 DEF Refuse, Replace
  <2>. QED
    BY <2>1, RefuseMaps DEF Piles!Next
<1>3. CASE Hits(k, stops) # {} /\ s \in LiveOf(k) /\ Replace(k, v, s) /\ destructor
  <2>. DEFINE item == [items[s] EXCEPT !.value = v]
  <2>1. items[s] \in Item /\ ~items[s].deleted /\ items[s].key = k
    BY <1>1, <1>3 DEF LiveOf, Live, HashTypes
  <2>2. /\ item \in Item /\ ~item.deleted /\ item.key = k /\ item.value = v
        /\ items' = [items EXCEPT ![s] = item] /\ cap' = cap
        /\ Answer("insert", k, 0)
    BY <1>1, <1>3, <2>1 DEF Replace, Item
  <2>. HIDE DEF stops, s, item, v
  <2>3. /\ NoGaps'
        /\ Swapped(Pile(k), items[s].value, Pile(k)', item.value)
        /\ \A l \in Keys \ {k} : Pile(l)' = Pile(l)
    BY <1>1, <1>3, <2>2, Swap DEF s
  <2>4. PICK rest \in Seq(Values) :
            Pile(k) = Append(rest, items[s].value) /\ Pile(k)' = Append(rest, v)
    BY <2>2, <2>3 DEF Swapped
  <2>5. SubSeq(Held[k], 1, Len(Held[k]) - 1) = rest
    BY <2>3, <2>4, HeldPut, TopIs
  <2>6. Held' = [Held EXCEPT ![k] = Append(SubSeq(Held[k], 1, Len(Held[k]) - 1), v)]
    BY <2>3, <2>4, <2>5, HeldPut
  <2>7. Piles!Insert(k, v)
    BY <2>2, <2>6 DEF Piles!Insert, Piles!Below, Piles!Answer, Answer, Held
  <2>. QED
    BY <1>1, <2>3, <2>7 DEF Piles!Next
<1>4. CASE /\ Hits(k, stops) # {}
           /\ (s \in Marked /\ Reuse(k, v, s)) \/ (s \in Unused /\ Fill(k, v, s))
  <2>. DEFINE item == NewItem(k, v)
  <2>1. s \in Slots /\ s \notin Live
    BY <1>4 DEF Marked, Unused, Live
  <2>2. /\ item \in Item /\ ~item.deleted /\ item.key = k /\ item.value = v
        /\ items' = [items EXCEPT ![s] = item] /\ cap' = cap
        /\ Answer("insert", k, 0)
    BY <1>1, <1>4 DEF Reuse, Fill, NewItem, Item
  <2>. HIDE DEF stops, s, item, v
  <2>3. /\ NoGaps' /\ Pile(k)' = Append(Pile(k), item.value)
        /\ \A l \in Keys \ {k} : Pile(l)' = Pile(l)
    BY <1>1, <1>4, <2>1, <2>2, Push DEF s
  <2>4. Held' = [Held EXCEPT ![k] = Append(@, v)]
    BY <2>2, <2>3, HeldPut
  <2>5. Piles!Insert(k, v)
    BY <2>2, <2>4 DEF Piles!Insert, Piles!Answer, Answer, Held
  <2>. QED
    BY <1>1, <2>3, <2>5 DEF Piles!Next
<1>. QED
  BY <1>2, <1>3, <1>4 DEF hashtable_insert

LEMMA SearchMaps ==
    ASSUME HashInv, NoGaps, NEW k \in Keys, hashtable_search(k)
    PROVE  NoGaps' /\ Piles!Search(k)
<1>. DEFINE stops == Unused \cup LiveOf(k)
            s == First(k, stops)
            found == Hits(k, stops) # {} /\ s \in LiveOf(k)
<1>1. HashTypes /\ LiveOf(k) \subseteq stops
  BY DEF HashInv
<1>2. UNCHANGED tableVars /\ Answer("search", k, IF found THEN items[s].value ELSE NULL)
  BY DEF hashtable_search
<1>3. Held' = Held /\ NoGaps'
  BY <1>2, PilesStay
<1>4. Held[k] = Pile(k)
  BY DEF Held
<1>5. (IF found THEN items[s].value ELSE NULL)
          = IF Held[k] = <<>> THEN NULL ELSE Held[k][Len(Held[k])]
  <2>1. CASE found
    <3>. HIDE DEF stops, s
    <3>1. PICK i : OnTop(k, s, i)
      BY <1>1, <2>1, FoundIsTop DEF s
    <3>2. Pile(k) # <<>> /\ Pile(k)[Len(Pile(k))] = items[s].value
      BY <3>1, TopIs DEF OnTop
    <3>. HIDE DEF found
    <3>. QED
      BY <1>4, <2>1, <3>2
  <2>2. CASE ~found
    <3>1. Pile(k) = <<>>
      BY <1>1, <2>2, NotFound
    <3>. QED
      BY <1>4, <2>2, <3>1
  <2>. QED
    BY <2>1, <2>2
<1>. HIDE DEF found, s
<1>. QED
  BY <1>2, <1>3, <1>5 DEF Piles!Search, Piles!Top, Piles!Answer, Answer, Held

\* A removal that returns takes the top off a pile; one that spins was of a
\* key without values.
LEMMA RemoveMaps ==
    ASSUME HashInv, NoGaps, NEW k \in Keys, hashtable_remove(k)
    PROVE  NoGaps' /\ (Piles!Remove(k) \/ Piles!Hang(k))
<1>. DEFINE stops == Unused \cup LiveOf(k)
            s == First(k, stops)
<1>1. HashTypes /\ LiveOf(k) \subseteq stops /\ Held[k] = Pile(k)
  BY DEF HashInv, Held
<1>2. CASE Hits(k, stops) = {} /\ Answer("remove", k, NULL) /\ UNCHANGED tableVars
  <2>1. Held' = Held /\ NoGaps' /\ Pile(k) = <<>>
    BY <1>1, <1>2, PilesStay, NotFound
  <2>. QED
    BY <1>1, <1>2, <2>1 DEF Piles!Hang, Piles!Answer, Answer, Held
<1>3. CASE s \in Unused /\ Answer("remove", k, 1) /\ UNCHANGED tableVars
  <2>1. s \notin LiveOf(k)
    BY <1>3 DEF Unused, LiveOf, Live
  <2>2. Held' = Held /\ NoGaps' /\ Pile(k) = <<>>
    BY <1>1, <1>3, <2>1, PilesStay, NotFound
  <2>3. SubSeq(Held[k], 1, Len(Held[k]) - 1) = Held[k]
    BY <1>1, <2>2, SubSeqEmpty
  <2>4. Held' = [Held EXCEPT ![k] = SubSeq(Held[k], 1, Len(Held[k]) - 1)]
    BY <2>2, <2>3 DEF Held
  <2>. QED
    BY <1>1, <1>3, <2>2, <2>4 DEF Piles!Remove, Piles!Below, Piles!Answer, Answer, Held
<1>4. CASE Hits(k, stops) # {} /\ s \in LiveOf(k) /\ Mark(s) /\ cap' = cap
           /\ Answer("remove", k, 0)
  <2>. DEFINE item == [items[s] EXCEPT !.deleted = TRUE]
  <2>1. items[s] \in Item
    BY <1>1, <1>4 DEF LiveOf, Live, HashTypes
  <2>2. item \in Item /\ item.deleted /\ items' = [items EXCEPT ![s] = item]
    BY <1>1, <1>4, <2>1 DEF Mark, Item
  <2>. HIDE DEF stops, s, item
  <2>3. /\ NoGaps' /\ Pile(k)' \in Seq(Values)
        /\ Pile(k) = Append(Pile(k)', items[s].value)
        /\ \A l \in Keys \ {k} : Pile(l)' = Pile(l)
    BY <1>1, <1>4, <2>2, Pop DEF s
  <2>4. SubSeq(Held[k], 1, Len(Held[k]) - 1) = Pile(k)' /\ Held[k] # <<>>
    BY <1>1, <2>3, TopIs
  <2>5. Held' = [Held EXCEPT ![k] = SubSeq(Held[k], 1, Len(Held[k]) - 1)]
    BY <2>3, <2>4, HeldPut
  <2>. QED
    BY <1>4, <2>3, <2>4, <2>5 DEF Piles!Remove, Piles!Below, Piles!Answer, Answer, Held
<1>. QED
  BY <1>2, <1>3, <1>4 DEF hashtable_remove

LEMMA FreeMaps ==
    ASSUME hashtable_delete_table
    PROVE  NoGaps' /\ Piles!Clear
<1>1. Live' = {} /\ UNCHANGED result
  BY DEF hashtable_delete_table, Live, Slots
<1>2. Held' = [k \in Keys |-> <<>>] /\ NoGaps'
  BY <1>1, EmptyPiles
<1>. QED
  BY <1>1, <1>2 DEF Piles!Clear, Held

LEMMA NewTableMaps == hashtable_new_table => NoGaps /\ Piles!Init
<1>. SUFFICES ASSUME hashtable_new_table PROVE NoGaps /\ Piles!Init
  OBVIOUS
<1>1. Live = {} /\ result = [op |-> "none", key |-> NULL, value |-> NULL]
  BY DEF hashtable_new_table, Live
<1>2. Held = [k \in Keys |-> <<>>] /\ NoGaps
  BY <1>1, EmptyPiles
<1>. QED
  BY <1>1, <1>2 DEF Piles!Init, Piles!NoResult, Held

LEMMA StepMaps ==
    ASSUME HashInv, NoGaps, [HashNext]_hashVars
    PROVE  NoGaps' /\ [Piles!Next]_(Piles!vars)
<1>1. CASE UNCHANGED hashVars
  <2>1. UNCHANGED tableVars /\ UNCHANGED result
    BY <1>1 DEF hashVars
  <2>2. Held' = Held /\ NoGaps'
    BY <2>1, PilesStay
  <2>. QED
    BY <2>1, <2>2 DEF Piles!vars, Held
<1>2. CASE hashtable_delete_table
  BY <1>2, FreeMaps DEF Piles!Next
<1>3. ASSUME NEW k \in Keys,
             hashtable_insert(k) \/ hashtable_search(k) \/ hashtable_remove(k)
      PROVE  NoGaps' /\ [Piles!Next]_(Piles!vars)
  BY <1>3, InsertMaps, SearchMaps, RemoveMaps DEF Piles!Next
<1>. QED
  BY <1>1, <1>2, <1>3 DEF HashNext

\* An item is never behind a gap, where no search would come to it.
THEOREM ItemsReachable == HashSpec => []NoGaps
<1>1. hashtable_new_table => HashInv /\ NoGaps
  BY NewTable, NewTableMaps
<1>2. HashInv /\ NoGaps /\ [HashNext]_hashVars => (HashInv /\ NoGaps)'
  BY HashStep, StepMaps
<1>. QED
  BY <1>1, <1>2, PTL DEF HashSpec

\* ImplementsDictionary for any keys, hashes and capacities.
THEOREM DictionaryImplemented == HashSpec => ImplementsDictionary
<1>1. HashInv /\ NoGaps /\ [HashNext]_hashVars => [Piles!Next]_(Piles!vars)
  BY StepMaps
<1>2. hashtable_new_table => Piles!Init
  BY NewTableMaps
<1>. QED
  BY <1>1, <1>2, HashInvariant, ItemsReachable, PTL
     DEF HashSpec, ImplementsDictionary, Piles!Spec
=============================================================================
