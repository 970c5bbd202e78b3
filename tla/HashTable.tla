----------------------------- MODULE HashTable -----------------------------
(***************************************************************************)
(* The open-addressing hash table of hashtable.c: double hashing, deleted  *)
(* marks, and values owned by the table.  An action is one call.           *)
(*                                                                         *)
(* The keys' hashes are arbitrary; that the sum of a slot number and a     *)
(* hash does not wrap around 2^64 is assumed.                              *)
(***************************************************************************)
EXTENDS Integers, FiniteSets

CONSTANTS
    Keys,
    djb2, djb2a,  \* the two hashes of a key
    Hints,        \* cap_hint, as given to hashtable_new_table
    MaxInserts,   \* bound on the insertions in a behaviour
    NULL

ASSUME HashAssumption == djb2 \in [Keys -> Nat] /\ djb2a \in [Keys -> Nat]
ASSUME HintsAssumption == Hints \subseteq Nat
ASSUME MaxInsertsAssumption == MaxInserts \in Nat

\* Values are told apart by the insertion they were given to.
Values == 1..MaxInserts
Item == [key : Keys, value : Values, deleted : BOOLEAN]

ASSUME NULLAssumption == NULL \notin Keys \cup Nat \cup Item

VARIABLES
    status,       \* "ok", "crashed" (NULL destructor called), "spinning" in
                  \* hashtable_remove, or "freed"
    destructor,   \* the table has a destructor
    cap, size, occupied, items,
    inserts,      \* insertions so far
    taken,        \* the values the table has accepted
    destroyed,    \* per value: how often it was destroyed
    result        \* the last operation and what it returned

tableVars == <<cap, size, occupied, items, destructor>>
hashVars == <<status, tableVars, inserts, taken, destroyed, result>>

-----------------------------------------------------------------------------
(* Slots.                                                                  *)

is_prime(x) ==
    /\ x > 0
    /\ \A i \in 2..(x - 1) : i * i <= x => x % i # 0

next_prime(start) ==
    CHOOSE p \in start..(2 * start + 1) :
        is_prime(p) /\ \A q \in start..(p - 1) : ~is_prime(q)

\* The loop of next_prime ends before it has doubled its argument (Bertrand).
ASSUME PrimesAssumption == \A h \in Hints : \E p \in h..(2 * h + 1) : is_prime(p)

Slots == 0..(cap - 1)
Unused == {s \in Slots : items[s] = NULL}
Marked == {s \in Slots : items[s] # NULL /\ items[s].deleted}
Live == {s \in Slots : items[s] # NULL /\ ~items[s].deleted}
LiveOf(k) == {s \in Live : items[s].key = k}

\* Faulty variant: the 1 that is added to the second hash is forgotten.
StrideMayBeZero(k) == djb2a[k] % cap
Stride(k) == (djb2a[k] + 1) % cap

\* The slots a key tries, in order: all of them, because cap is prime, or
\* just its first one.
At(k, i) == (djb2[k] + i * Stride(k)) % cap
Tries(k) == IF Stride(k) = 0 THEN {0} ELSE 0..(cap - 1)

\* The tries that find a slot of S, and the first of these slots.
Hits(k, S) == {i \in Tries(k) : At(k, i) \in S}
First(k, S) == At(k, CHOOSE i \in Hits(k, S) : \A j \in Hits(k, S) : i <= j)

-----------------------------------------------------------------------------
(* Operations.                                                             *)

Answer(op, k, value) == result' = [op |-> op, key |-> k, value |-> value]

NewItem(k, v) == [key |-> k, value |-> v, deleted |-> FALSE]
Destroy(v) == destroyed' = [destroyed EXCEPT ![v] = @ + 1]

Refuse(k) ==
    Answer("insert", k, 1) /\ UNCHANGED <<status, tableVars, taken, destroyed>>

\* The key is there: its value is replaced.  Only here is the destructor
\* called without looking whether there is one.
Replace(k, v, s) ==
    IF destructor
    THEN /\ Destroy(items[s].value)
         /\ items' = [items EXCEPT ![s].value = v]
         /\ taken' = taken \cup {v}
         /\ Answer("insert", k, 0)
         /\ UNCHANGED <<status, cap, size, occupied, destructor>>
    ELSE /\ status' = "crashed"
         /\ UNCHANGED <<tableVars, taken, destroyed, result>>

\* Faulty variant: the item that gives way stays counted.
ReuseCounted(k, v, s) ==
    /\ Destroy(items[s].value)
    /\ items' = [items EXCEPT ![s] = NewItem(k, v)]
    /\ taken' = taken \cup {v}
    /\ size' = size + 1
    /\ occupied' = occupied + 1
    /\ Answer("insert", k, 0)
    /\ UNCHANGED <<status, cap, destructor>>
\* A marked slot is reused without looking for the key behind it.
Reuse(k, v, s) ==
    /\ Destroy(items[s].value)
    /\ items' = [items EXCEPT ![s] = NewItem(k, v)]
    /\ taken' = taken \cup {v}
    /\ size' = size + 1
    /\ Answer("insert", k, 0)
    /\ UNCHANGED <<status, cap, occupied, destructor>>

Fill(k, v, s) ==
    /\ items' = [items EXCEPT ![s] = NewItem(k, v)]
    /\ taken' = taken \cup {v}
    /\ size' = size + 1
    /\ occupied' = occupied + 1
    /\ Answer("insert", k, 0)
    /\ UNCHANGED <<status, cap, destructor, destroyed>>

hashtable_insert(k) ==
    LET v == inserts + 1
        stops == Unused \cup Marked \cup LiveOf(k)
    IN
    /\ status = "ok" /\ v <= MaxInserts
    /\ inserts' = v
    /\ \/ size = cap /\ Refuse(k)
       \/ size # cap /\ Hits(k, stops) = {} /\ Refuse(k)
       \/ /\ size # cap /\ Hits(k, stops) # {}
          /\ LET s == First(k, stops) IN
             \/ s \in LiveOf(k) /\ Replace(k, v, s)
             \/ s \in Marked /\ Reuse(k, v, s)
             \/ s \in Unused /\ Fill(k, v, s)

hashtable_search(k) ==
    LET stops == Unused \cup LiveOf(k)
        found == Hits(k, stops) # {} /\ First(k, stops) \in LiveOf(k)
    IN
    /\ status = "ok"
    /\ Answer("search", k, IF found THEN items[First(k, stops)].value ELSE NULL)
    /\ UNCHANGED <<status, tableVars, inserts, taken, destroyed>>

\* Faulty variants: the slot is emptied; the value is destroyed at once, and
\* again when the slot is reused.
RemoveEmpties(s) == items' = [items EXCEPT ![s] = NULL] /\ UNCHANGED destroyed
RemoveDestroys(s) ==
    items' = [items EXCEPT ![s].deleted = TRUE] /\ Destroy(items[s].value)
Mark(s) == items' = [items EXCEPT ![s].deleted = TRUE] /\ UNCHANGED destroyed

\* There is no test for having tried every slot: without an unused one among
\* them an absent key is looked for for ever.
hashtable_remove(k) ==
    LET stops == Unused \cup LiveOf(k) IN
    /\ status = "ok"
    /\ \/ /\ Hits(k, stops) = {}
          /\ status' = "spinning"
          /\ Answer("remove", k, NULL)
          /\ UNCHANGED <<tableVars, destroyed>>
       \/ /\ Hits(k, stops) # {} /\ First(k, stops) \in Unused
          /\ Answer("remove", k, 1)
          /\ UNCHANGED <<status, tableVars, destroyed>>
       \/ /\ Hits(k, stops) # {} /\ First(k, stops) \in LiveOf(k)
          /\ Mark(First(k, stops))
          /\ size' = size - 1
          /\ Answer("remove", k, 0)
          /\ UNCHANGED <<status, cap, occupied, destructor>>
    /\ UNCHANGED <<inserts, taken>>

\* Faulty variant: a marked item is taken to have given up its value.
DeletedItems == Live
DoomedItems == Live \cup Marked

hashtable_delete_table ==
    /\ status = "ok"
    /\ status' = "freed"
    /\ LET doomed == {items[s].value : s \in DoomedItems}
       IN destroyed' = [v \in Values |-> destroyed[v] + (IF v \in doomed THEN 1 ELSE 0)]
    /\ items' = [s \in Slots |-> NULL]
    /\ UNCHANGED <<cap, size, occupied, destructor, inserts, taken, result>>

-----------------------------------------------------------------------------
hashtable_new_table ==
    /\ status = "ok"
    /\ destructor \in BOOLEAN
    /\ \E hint \in Hints : cap = next_prime(hint)
    /\ size = 0
    /\ occupied = 0
    /\ items = [s \in Slots |-> NULL]
    /\ inserts = 0
    /\ taken = {}
    /\ destroyed = [v \in Values |-> 0]
    /\ result = [op |-> "none", key |-> NULL, value |-> NULL]

HashNext ==
    \/ hashtable_delete_table
    \/ \E k \in Keys :
           hashtable_insert(k) \/ hashtable_search(k) \/ hashtable_remove(k)

HashSpec == hashtable_new_table /\ [][HashNext]_hashVars

-----------------------------------------------------------------------------
(* Properties.                                                             *)

\* size counts the live items and occupied the slots in use, deleted marks
\* included, after any mixture of insertions, removals and reuse.
CountsAgree ==
    status # "freed" =>
        /\ size = Cardinality(Live)
        /\ occupied = Cardinality(Live \cup Marked)

\* Every value the table has accepted is in the care of one item or has been
\* destroyed, once: none is lost, shared, destroyed twice or destroyed while
\* a search could still return it, and none survives hashtable_delete_table.
Holders(v) == {s \in Live \cup Marked : items[s].value = v}
ValuesOwnedOnce ==
    /\ \A v \in Values :
           Cardinality(Holders(v)) + destroyed[v] = IF v \in taken THEN 1 ELSE 0
    /\ status = "freed" => Live \cup Marked = {}

\* hashtable_remove spins only in a table whose slots have all been used, if
\* only by items removed since, or for a key that tries a single slot.
SpinMeansUsedUp ==
    status = "spinning" =>
        occupied = cap \/ (djb2a[result.key] + 1) % cap = 0

\* The pile of a key: its live items in the order it tries their slots, the
\* first one on top.
Pile(k) ==
    LET tries == Hits(k, LiveOf(k))
        Rank(i) == Cardinality({j \in tries : j >= i})
    IN [n \in 1..Cardinality(tries) |->
            items[At(k, CHOOSE i \in tries : Rank(i) = n)].value]

Piles == INSTANCE Dictionary WITH NoValue <- NULL, held <- [k \in Keys |-> Pile(k)]

\* Whatever collides with what, and however slots are reused: the newest
\* value of a key is the one found, a value leaves only when its own key is
\* inserted or removed, and only the removal of an absent key may not return.
ImplementsDictionary == Piles!Spec
=============================================================================
