----------------------------- MODULE Dictionary -----------------------------
(***************************************************************************)
(* What the hash table of hashtable.c promises its users, without slots,   *)
(* probing and deleted marks: each key has a pile of values, of which the  *)
(* top one counts.  Module HashTable implements it.                        *)
(*                                                                         *)
(* It is a pile and not a single value because an insertion may add to it  *)
(* instead of replacing its top; a removal then uncovers the value before. *)
(***************************************************************************)
EXTENDS Integers, Sequences

CONSTANTS Keys, Values, NoValue

VARIABLES
    held,      \* per key: its values, the top one last
    result     \* the last operation and what it returned

vars == <<held, result>>

Top(k) == IF held[k] = <<>> THEN NoValue ELSE held[k][Len(held[k])]
Below(k) == SubSeq(held[k], 1, Len(held[k]) - 1)
Answer(op, k, value) == result' = [op |-> op, key |-> k, value |-> value]

\* The value counts from now on, whether or not the key had one.
Insert(k, v) ==
    /\ held' \in {[held EXCEPT ![k] = Append(@, v)], [held EXCEPT ![k] = Append(Below(k), v)]}
    /\ Answer("insert", k, 0)

Refuse(k) == UNCHANGED held /\ Answer("insert", k, 1)

Search(k) == UNCHANGED held /\ Answer("search", k, Top(k))

Remove(k) ==
    /\ held' = [held EXCEPT ![k] = Below(k)]
    /\ Answer("remove", k, IF held[k] = <<>> THEN 1 ELSE 0)

\* A removal may never return, but only that of a key without values.
Hang(k) == held[k] = <<>> /\ UNCHANGED held /\ Answer("remove", k, NoValue)

Clear == held' = [k \in Keys |-> <<>>] /\ UNCHANGED result

NoResult == [op |-> "none", key |-> NoValue, value |-> NoValue]

Init == held = [k \in Keys |-> <<>>] /\ result = NoResult

Next ==
    \/ Clear
    \/ \E k \in Keys :
           \/ Refuse(k) \/ Search(k) \/ Remove(k) \/ Hang(k)
           \/ \E v \in Values : Insert(k, v)

Spec == Init /\ [][Next]_vars
=============================================================================
