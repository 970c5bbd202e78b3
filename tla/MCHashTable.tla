---------------------------- MODULE MCHashTable ----------------------------
(* Small instances of HashTable for TLC. *)
EXTENDS HashTable

\* "a" and "b" collide and part at the second try; "c" tries a single slot of
\* a table of two, "a" of one of three.
KeyNames == {"a", "b", "c"}
First_hash == [k \in KeyNames |-> IF k = "c" THEN 4 ELSE 6]
Second_hash == [k \in KeyNames |-> CASE k = "a" -> 2 [] k = "b" -> 0 [] k = "c" -> 3]
SmallHints == {0, 2, 3, 4}
=============================================================================
