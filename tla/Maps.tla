-------------------------------- MODULE Maps --------------------------------
(* Finite maps as functions: what HashMap::insert and HashMap::remove do.  *)
EXTENDS Functions

EmptyMap == [k \in {} |-> TRUE]

\* map.insert(k, v): k now maps to v, every other key keeps its value.
Put(map, k, v) == [x \in DOMAIN map \cup {k} |-> IF x = k THEN v ELSE map[x]]

\* map.remove(k): k is no longer a key, every other key keeps its value.
Drop(map, k) == Restrict(map, DOMAIN map \ {k})
=============================================================================
