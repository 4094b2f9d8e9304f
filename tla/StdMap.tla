------------------------------- MODULE StdMap -------------------------------
(***************************************************************************)
(* The operations of std::map the C++ sources use, on functions with a     *)
(* finite domain: insert() keeps the value of a key that is present,       *)
(* operator[] assigns, erase() of an absent key does nothing.              *)
(***************************************************************************)
EXTENDS Functions

EmptyMap == [k \in {} |-> k]

Assign(f, k, v) == [x \in DOMAIN f \cup {k} |-> IF x = k THEN v ELSE f[x]]

Insert(f, k, v) == IF k \in DOMAIN f THEN f ELSE Assign(f, k, v)

Erase(f, k) == Restrict(f, DOMAIN f \ {k})

\* m[k] of a map of maps: the entry, created empty when it is absent
Entry(f, k) == IF k \in DOMAIN f THEN f[k] ELSE EmptyMap
=============================================================================
