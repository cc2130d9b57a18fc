----------------------------- MODULE Dictionaries -----------------------------
(***************************************************************************)
(* Python dictionaries as functions whose DOMAIN is the set of keys.       *)
(***************************************************************************)

\* Every dictionary with keys in S and values in T.
PartialFunctions(S, T) == UNION {[D -> T] : D \in SUBSET S}

\* d without the keys of S (del, pop).
Without(d, S) == [x \in DOMAIN d \ S |-> d[x]]

\* d[x] = v
Put(d, x, v) == [y \in DOMAIN d \cup {x} |-> IF y = x THEN v ELSE d[y]]

\* d.update(e)
Merge(d, e) ==
  [y \in DOMAIN d \cup DOMAIN e |-> IF y \in DOMAIN e THEN e[y] ELSE d[y]]

\* d.get(x, default)
Get(d, x, default) == IF x \in DOMAIN d THEN d[x] ELSE default

\* The values in d.
Values(d) == {d[x] : x \in DOMAIN d}

\* The keys of d with value v.
KeysOf(d, v) == {x \in DOMAIN d : d[x] = v}
=============================================================================
