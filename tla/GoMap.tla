------------------------------- MODULE GoMap -------------------------------
(***************************************************************************)
(* A Go map as a function whose DOMAIN is the set of keys that are present.*)
(* The program keeps its in-flight tables and its persisted mapping in     *)
(* such maps; the operators are the built-in assignment and delete.        *)
(***************************************************************************)

\* make(map[...]...): no key is present.
NoKeys == [k \in {} |-> 0]

\* m[k] = v
Put(m, k, v) == [x \in DOMAIN m \cup {k} |-> IF x = k THEN v ELSE m[x]]

\* for k, v := range top { m[k] = v }
Overlaid(m, top) ==
  [x \in DOMAIN m \cup DOMAIN top |-> IF x \in DOMAIN top THEN top[x] ELSE m[x]]

\* delete(m, k) for every k in ks; a key that is absent is no error.
Delete(m, ks) == [x \in DOMAIN m \ ks |-> m[x]]
=============================================================================
