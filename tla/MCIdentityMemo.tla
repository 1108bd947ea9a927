--------------------------- MODULE MCIdentityMemo ---------------------------
(* Two writers, two readers and two calls, interchangeable each.           *)
EXTENDS IdentityMemo, TLC

Symmetry == Permutations(Writers) \cup Permutations(Readers) \cup Permutations(Calls)

\* Two readers or calls have begun at most: the two memos share only the count.
Pairs ==
    Cardinality({r \in Readers : row[r] # "idle"})
      + Cardinality({c \in Calls : auth[c] # "idle"}) <= 2
=============================================================================
