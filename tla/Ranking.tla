------------------------------ MODULE Ranking ------------------------------
(***************************************************************************)
(* What sorting by a key and retaining some elements do to a list: Rust's  *)
(* sort_by and sort_by_key keep elements with equal keys in the order they *)
(* had, retain keeps all of them in it.                                    *)
(***************************************************************************)
EXTENDS Integers, Sequences, FiniteSets

Before(rank, i, j) == rank[i] < rank[j] \/ (rank[i] = rank[j] /\ i < j)

\* The indices of a list's elements, smallest key first: the n-th has n - 1
\* others before it.
Ranked(rank) ==
  [n \in 1..Cardinality(DOMAIN rank) |->
     CHOOSE i \in DOMAIN rank : Cardinality({j \in DOMAIN rank : Before(rank, j, i)}) = n - 1]

\* The elements of a list at some of its places.
Retained(seq, places) ==
  LET at == Ranked([i \in places |-> i]) IN [n \in DOMAIN at |-> seq[at[n]]]
=============================================================================
