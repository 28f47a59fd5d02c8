------------------------------- MODULE Sorting -------------------------------
(***************************************************************************)
(* `sorted` of the code's language, of elements no two of which are alike.   *)
(***************************************************************************)
EXTENDS Integers, FiniteSets

\* The members of S, each behind those before it.
Ascending(S, before(_, _)) ==
  [i \in 1..Cardinality(S) |-> CHOOSE s \in S : Cardinality({r \in S : before(r, s)}) = i - 1]

\* The positions (or keys) of a function in the order of its values.
Positions(f) == Ascending(DOMAIN f, LAMBDA i, j : f[i] < f[j] \/ (f[i] = f[j] /\ i < j))

\* What is at the positions in S of a sequence, in the order it has there.
Picked(seq, S) ==
  LET at == Ascending(S, LAMBDA i, j : i < j) IN [k \in DOMAIN at |-> seq[at[k]]]
=============================================================================
