------------------------------ MODULE Listing ------------------------------
(***************************************************************************)
(* What the lists of messages share: a list in the order of its sequences, *)
(* and the rows of an answer that a list does not show yet.                *)
(***************************************************************************)
EXTENDS Naturals, Sequences, FiniteSets, SequencesExt

\* The numbers of a finite set in ascending order: the k-th has k - 1 below it.
Ascending(S) ==
    [k \in 1 .. Cardinality(S) |-> CHOOSE n \in S : Cardinality({m \in S : m < n}) = k - 1]

\* The rows that are not shown, in the order they came in.
Unseen(shown, rows) ==
    LET fresh == Ascending({i \in DOMAIN rows : rows[i] \notin Range(shown)})
    IN  [k \in DOMAIN fresh |-> rows[fresh[k]]]
=============================================================================
