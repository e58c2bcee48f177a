----------------------------- MODULE MCConnPool -----------------------------
(***************************************************************************)
(* A few sessions and edits for TLC.                                       *)
(***************************************************************************)
EXTENDS ConnPool, TLC

CONSTANTS s1, s2, e1, e2

\* Sessions are alike, and so are edits until they begin.
Alike == Permutations(Sessions) \cup Permutations(Edits)
=============================================================================
