----------------------------- MODULE MCMappings -----------------------------
(***************************************************************************)
(* Two ids and two keys for TLC: a batch that empties the set, one that    *)
(* replaces both mappings, one that keeps a pin, one with a duplicate.     *)
(***************************************************************************)
EXTENDS Mappings, TLC

CONSTANTS g1, g2, s1, i1, i2, k1, k2, t1, f1

Item(k, p) == [key |-> k, type |-> t1, pin |-> p]
SomeBatches ==
    {<<>>, <<Item(k1, NoPin)>>, <<Item(k2, f1), Item(k1, NoPin)>>, <<Item(k1, NoPin), Item(k1, f1)>>}

Alike == Permutations(Mutators) \cup Permutations(Ids)
=============================================================================
