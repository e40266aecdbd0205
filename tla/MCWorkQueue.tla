---------------------------- MODULE MCWorkQueue ------------------------------
(* A small deployment: two replicas, one plain key, and two keys under a   *)
(* prefix that has room for one.                                           *)
EXTENDS WorkQueue, TLC

CONSTANTS o1, o2, plain, hop1, hop2

MCOwners == {o1, o2}
MCKeys   == {plain, hop1, hop2}
MCCapped == {hop1, hop2}
MCFewKeys == {plain, hop1}
MCSymmetry == Permutations(MCOwners) \union Permutations(MCCapped)
=============================================================================
