--------------------------- MODULE MCRoutineFiring ----------------------------
(* Two sweeps over one occurrence of a routine.                            *)
EXTENDS RoutineFiring

CONSTANTS o1, o2, k1

MCOwners == {o1, o2}
MCKey == {k1}
=============================================================================
