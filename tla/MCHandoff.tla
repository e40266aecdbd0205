------------------------------ MODULE MCHandoff ------------------------------
(* Two replicas and one ask, whose hop gets two attempts.                  *)
EXTENDS Handoff, TLC

CONSTANTS o1, o2, ask

MCOwners == {o1, o2}
MCAsks == {ask}
MCKeys == [leg : {"hop", "relay", "notice"}, ask : MCAsks]
MCSymmetry == Permutations(MCOwners)
=============================================================================
