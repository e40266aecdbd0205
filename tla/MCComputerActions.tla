--------------------------- MODULE MCComputerActions ---------------------------
(* Two looks and an act, on two replicas, and a page opened; the policy    *)
(* may be in dry-run when it is asked about the act.                       *)
EXTENDS ComputerActions

CONSTANTS l1, l2, a1, g1, s1, s2

MCLooks == {l1, l2}
MCActs == {a1}
MCOpens == {g1}
MCDrills == {a1}
MCReplicas == {s1, s2}
MCHome == [c \in Calls |-> IF c \in {l1, a1} THEN s1 ELSE s2]
=============================================================================
