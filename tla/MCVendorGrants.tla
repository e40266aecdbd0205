---------------------------- MODULE MCVendorGrants ----------------------------
(* A person who consents twice, and calls on as many replicas. The second   *)
(* consent is a reconnection; no two people share anything but the client.  *)
EXTENDS VendorGrants, TLC

CONSTANTS p1, f1, f2, c1, c2, c3

MCPeople == {p1}
MCConsents == {f1, f2}
MCAsker == [f \in MCConsents |-> p1]
MCCalls == {c1, c2, c3}
MCCaller == [c \in MCCalls |-> p1]
MCSymmetry == Permutations(MCCalls) \union Permutations(MCConsents)
=============================================================================
