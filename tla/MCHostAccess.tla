----------------------------- MODULE MCHostAccess -----------------------------
(* One folder, two calls under it.                                         *)
EXTENDS HostAccess

CONSTANTS a1, c1, c2

MCAsks == {a1}
MCCalls == {c1, c2}
=============================================================================
