-------------------------- MODULE MCBrowserProfiles ---------------------------
(* Two Bots under a cap of one, and four calls of any kind.                *)
EXTENDS BrowserProfiles, TLC

CONSTANTS b1, b2, p1, p2, p3, p4

MCBots == {b1, b2}
MCRequests == {p1, p2, p3, p4}
MCSymmetry == Permutations(MCBots) \union Permutations(MCRequests)
=============================================================================
