----------------------------- MODULE MCLiveScreen -----------------------------
(* Two watchers, one after the other or at once, and two re-attaches; one  *)
(* of them, the first or the second to come, may find the map full.        *)
EXTENDS LiveScreen

CONSTANTS s1, s2, t1, t2

MCSockets == {s1, s2}
MCLatecomers == {s2}
MCTicks == {t1, t2}
=============================================================================
