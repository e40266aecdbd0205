------------------------------ MODULE MCRoutines ------------------------------
(* Two sweeps over one or two routines, at a cadence of two or three ticks. *)
EXTENDS Routines

CONSTANTS o1, o2, r1, r2, e1, e2

MCSweepers == {o1, o2}
MCSweeper == {o1}
MCRoutine == {r1}
MCTwoRoutines == {r1, r2}
MCLegacy == {r1}
MCEditor == {e1}
MCEditors == {e1, e2}
=============================================================================
