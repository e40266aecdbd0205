----------------------------- MODULE WorkLedger ------------------------------
(***************************************************************************)
(* What server/src/work/queue.ts promises its callers, with the clock left *)
(* out: work is granted to one owner at a time and at most MaxAttempts     *)
(* times, only the owner it was last granted to can settle it or give it   *)
(* back, a settled key stays settled, and a key is forgotten only when     *)
(* nothing more will be done under it.                                     *)
(***************************************************************************)
EXTENDS Naturals

CONSTANTS Keys, Owners, Nobody, MaxAttempts

VARIABLES
  status,   \* of each key: "none", "waiting", "leased" or "done"
  holder,   \* the owner a key was last granted to, until it gives it up
  tries     \* how many times a key has been granted

vars == <<status, holder, tries>>

Init ==
  /\ status = [k \in Keys |-> "none"]
  /\ holder = [k \in Keys |-> Nobody]
  /\ tries  = [k \in Keys |-> 0]

Wanted(k) == status[k] \in {"waiting", "leased"}

Add(k) ==
  /\ status[k] = "none"
  /\ status' = [status EXCEPT ![k] = "waiting"]
  /\ UNCHANGED <<holder, tries>>

Grant(S, o) ==
  /\ \A k \in S : status[k] = "waiting" /\ tries[k] < MaxAttempts
  /\ status' = [k \in Keys |-> IF k \in S THEN "leased" ELSE status[k]]
  /\ holder' = [k \in Keys |-> IF k \in S THEN o ELSE holder[k]]
  /\ tries'  = [k \in Keys |-> IF k \in S THEN tries[k] + 1 ELSE tries[k]]

\* A lease runs out. The holder may still act on the work until it is granted again.
Lapse(S) ==
  /\ \A k \in S : status[k] = "leased"
  /\ status' = [k \in Keys |-> IF k \in S THEN "waiting" ELSE status[k]]
  /\ UNCHANGED <<holder, tries>>

Keep(k, o) ==
  /\ Wanted(k) /\ holder[k] = o
  /\ status' = [status EXCEPT ![k] = "leased"]
  /\ UNCHANGED <<holder, tries>>

Settle(k, o) ==
  /\ Wanted(k) /\ holder[k] = o
  /\ status' = [status EXCEPT ![k] = "done"]
  /\ holder' = [holder EXCEPT ![k] = Nobody]
  /\ UNCHANGED tries

GiveBack(k, o) ==
  /\ Wanted(k) /\ holder[k] = o
  /\ status' = [status EXCEPT ![k] = "waiting"]
  /\ holder' = [holder EXCEPT ![k] = Nobody]
  /\ UNCHANGED tries

Forget(S) ==
  /\ \A k \in S : status[k] = "done" \/ (status[k] = "waiting" /\ tries[k] = MaxAttempts)
  /\ status' = [k \in Keys |-> IF k \in S THEN "none" ELSE status[k]]
  /\ holder' = [k \in Keys |-> IF k \in S THEN Nobody ELSE holder[k]]
  /\ tries'  = [k \in Keys |-> IF k \in S THEN 0 ELSE tries[k]]

Next ==
  \/ \E k \in Keys : Add(k)
  \/ \E S \in SUBSET Keys : Lapse(S) \/ Forget(S) \/ \E o \in Owners : Grant(S, o)
  \/ \E k \in Keys, o \in Owners : Keep(k, o) \/ Settle(k, o) \/ GiveBack(k, o)

Spec == Init /\ [][Next]_vars
=============================================================================
