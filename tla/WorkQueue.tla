------------------------------ MODULE WorkQueue ------------------------------
(***************************************************************************)
(* The durable queue of server/src/work/queue.ts with the processes that   *)
(* consume it: the sweep every caller writes (routines/sweep.ts,           *)
(* work/culler.ts, channels/summary.ts, agents/handoff-runner.ts) claims a *)
(* batch, renews each item before acting on it, and finishes or releases   *)
(* it. A process may die, or stall past its lease, between any two         *)
(* statements.                                                             *)
(***************************************************************************)
EXTENDS WorkTable

CONSTANTS
  Limit,        \* how many rows one claim takes
  Capped,       \* the keys under the one prefix atMost names
  MaxCapped     \* atMost.max

ASSUME LimitAssumption == Limit \in Nat \ {0}
ASSUME CappedAssumption ==
  /\ Capped \subseteq Keys /\ IsFiniteSet(Capped)
  /\ MaxCapped \in Nat

VARIABLES
  work,     \* the table
  batch,    \* per process: claimed keys its sweep has not reached yet
  acting,   \* per process: the keys it is carrying out, at most one
  asking,   \* per process: its open atMost transaction, if any
  sure,     \* per process and key: what is left of the lease it was last told it has
  starts    \* per key: how often the present row has been acted on (history)

vars == <<work, batch, acting, asking, sure, starts>>
claims == <<batch, acting, sure, starts>>

\* An atMost offer between its selects and its insert: what they decided.
Transaction == [key : Capped, room : BOOLEAN]

Init ==
  /\ work   = EmptyTable
  /\ batch  = [o \in Owners |-> {}]
  /\ acting = [o \in Owners |-> {}]
  /\ asking = [o \in Owners |-> {}]
  /\ sure   = [o \in Owners |-> [k \in Keys |-> 0]]
  /\ starts = [k \in Keys |-> 0]

Holds(o) == batch[o] \union acting[o]

\* What this process was told about one key stops counting.
Unsure(o, k) == [sure EXCEPT ![o][k] = 0]

-----------------------------------------------------------------------------
Offer(k) ==
  /\ k \notin Capped
  /\ work' = Offered(work, k, 0)
  /\ UNCHANGED <<claims, asking>>

\* Mutant: no advisory lock, the count and the insert of two offers interleave.
PrefixUnlocked == TRUE

(* offer with atMost. The advisory lock is on the prefix, for the length   *)
(* of the transaction: it is waited for, then the rows are counted.        *)
PrefixFree == \A p \in Owners : asking[p] = {}

Under(t) == { k \in Capped : t[k].st # "absent" }

\* Neither "already" nor "refused".
Room(t, k) == t[k].st = "absent" /\ Cardinality(Under(t)) < MaxCapped

CountOffers(o, k) ==
  /\ PrefixFree
  /\ asking' = [asking EXCEPT ![o] = {[key |-> k, room |-> Room(work, k)]}]
  /\ UNCHANGED <<work, claims>>

InsertOffer(o) ==
  \E tx \in asking[o] :
    /\ work' = IF tx.room THEN Offered(work, tx.key, 0) ELSE work
    /\ asking' = [asking EXCEPT ![o] = {}]
    /\ UNCHANGED claims

-----------------------------------------------------------------------------
(* One sweep at a time per process (work/loop.ts, the worker's own loop).  *)
Sweep(o) ==
  /\ Holds(o) = {}
  /\ \E S \in Batches(work, Limit) :
       /\ S # {}
       /\ work'  = Claimed(work, S, o)
       /\ batch' = [batch EXCEPT ![o] = S]
       /\ sure'  = [sure EXCEPT ![o] = [k \in Keys |-> IF k \in S THEN Lease ELSE 0]]
  /\ UNCHANGED <<acting, asking, starts>>

(* The next item: renewed before acting, skipped when renew says no. *)
Start(o, k) ==
  /\ acting[o] = {} /\ k \in batch[o]
  /\ work'  = Renewed(work, k, o)
  /\ batch' = [batch EXCEPT ![o] = @ \ {k}]
  /\ IF Ours(work, k, o)
     THEN /\ acting' = [acting EXCEPT ![o] = {k}]
          /\ sure'   = [sure EXCEPT ![o][k] = Lease]
          /\ starts' = [starts EXCEPT ![k] = @ + 1]
     ELSE /\ sure' = Unsure(o, k)
          /\ UNCHANGED <<acting, starts>>
  /\ UNCHANGED asking

(* The handoff runner's heartbeat over everything it claimed. *)
Heartbeat(o, k) ==
  /\ k \in Holds(o)
  /\ work' = Renewed(work, k, o)
  /\ sure' = IF Ours(work, k, o) THEN [sure EXCEPT ![o][k] = Lease] ELSE Unsure(o, k)
  /\ UNCHANGED <<batch, acting, asking, starts>>

Complete(o, k) ==
  /\ k \in acting[o]
  /\ work'   = Finished(work, k, o)
  /\ acting' = [acting EXCEPT ![o] = {}]
  /\ sure'   = Unsure(o, k)
  /\ UNCHANGED <<batch, asking, starts>>

Fail(o, k) ==
  /\ k \in acting[o]
  /\ work'   = Released(work, k, o)
  /\ acting' = [acting EXCEPT ![o] = {}]
  /\ sure'   = Unsure(o, k)
  /\ UNCHANGED <<batch, asking, starts>>

-----------------------------------------------------------------------------
Purge ==
  /\ work'   = Purged(work)
  /\ starts' = [k \in Keys |-> IF work'[k].st = "absent" THEN 0 ELSE starts[k]]
  /\ UNCHANGED <<batch, acting, asking, sure>>

(* The process dies and another takes its place. Its claims stay on the    *)
(* rows until they lapse; its open transaction is rolled back. (A new      *)
(* process has a new owner name; reusing the name here is harmless since   *)
(* it only ever names keys it claimed itself.)                             *)
Crash(o) ==
  /\ batch'  = [batch EXCEPT ![o] = {}]
  /\ acting' = [acting EXCEPT ![o] = {}]
  /\ asking' = [asking EXCEPT ![o] = {}]
  /\ sure'   = [sure EXCEPT ![o] = [k \in Keys |-> 0]]
  /\ UNCHANGED <<work, starts>>

Tick ==
  /\ work' = Elapsed(work)
  /\ sure' = [o \in Owners |-> [k \in Keys |-> IF sure[o][k] > 0 THEN sure[o][k] - 1 ELSE 0]]
  /\ UNCHANGED <<batch, acting, asking, starts>>

Next ==
  \/ \E k \in Keys : Offer(k)
  \/ \E o \in Owners, k \in Capped : CountOffers(o, k)
  \/ \E o \in Owners : InsertOffer(o) \/ Sweep(o) \/ Crash(o)
  \/ \E o \in Owners, k \in Keys : Start(o, k) \/ Heartbeat(o, k) \/ Complete(o, k) \/ Fail(o, k)
  \/ Purge
  \/ Tick

Spec == Init /\ [][Next]_vars

(* Sweeps are rescheduled whatever became of the last, a call made for an  *)
(* item is bounded by its own deadline, purge runs on its own loop, and    *)
(* the clock moves. Nobody has to offer, heartbeat or die.                 *)
Fairness ==
  /\ WF_vars(Tick) /\ WF_vars(Purge)
  /\ \A o \in Owners :
       /\ WF_vars(Sweep(o))
       /\ WF_vars(InsertOffer(o))
       /\ WF_vars(\E k \in Keys : Start(o, k))
       /\ WF_vars(\E k \in Keys : Complete(o, k) \/ Fail(o, k))

FairSpec == Spec /\ Fairness

-----------------------------------------------------------------------------
TypeOK ==
  /\ work   \in Table
  /\ batch  \in [Owners -> SUBSET Keys]
  /\ acting \in [Owners -> SUBSET Keys]
  /\ asking \in [Owners -> SUBSET Transaction]
  /\ sure   \in [Owners -> [Keys -> 0..Lease]]
  /\ starts \in [Keys -> Nat]

(* A process that was told it has the lease, by a claim or a renew less    *)
(* than a lease ago, has it: the row is still claimed in its name, so no   *)
(* second process is inside the same lease, whatever stalled, died or was  *)
(* purged meanwhile. This is what makes acting after a renew safe.         *)
LeaseIsExclusive ==
  \A o \in Owners, k \in Keys :
    sure[o][k] > 0 => Ours(work, k, o) /\ work[k].lease = sure[o][k]

(* Each hand-out of a row is acted on at most once, so a row is acted on   *)
(* at most MaxAttempts times however often its owners die: the hand-outs   *)
(* still unused and the starts already made never exceed its attempts.     *)
Unused(k) == { o \in Owners : k \in batch[o] /\ Ours(work, k, o) }

StartsAreBounded ==
  \A k \in Keys : starts[k] + Cardinality(Unused(k)) <= work[k].attempts

(* The advisory lock makes count-then-insert one step: a prefix never      *)
(* holds more rows than atMost allows, however many processes ask at once. *)
CapHolds == Cardinality(Under(work)) <= MaxCapped

(* What the properties rest on. A row nobody wants carries no claim; a     *)
(* live lease is never older than its own length, which is why purge, whose*)
(* window is no shorter, cannot take the row from under it; a process holds *)
(* a key once; and what an atMost transaction counted still stands when it *)
(* inserts, because no other transaction is open.                          *)
Tidy ==
  \A k \in Keys : /\ work[k].st # "open" => work[k].lease = 0 /\ work[k].owner = Nobody
                  /\ work[k].st = "absent" => work[k] = NoRow

LeaseIsRecent == \A k \in Keys : work[k].lease > 0 => work[k].age + work[k].lease <= Lease

HeldOnce == \A o \in Owners : batch[o] \intersect acting[o] = {}

CountStands ==
  \A o \in Owners : \A tx \in asking[o] :
    /\ asking[o] = {tx}
    /\ \A p \in Owners \ {o} : asking[p] = {}
    /\ tx.room => Cardinality(Under(work)) < MaxCapped

IInv == TypeOK /\ Tidy /\ LeaseIsRecent /\ HeldOnce /\ LeaseIsExclusive

(* A finished row is a tombstone: no offer revives it and no claim hands   *)
(* it out again, until purge drops it, older than its window.              *)
StaysFinished(k) ==
  work[k].st = "done" =>
    \/ work'[k].st = "done" /\ work'[k].attempts = work[k].attempts
    \/ work'[k] = NoRow /\ (work[k].age > KeepFinished \/ work[k].age > KeepGivenUp)

FinishedStaysFinished == [][\A k \in Keys : StaysFinished(k)]_vars

(* A process inside its lease loses the row only by its own step: nobody   *)
(* else's late finish, release, claim or purge takes it away.              *)
StaysLeased(o, k) ==
  (work[k].owner = o /\ work[k].lease > 0 /\ k \in Holds(o)) =>
    \/ work'[k].owner = o /\ work'[k].st = "open"
    \/ k \notin Holds(o)'

LeaseIsNotTaken == [][\A o \in Owners, k \in Keys : StaysLeased(o, k)]_vars

(* No item is left behind: whatever dies, an open row is finished or has   *)
(* had all the attempts it will get.                                       *)
EverythingSettles ==
  \A k \in Keys : work[k].st = "open" ~> (work[k].st # "open" \/ GaveUp(work[k]))

(* A key is never wedged: a row that gave up is reaped, and the key can be *)
(* offered afresh.                                                         *)
GivenUpIsForgotten == \A k \in Keys : GaveUp(work[k]) ~> work[k].st = "absent"

-----------------------------------------------------------------------------
(* The queue implements the ledger that has no clock. *)
Status(r) ==
  CASE r.st = "absent" -> "none"
    [] r.st = "done"   -> "done"
    [] OTHER           -> IF r.lease > 0 THEN "leased" ELSE "waiting"

Ledger == INSTANCE WorkLedger WITH
            status <- [k \in Keys |-> Status(work[k])],
            holder <- [k \in Keys |-> work[k].owner],
            tries  <- [k \in Keys |-> work[k].attempts]

(* Every step of the table, interleaved any way with the processes' own,   *)
(* is a grant, a settlement, a lapse or another move the ledger allows.    *)
ImplementsLedger == Ledger!Spec
=============================================================================
