--------------------------- MODULE WorkQueueProofs ---------------------------
(***************************************************************************)
(* What holds of the queue for every number of processes, keys and         *)
(* attempts and every choice of the durations: the types, the invariants   *)
(* and action properties the runs check, and that the queue implements     *)
(* the ledger of WorkLedger.                                               *)
(***************************************************************************)
EXTENDS WorkQueue, FiniteSetTheorems, TLAPS

USE NobodyAssumption, AttemptsAssumption, LeaseAssumption, WindowAssumption,
    LimitAssumption, CappedAssumption

-----------------------------------------------------------------------------
(* The statements of server/src/work/queue.ts take tables to tables.       *)
LEMMA RowFields ==
  ASSUME NEW r \in Row
  PROVE  /\ r.st \in {"absent", "open", "done"} /\ r.wait \in Int
         /\ r.owner \in Owners \union {Nobody} /\ r.lease \in 0..Lease
         /\ r.attempts \in 0..MaxAttempts /\ r.age \in Nat
  BY DEF Row

LEMMA NoRowIsARow == NoRow \in Row
  BY DEF NoRow, Row

LEMMA OfferedTable ==
  ASSUME NEW t \in Table, NEW k \in Keys
  PROVE  Offered(t, k, 0) \in Table
  BY DEF Offered, Open, Table, Row

LEMMA ClaimedTable ==
  ASSUME NEW t \in Table, NEW S \in SUBSET Due(t), NEW o \in Owners
  PROVE  Claimed(t, S, o) \in Table
  BY DEF Claimed, Due, Open, Table, Row

LEMMA OwnRowTable ==
  ASSUME NEW t \in Table, NEW k \in Keys, NEW o \in Owners
  PROVE  Renewed(t, k, o) \in Table /\ Finished(t, k, o) \in Table /\ Released(t, k, o) \in Table
  BY DEF Renewed, Finished, Released, Open, Table, Row

LEMMA AgedTable ==
  ASSUME NEW t \in Table
  PROVE  Elapsed(t) \in Table /\ Purged(t) \in Table
  BY DEF Elapsed, Older, Purged, NoRow, Horizon, Table, Row

LEMMA BatchesAreDue ==
  ASSUME NEW t, NEW n, NEW S \in Batches(t, n)
  PROVE  S \in SUBSET Due(t)
  BY DEF Batches

LEMMA Ranges ==
  /\ 0 \in Nat /\ 0 \in Int /\ 0 \in 0..Lease /\ 0 \in 0..MaxAttempts
  /\ Lease \in 0..Lease /\ RetryDelay \in Int
  OBVIOUS

-----------------------------------------------------------------------------
(* Every variable keeps its type. Attempts staying at most MaxAttempts is  *)
(* part of it: claim hands nothing out at the cap.                         *)
LEMMA TypesAreKept == TypeOK /\ [Next]_vars => TypeOK'
<1> SUFFICES ASSUME TypeOK, [Next]_vars PROVE TypeOK'
  OBVIOUS
<1> USE DEF TypeOK
<1>1. CASE \E k \in Keys : Offer(k)
  BY <1>1, OfferedTable DEF Offer, claims
<1>2. CASE \E o \in Owners, k \in Capped : CountOffers(o, k)
  BY <1>2 DEF CountOffers, claims, Transaction, Room
<1>3. CASE \E o \in Owners : InsertOffer(o)
  <2>1. PICK o \in Owners : InsertOffer(o)
    BY <1>3
  <2>2. PICK tx \in asking[o] :
          /\ work' = IF tx.room THEN Offered(work, tx.key, 0) ELSE work
          /\ asking' = [asking EXCEPT ![o] = {}]
          /\ UNCHANGED claims
    BY <2>1 DEF InsertOffer
  <2>3. tx.key \in Keys
    BY <2>2 DEF Transaction
  <2>4. QED
    BY <2>2, <2>3, OfferedTable DEF claims
<1>4. CASE \E o \in Owners : Sweep(o)
  <2>1. PICK o \in Owners : Sweep(o)
    BY <1>4
  <2>2. PICK S \in Batches(work, Limit) :
          /\ work'  = Claimed(work, S, o)
          /\ batch' = [batch EXCEPT ![o] = S]
          /\ sure'  = [sure EXCEPT ![o] = [k \in Keys |-> IF k \in S THEN Lease ELSE 0]]
    BY <2>1 DEF Sweep
  <2>3. S \in SUBSET Due(work) /\ S \in SUBSET Keys
    BY <2>2, BatchesAreDue DEF Due
  <2>4. QED
    BY <2>1, <2>2, <2>3, ClaimedTable DEF Sweep
<1>5. CASE \E o \in Owners : Crash(o)
  BY <1>5 DEF Crash
<1>6. CASE \E o \in Owners, k \in Keys : Start(o, k)
  <2>1. PICK o \in Owners, k \in Keys : Start(o, k)
    BY <1>6
  <2>2. work' \in Table
    BY <2>1, OwnRowTable DEF Start
  <2>3. batch' \in [Owners -> SUBSET Keys] /\ asking' \in [Owners -> SUBSET Transaction]
    BY <2>1 DEF Start
  <2>4. acting' \in [Owners -> SUBSET Keys]
    BY <2>1 DEF Start
  <2>5. sure' \in [Owners -> [Keys -> 0..Lease]]
    BY <2>1 DEF Start, Unsure
  <2>6. starts' \in [Keys -> Nat]
    BY <2>1 DEF Start
  <2>7. QED
    BY <2>2, <2>3, <2>4, <2>5, <2>6
<1>7. CASE \E o \in Owners, k \in Keys : Heartbeat(o, k)
  BY <1>7, OwnRowTable DEF Heartbeat, Unsure
<1>8. CASE \E o \in Owners, k \in Keys : Complete(o, k)
  BY <1>8, OwnRowTable DEF Complete, Unsure
<1>9. CASE \E o \in Owners, k \in Keys : Fail(o, k)
  BY <1>9, OwnRowTable DEF Fail, Unsure
<1>10. CASE Purge
  BY <1>10, AgedTable DEF Purge
<1>11. CASE Tick
  BY <1>11, AgedTable DEF Tick
<1>12. CASE UNCHANGED vars
  BY <1>12 DEF vars
<1>13. QED
  BY <1>1, <1>2, <1>3, <1>4, <1>5, <1>6, <1>7, <1>8, <1>9, <1>10, <1>11, <1>12 DEF Next

-----------------------------------------------------------------------------
(* What single statements do to the invariant. *)

\* What renew's answer tells the process that asked.
RenewedSure(o, k) ==
  sure' = IF Ours(work, k, o) THEN [sure EXCEPT ![o][k] = Lease] ELSE Unsure(o, k)

LEMMA OfferKeeps ==
  ASSUME IInv, TypeOK', NEW k \in Keys, work' = Offered(work, k, 0), UNCHANGED claims
  PROVE  IInv'
<1>1. TypeOK /\ Tidy /\ LeaseIsRecent /\ HeldOnce /\ LeaseIsExclusive
  BY DEF IInv
<1>2. Tidy' /\ LeaseIsRecent'
  BY <1>1 DEF Offered, Open, Tidy, LeaseIsRecent, TypeOK, Table
<1>3. HeldOnce' /\ LeaseIsExclusive'
  BY <1>1 DEF Offered, claims, HeldOnce, LeaseIsExclusive, Ours, TypeOK, Table
<1>4. QED
  BY <1>2, <1>3 DEF IInv

LEMMA RenewKeeps ==
  ASSUME IInv, TypeOK', NEW o \in Owners, NEW k \in Keys,
         work' = Renewed(work, k, o), RenewedSure(o, k)
  PROVE  Tidy' /\ LeaseIsRecent' /\ LeaseIsExclusive'
<1>1. TypeOK /\ Tidy /\ LeaseIsRecent /\ LeaseIsExclusive
  BY DEF IInv
<1>2. Tidy' /\ LeaseIsRecent'
  BY <1>1 DEF Renewed, Open, Ours, Tidy, LeaseIsRecent, TypeOK, Table
<1>3. LeaseIsExclusive'
  <2>1. CASE Ours(work, k, o)
    BY <1>1, <2>1 DEF Renewed, RenewedSure, Open, Ours, LeaseIsExclusive, TypeOK, Table
  <2>2. CASE ~ Ours(work, k, o)
    BY <1>1, <2>2 DEF Renewed, RenewedSure, Unsure, Ours, LeaseIsExclusive, TypeOK
  <2>3. QED
    BY <2>1, <2>2
<1>4. QED
  BY <1>2, <1>3

(* purge's windows are no shorter than a lease, so it takes no leased row. *)
LEMMA LeasedIsNotReaped ==
  ASSUME NEW r \in Row, r.lease > 0, r.st = "open", r.age + r.lease <= Lease
  PROVE  ~ Reapable(r)
  BY RowFields DEF Reapable

LEMMA ElapsedRows ==
  ASSUME NEW t \in Table, NEW k \in Keys, t[k].st = "absent" => t[k] = NoRow
  PROVE  /\ Elapsed(t)[k].st = t[k].st /\ Elapsed(t)[k].owner = t[k].owner
         /\ Elapsed(t)[k].attempts = t[k].attempts
         /\ Elapsed(t)[k].lease = IF t[k].lease > 0 THEN t[k].lease - 1 ELSE 0
         /\ Elapsed(t)[k].age <= t[k].age + 1
         /\ t[k] = NoRow => Elapsed(t)[k] = NoRow
<1>1. t[k] \in Row
  BY DEF Table
<1>2. CASE t[k].st = "absent"
  BY <1>2 DEF Elapsed, NoRow
<1>3. CASE t[k].st # "absent"
  <2>1. Elapsed(t)[k] = Older(t, k)
    BY <1>3 DEF Elapsed
  <2>2. QED
    BY <2>1, <1>1, <1>3, RowFields DEF Older, NoRow
<1>4. QED
  BY <1>2, <1>3

-----------------------------------------------------------------------------
(* The inductive invariant: nothing holds a row that is not open, a lease  *)
(* is recent, and what each process was told of its lease is still so.     *)
LEMMA Initially == Init => IInv
<1> SUFFICES ASSUME Init PROVE IInv
  OBVIOUS
<1>1. TypeOK
  BY NoRowIsARow DEF Init, TypeOK, EmptyTable, Table
<1>2. \A k \in Keys : work[k] = NoRow
  BY DEF Init, EmptyTable
<1>3. Tidy /\ LeaseIsRecent
  BY <1>2 DEF Tidy, LeaseIsRecent, NoRow
<1>4. HeldOnce /\ LeaseIsExclusive
  BY DEF Init, HeldOnce, LeaseIsExclusive
<1>5. QED
  BY <1>1, <1>3, <1>4 DEF IInv

LEMMA Inductive == IInv /\ [Next]_vars => IInv'
<1> SUFFICES ASSUME IInv, [Next]_vars PROVE IInv'
  OBVIOUS
<1>0. TypeOK /\ Tidy /\ LeaseIsRecent /\ HeldOnce /\ LeaseIsExclusive
  BY DEF IInv
<1>t. TypeOK'
  BY <1>0, TypesAreKept
<1>r. \A k \in Keys : work[k] \in Row /\ work'[k] \in Row
  BY <1>0, <1>t DEF TypeOK, Table
<1>1. ASSUME NEW k \in Keys, Offer(k) PROVE IInv'
  <2>1. work' = Offered(work, k, 0) /\ UNCHANGED claims
    BY <1>1 DEF Offer
  <2>2. QED
    BY <2>1, <1>0, <1>t, OfferKeeps DEF IInv
<1>2. ASSUME NEW o \in Owners, NEW k \in Capped, CountOffers(o, k) PROVE IInv'
  BY <1>2, <1>0, <1>t
     DEF CountOffers, claims, IInv, Tidy, LeaseIsRecent, HeldOnce, LeaseIsExclusive, Ours
<1>3. ASSUME NEW o \in Owners, InsertOffer(o) PROVE IInv'
  <2>1. PICK tx \in asking[o] :
          /\ work' = IF tx.room THEN Offered(work, tx.key, 0) ELSE work
          /\ UNCHANGED claims
    BY <1>3 DEF InsertOffer
  <2>2. tx.key \in Keys
    BY <2>1, <1>0 DEF TypeOK, Transaction
  <2>3. CASE tx.room
    BY <2>1, <2>2, <2>3, <1>0, <1>t, OfferKeeps DEF IInv
  <2>4. CASE ~ tx.room
    BY <2>1, <2>4, <1>0, <1>t
       DEF claims, IInv, Tidy, LeaseIsRecent, HeldOnce, LeaseIsExclusive, Ours
  <2>5. QED
    BY <2>3, <2>4
<1>4. ASSUME NEW o \in Owners, Sweep(o) PROVE IInv'
  <2>1. PICK S \in Batches(work, Limit) :
          /\ work'  = Claimed(work, S, o)
          /\ batch' = [batch EXCEPT ![o] = S]
          /\ sure'  = [sure EXCEPT ![o] = [k \in Keys |-> IF k \in S THEN Lease ELSE 0]]
    BY <1>4 DEF Sweep
  <2>2. acting' = acting /\ acting[o] = {}
    BY <1>4 DEF Sweep, Holds
  <2>3. S \in SUBSET Keys /\ \A k \in S : work[k].st = "open" /\ work[k].lease = 0
    BY <2>1, BatchesAreDue DEF Due
  <2>4. /\ \A k \in S : /\ work'[k].st = "open" /\ work'[k].owner = o
                        /\ work'[k].lease = Lease /\ work'[k].age = 0
        /\ \A k \in Keys \ S : work'[k] = work[k]
    BY <2>1, <2>3 DEF Claimed, Open
  <2>5. Tidy'
    BY <2>4, <1>0 DEF Tidy
  <2>6. LeaseIsRecent'
    BY <2>4, <1>0 DEF LeaseIsRecent
  <2>7. HeldOnce'
    BY <2>1, <2>2, <1>0 DEF HeldOnce, TypeOK
  <2>8. LeaseIsExclusive'
    BY <2>1, <2>3, <2>4, <1>0 DEF LeaseIsExclusive, Ours, TypeOK
  <2>9. QED
    BY <2>5, <2>6, <2>7, <2>8, <1>t DEF IInv
<1>5. ASSUME NEW o \in Owners, Crash(o) PROVE IInv'
  BY <1>5, <1>0, <1>t
     DEF Crash, IInv, TypeOK, Tidy, LeaseIsRecent, HeldOnce, LeaseIsExclusive, Ours
<1>6. ASSUME NEW o \in Owners, NEW k \in Keys, Start(o, k) PROVE IInv'
  <2>1. work' = Renewed(work, k, o) /\ RenewedSure(o, k)
    BY <1>6 DEF Start, RenewedSure
  <2>2. HeldOnce'
    BY <1>6, <1>0 DEF Start, HeldOnce, TypeOK
  <2>3. QED
    BY <2>1, <2>2, <1>0, <1>t, RenewKeeps DEF IInv
<1>7. ASSUME NEW o \in Owners, NEW k \in Keys, Heartbeat(o, k) PROVE IInv'
  <2>1. work' = Renewed(work, k, o) /\ RenewedSure(o, k)
    BY <1>7 DEF Heartbeat, RenewedSure
  <2>2. HeldOnce'
    BY <1>7, <1>0 DEF Heartbeat, HeldOnce
  <2>3. QED
    BY <2>1, <2>2, <1>0, <1>t, RenewKeeps DEF IInv
<1>8. ASSUME NEW o \in Owners, NEW k \in Keys, Complete(o, k) PROVE IInv'
  <2>1. HeldOnce'
    BY <1>8, <1>0 DEF Complete, HeldOnce, TypeOK
  <2>2. Tidy' /\ LeaseIsRecent'
    BY <1>8, <1>0 DEF Complete, Finished, Tidy, LeaseIsRecent, TypeOK, Table
  <2>3. LeaseIsExclusive'
    BY <1>8, <1>0 DEF Complete, Finished, Unsure, LeaseIsExclusive, Ours, TypeOK, Table
  <2>4. QED
    BY <2>1, <2>2, <2>3, <1>t DEF IInv
<1>9. ASSUME NEW o \in Owners, NEW k \in Keys, Fail(o, k) PROVE IInv'
  <2>1. HeldOnce'
    BY <1>9, <1>0 DEF Fail, HeldOnce, TypeOK
  <2>2. Tidy' /\ LeaseIsRecent'
    BY <1>9, <1>0 DEF Fail, Released, Open, Tidy, LeaseIsRecent, TypeOK, Table
  <2>3. LeaseIsExclusive'
    BY <1>9, <1>0 DEF Fail, Released, Open, Unsure, LeaseIsExclusive, Ours, TypeOK, Table
  <2>4. QED
    BY <2>1, <2>2, <2>3, <1>t DEF IInv
<1>10. ASSUME Purge PROVE IInv'
  <2>1. \A k \in Keys : work'[k] = IF Reapable(work[k]) THEN NoRow ELSE work[k]
    BY <1>10 DEF Purge, Purged
  <2>2. \A k \in Keys : work[k].lease > 0 => work'[k] = work[k]
    BY <2>1, <1>0, <1>r, LeasedIsNotReaped DEF Tidy, LeaseIsRecent
  <2>3. Tidy' /\ LeaseIsRecent'
    BY <2>1, <1>0 DEF Tidy, LeaseIsRecent, NoRow
  <2>4. HeldOnce' /\ LeaseIsExclusive'
    BY <1>10, <2>2, <1>0 DEF Purge, HeldOnce, LeaseIsExclusive, Ours
  <2>5. QED
    BY <2>3, <2>4, <1>t DEF IInv
<1>11. ASSUME Tick PROVE IInv'
  <2>1. \A k \in Keys : /\ work'[k].st = work[k].st /\ work'[k].owner = work[k].owner
                        /\ work'[k].lease = IF work[k].lease > 0 THEN work[k].lease - 1 ELSE 0
                        /\ work'[k].age <= work[k].age + 1
                        /\ work[k] = NoRow => work'[k] = NoRow
    BY <1>11, <1>0, <1>r, ElapsedRows DEF Tick, Tidy, TypeOK
  <2>2. Tidy' /\ LeaseIsRecent'
    BY <2>1, <1>0, <1>r, RowFields DEF Tidy, LeaseIsRecent
  <2>3. HeldOnce' /\ LeaseIsExclusive'
    BY <1>11, <2>1, <1>0 DEF Tick, HeldOnce, LeaseIsExclusive, Ours, TypeOK
  <2>4. QED
    BY <2>2, <2>3, <1>t DEF IInv
<1>12. CASE UNCHANGED vars
  BY <1>12, <1>0, <1>t
     DEF vars, IInv, Tidy, LeaseIsRecent, HeldOnce, LeaseIsExclusive, Ours
<1>13. QED
  BY <1>1, <1>2, <1>3, <1>4, <1>5, <1>6, <1>7, <1>8, <1>9, <1>10, <1>11, <1>12 DEF Next

THEOREM QueueInvariant == Spec => []IInv
  BY Initially, Inductive, PTL DEF Spec

(* Every variable of the queue keeps its type.                             *)
THEOREM TypesHold == Spec => []TypeOK
<1>1. IInv => TypeOK
  BY DEF IInv
<1>2. QED
  BY <1>1, QueueInvariant, PTL

(* A process within a lease it was told of is the row's only owner.        *)
THEOREM LeaseExclusion == Spec => []LeaseIsExclusive
<1>1. IInv => LeaseIsExclusive
  BY DEF IInv
<1>2. QED
  BY <1>1, QueueInvariant, PTL

-----------------------------------------------------------------------------
(* What no step may do. *)

LEMMA FinishedStep == IInv /\ [Next]_vars => [\A k \in Keys : StaysFinished(k)]_vars
<1> SUFFICES ASSUME IInv, Next, NEW j \in Keys, work[j].st = "done" PROVE StaysFinished(j)
  BY DEF StaysFinished
<1>0. TypeOK /\ Tidy
  BY DEF IInv
<1>1. ASSUME NEW k \in Keys, NEW at \in Int, work' = Offered(work, k, at) PROVE StaysFinished(j)
  BY <1>1, <1>0 DEF Offered, StaysFinished, TypeOK, Table
<1>2. ASSUME NEW o \in Owners, Sweep(o) PROVE StaysFinished(j)
  <2>1. PICK S \in Batches(work, Limit) : work' = Claimed(work, S, o)
    BY <1>2 DEF Sweep
  <2>2. j \notin S
    BY <2>1, BatchesAreDue DEF Due
  <2>3. QED
    BY <2>1, <2>2 DEF Claimed, StaysFinished
<1>3. ASSUME NEW o \in Owners, NEW k \in Keys,
             \/ work' = Renewed(work, k, o)
             \/ work' = Finished(work, k, o)
             \/ work' = Released(work, k, o)
      PROVE  StaysFinished(j)
  BY <1>3, <1>0 DEF Renewed, Finished, Released, Ours, StaysFinished, TypeOK, Table
<1>4. ASSUME Purge PROVE StaysFinished(j)
  BY <1>4 DEF Purge, Purged, Reapable, StaysFinished
<1>5. ASSUME Tick PROVE StaysFinished(j)
  BY <1>5, <1>0, ElapsedRows DEF Tick, Tidy, StaysFinished, TypeOK
<1>6. ASSUME work' = work PROVE StaysFinished(j)
  BY <1>6 DEF StaysFinished
<1>7. ASSUME NEW o \in Owners, InsertOffer(o) PROVE StaysFinished(j)
  <2>1. PICK tx \in asking[o] : work' = IF tx.room THEN Offered(work, tx.key, 0) ELSE work
    BY <1>7 DEF InsertOffer
  <2>2. tx.key \in Keys
    BY <2>1, <1>0 DEF TypeOK, Transaction
  <2>3. QED
    BY <2>1, <2>2, <1>1, <1>6, Ranges
<1>8. QED
  BY <1>1, <1>2, <1>3, <1>4, <1>5, <1>6, <1>7, Ranges
     DEF Next, Offer, CountOffers, Crash, Start, Heartbeat, Complete, Fail

(* No step hands out, revives or changes a finished row, and purge drops   *)
(* one only past a window.                                                 *)
THEOREM FinishedIsFinal == Spec => FinishedStaysFinished
  BY QueueInvariant, FinishedStep, PTL DEF Spec, FinishedStaysFinished

LEMMA LeasedStep ==
  IInv /\ [Next]_vars => [\A o \in Owners, k \in Keys : StaysLeased(o, k)]_vars
<1> SUFFICES ASSUME IInv, Next, NEW p \in Owners, NEW j \in Keys,
                    work[j].owner = p, work[j].lease > 0, j \in Holds(p),
                    j \in Holds(p)'
             PROVE  work'[j].owner = p /\ work'[j].st = "open"
  BY DEF StaysLeased
<1>0. TypeOK /\ Tidy /\ LeaseIsRecent /\ HeldOnce /\ work[j].st = "open"
  BY DEF IInv, Tidy
<1>a. work[j] \in Row
  BY <1>0 DEF TypeOK, Table
<1> DEFINE Kept == work'[j].owner = p /\ work'[j].st = "open"
<1>1. ASSUME NEW k \in Keys, NEW at \in Int, work' = Offered(work, k, at) PROVE Kept
  BY <1>1, <1>0 DEF Offered, TypeOK, Table
<1>2. ASSUME NEW o \in Owners, Sweep(o) PROVE Kept
  <2>1. PICK S \in Batches(work, Limit) : work' = Claimed(work, S, o)
    BY <1>2 DEF Sweep
  <2>2. j \notin S
    BY <2>1, BatchesAreDue, <1>a, RowFields DEF Due
  <2>3. QED
    BY <2>1, <2>2, <1>0 DEF Claimed
<1>3. ASSUME NEW o \in Owners, NEW k \in Keys, work' = Renewed(work, k, o) PROVE Kept
  BY <1>3, <1>0 DEF Renewed, Open, Ours, TypeOK, Table
<1>4. ASSUME NEW o \in Owners, NEW k \in Keys, Complete(o, k) \/ Fail(o, k) PROVE Kept
  <2>1. ~ (o = p /\ k = j)
    BY <1>4, <1>0 DEF Complete, Fail, Holds, HeldOnce, TypeOK
  <2>2. CASE Complete(o, k)
    BY <2>1, <2>2, <1>0 DEF Complete, Finished, Ours, TypeOK, Table
  <2>3. CASE Fail(o, k)
    BY <2>1, <2>3, <1>0 DEF Fail, Released, Ours, TypeOK, Table
  <2>4. QED
    BY <1>4, <2>2, <2>3
<1>5. ASSUME Purge PROVE Kept
  <2>1. ~ Reapable(work[j])
    BY <1>0, <1>a, LeasedIsNotReaped DEF LeaseIsRecent
  <2>2. QED
    BY <1>5, <2>1, <1>0 DEF Purge, Purged
<1>6. ASSUME Tick PROVE Kept
  BY <1>6, <1>0, ElapsedRows DEF Tick, Tidy, TypeOK
<1>7. ASSUME work' = work PROVE Kept
  BY <1>7, <1>0
<1>8. ASSUME NEW o \in Owners, InsertOffer(o) PROVE Kept
  <2>1. PICK tx \in asking[o] : work' = IF tx.room THEN Offered(work, tx.key, 0) ELSE work
    BY <1>8 DEF InsertOffer
  <2>2. tx.key \in Keys
    BY <2>1, <1>0 DEF TypeOK, Transaction
  <2>3. QED
    BY <2>1, <2>2, <1>1, <1>7, Ranges
<1>9. QED
  BY <1>1, <1>2, <1>3, <1>4, <1>5, <1>6, <1>7, <1>8, Ranges
     DEF Next, Offer, CountOffers, Crash, Start, Heartbeat

(* Within a lease, a process loses a row only by a step of its own.        *)
THEOREM LeaseIsKept == Spec => LeaseIsNotTaken
  BY QueueInvariant, LeasedStep, PTL DEF Spec, LeaseIsNotTaken
-----------------------------------------------------------------------------
(* The cap of an atMost prefix. Between an offer's count and its insert    *)
(* the rows under the prefix can only get fewer: nobody else may insert.   *)

LEMMA UnderIsFinite ==
  ASSUME NEW t
  PROVE  IsFiniteSet(Under(t)) /\ Cardinality(Under(t)) \in Nat
  BY FS_Subset, FS_CardinalityType DEF Under

LEMMA FewerUnder ==
  ASSUME NEW t, NEW u, Under(u) \subseteq Under(t)
  PROVE  Cardinality(Under(u)) <= Cardinality(Under(t))
  BY UnderIsFinite, FS_Subset

LEMMA CapInitially == Init => CountStands /\ CapHolds
<1> SUFFICES ASSUME Init PROVE CountStands /\ CapHolds
  OBVIOUS
<1>1. Under(work) = {}
  BY DEF Init, Under, EmptyTable, NoRow
<1>2. QED
  BY <1>1, FS_EmptySet DEF Init, CountStands, CapHolds

LEMMA OnlyInsertsAdd ==
  ASSUME IInv, Next, \A o \in Owners : ~ InsertOffer(o)
  PROVE  Under(work') \subseteq Under(work)
<1>0. TypeOK /\ Tidy
  BY DEF IInv
<1>1. ASSUME NEW k \in Keys, Offer(k) PROVE Under(work') \subseteq Under(work)
  BY <1>1, <1>0 DEF Offer, Offered, Under, TypeOK, Table
<1>2. ASSUME NEW o \in Owners, Sweep(o) PROVE Under(work') \subseteq Under(work)
  <2>1. PICK S \in Batches(work, Limit) : work' = Claimed(work, S, o)
    BY <1>2 DEF Sweep
  <2>2. \A k \in Keys : work[k].st = "absent" => k \notin S
    BY <2>1, BatchesAreDue DEF Due
  <2>3. QED
    BY <2>1, <2>2 DEF Claimed, Under
<1>3. ASSUME NEW o \in Owners, NEW k \in Keys,
             \/ work' = Renewed(work, k, o)
             \/ work' = Finished(work, k, o)
             \/ work' = Released(work, k, o)
      PROVE  Under(work') \subseteq Under(work)
  BY <1>3, <1>0 DEF Renewed, Finished, Released, Ours, Under, TypeOK, Table
<1>4. ASSUME Purge PROVE Under(work') \subseteq Under(work)
  BY <1>4 DEF Purge, Purged, NoRow, Under
<1>5. ASSUME Tick PROVE Under(work') \subseteq Under(work)
  <2>1. \A k \in Keys : work'[k].st = work[k].st
    BY <1>5, <1>0, ElapsedRows DEF Tick, Tidy, TypeOK
  <2>2. QED
    BY <2>1 DEF Under
<1>6. ASSUME work' = work PROVE Under(work') \subseteq Under(work)
  BY <1>6
<1>7. QED
  BY <1>1, <1>2, <1>3, <1>4, <1>5, <1>6
     DEF Next, CountOffers, Crash, Start, Heartbeat, Complete, Fail

LEMMA CapInductive ==
  IInv /\ CountStands /\ CapHolds /\ [Next]_vars => CountStands' /\ CapHolds'
<1> SUFFICES ASSUME IInv, CountStands, CapHolds, [Next]_vars
             PROVE  CountStands' /\ CapHolds'
  OBVIOUS
<1>0. TypeOK /\ Tidy
  BY DEF IInv
<1>1. CASE UNCHANGED vars
  BY <1>1 DEF vars, CountStands, CapHolds
<1>2. ASSUME NEW o \in Owners, InsertOffer(o) PROVE CountStands' /\ CapHolds'
  <2>1. PICK tx \in asking[o] :
          /\ work' = IF tx.room THEN Offered(work, tx.key, 0) ELSE work
          /\ asking' = [asking EXCEPT ![o] = {}]
    BY <1>2 DEF InsertOffer
  <2>2. tx.key \in Keys
    BY <2>1, <1>0 DEF TypeOK, Transaction
  <2>3. CountStands'
    BY <2>1, <1>0 DEF CountStands, TypeOK
  <2>4. CASE tx.room
    <3>1. Under(work') \subseteq Under(work) \union {tx.key}
      BY <2>1, <2>2, <2>4, <1>0 DEF Offered, Under, TypeOK, Table
    <3>2. /\ IsFiniteSet(Under(work) \union {tx.key})
          /\ Cardinality(Under(work) \union {tx.key}) <= Cardinality(Under(work)) + 1
      <4>1. IsFiniteSet(Under(work)) /\ Cardinality(Under(work)) \in Nat
        BY UnderIsFinite
      <4>2. /\ IsFiniteSet(Under(work) \union {tx.key})
            /\ \/ Cardinality(Under(work) \union {tx.key}) = Cardinality(Under(work))
               \/ Cardinality(Under(work) \union {tx.key}) = Cardinality(Under(work)) + 1
        BY <4>1, FS_AddElement
      <4>3. QED
        BY <4>1, <4>2
    <3>3. Cardinality(Under(work')) <= Cardinality(Under(work) \union {tx.key})
      BY <3>1, <3>2, FS_Subset
    <3>4. Cardinality(Under(work)) < MaxCapped
      BY <2>1, <2>4 DEF CountStands
    <3>5. /\ Cardinality(Under(work)) \in Nat /\ Cardinality(Under(work')) \in Nat
          /\ Cardinality(Under(work) \union {tx.key}) \in Nat
      BY <3>2, UnderIsFinite, FS_CardinalityType
    <3>6. QED
      BY <2>3, <3>2, <3>3, <3>4, <3>5 DEF CapHolds
  <2>5. CASE ~ tx.room
    BY <2>1, <2>3, <2>5 DEF CapHolds
  <2>6. QED
    BY <2>4, <2>5
<1>3. ASSUME Next, \A o \in Owners : ~ InsertOffer(o) PROVE CountStands' /\ CapHolds'
  <2>1. Cardinality(Under(work')) <= Cardinality(Under(work))
    BY <1>3, OnlyInsertsAdd, FewerUnder
  <2>2. Cardinality(Under(work)) \in Nat /\ Cardinality(Under(work')) \in Nat
    BY UnderIsFinite
  <2>3. CapHolds'
    BY <2>1, <2>2 DEF CapHolds
  <2>4. ASSUME NEW o \in Owners, NEW k \in Capped, CountOffers(o, k) PROVE CountStands'
    <3>1. asking' = [asking EXCEPT ![o] = {[key |-> k, room |-> Room(work, k)]}] /\ work' = work
      BY <2>4 DEF CountOffers
    <3>2. \A p \in Owners \ {o} : asking'[p] = {}
      BY <2>4, <3>1, <1>0 DEF CountOffers, PrefixFree, TypeOK
    <3>3. asking'[o] = {[key |-> k, room |-> Room(work, k)]}
      BY <3>1, <1>0 DEF TypeOK
    <3>4. Room(work, k) => Cardinality(Under(work')) < MaxCapped
      BY <3>1 DEF Room
    <3>5. QED
      BY <3>2, <3>3, <3>4 DEF CountStands
  <2>5. ASSUME NEW o \in Owners, Crash(o) PROVE CountStands'
    BY <2>5, <1>0 DEF Crash, CountStands, TypeOK
  <2>6. ASSUME asking' = asking PROVE CountStands'
    BY <2>6, <2>1, <2>2 DEF CountStands
  <2>7. CountStands'
    BY <1>3, <2>4, <2>5, <2>6
       DEF Next, Offer, Sweep, Start, Heartbeat, Complete, Fail, Purge, Tick
  <2>8. QED
    BY <2>3, <2>7
<1>4. QED
  BY <1>1, <1>2, <1>3

(* However many processes ask at once, and whoever dies between its count  *)
(* and its insert, a prefix never holds more rows than atMost allows.      *)
THEOREM PrefixIsCapped == Spec => []CapHolds
<1>1. Init => CountStands /\ CapHolds
  BY CapInitially
<1>2. QED
  BY <1>1, QueueInvariant, CapInductive, PTL DEF Spec

-----------------------------------------------------------------------------
(* How often a row is acted on. At most one process holds an unused        *)
(* hand-out of a row, its owner; sweeping makes one more attempt and one    *)
(* more hand-out, starting turns the hand-out into a start.                *)

LEMMA OneUnused ==
  ASSUME NEW k \in Keys
  PROVE  /\ Unused(k) = {} \/ Unused(k) = {work[k].owner}
         /\ Unused(k) = {} => Cardinality(Unused(k)) = 0
         /\ Unused(k) # {} => Cardinality(Unused(k)) = 1
<1>1. Unused(k) = {} \/ Unused(k) = {work[k].owner}
  BY DEF Unused, Ours
<1>2. QED
  BY <1>1, FS_EmptySet, FS_Singleton

LEMMA OneUnusedNext ==
  ASSUME NEW k \in Keys
  PROVE  /\ Unused(k)' = {} \/ Unused(k)' = {work'[k].owner}
         /\ Unused(k)' = {} => Cardinality(Unused(k))' = 0
         /\ Unused(k)' # {} => Cardinality(Unused(k))' = 1
<1>1. Unused(k)' = {} \/ Unused(k)' = {work'[k].owner}
  BY DEF Unused, Ours
<1>2. QED
  BY <1>1, FS_EmptySet, FS_Singleton

LEMMA StartsInitially == Init => StartsAreBounded
<1> SUFFICES ASSUME Init, NEW k \in Keys
             PROVE  starts[k] + Cardinality(Unused(k)) <= work[k].attempts
  BY DEF StartsAreBounded
<1>1. Unused(k) = {}
  BY DEF Init, Unused
<1>2. QED
  BY <1>1, FS_EmptySet DEF Init, EmptyTable, NoRow

LEMMA StartsInductive == IInv /\ IInv' /\ StartsAreBounded /\ [Next]_vars => StartsAreBounded'
<1> SUFFICES ASSUME IInv, IInv', StartsAreBounded, [Next]_vars, NEW j \in Keys
             PROVE  starts'[j] + Cardinality(Unused(j))' <= work'[j].attempts
  BY DEF StartsAreBounded
<1> DEFINE Kept == starts'[j] + Cardinality(Unused(j))' <= work'[j].attempts
<1>0. TypeOK /\ Tidy
  BY DEF IInv
<1>r. work[j] \in Row /\ work'[j] \in Row
  BY DEF IInv, TypeOK, Table
<1>n. /\ starts[j] \in Nat /\ starts'[j] \in Nat
      /\ work[j].attempts \in Nat /\ work'[j].attempts \in Nat
  BY <1>r, RowFields DEF IInv, TypeOK
<1>b. starts[j] + Cardinality(Unused(j)) <= work[j].attempts
  BY DEF StartsAreBounded
<1>u. Cardinality(Unused(j)) \in {0, 1} /\ Cardinality(Unused(j))' \in {0, 1}
  BY OneUnused, OneUnusedNext
\* A step that makes no start and no hand-out of j.
<1>k. ASSUME starts'[j] = starts[j], work'[j].attempts = work[j].attempts,
             Unused(j)' \subseteq Unused(j)
      PROVE  Kept
  <2>1. Unused(j) = {} => Unused(j)' = {}
    BY <1>k
  <2>2. Cardinality(Unused(j))' <= Cardinality(Unused(j))
    BY <2>1, OneUnused, OneUnusedNext
  <2>3. QED
    BY <2>2, <1>k, <1>b, <1>n, <1>u
<1>1. ASSUME NEW k \in Keys, NEW at \in Int, work' = Offered(work, k, at), UNCHANGED claims
      PROVE  Kept
  <2>1. work'[j].attempts = work[j].attempts
    BY <1>1, <1>0 DEF Offered, Open, Tidy, NoRow, TypeOK, Table
  <2>2. Unused(j)' \subseteq Unused(j)
    BY <1>1, <1>0 DEF Offered, Open, Tidy, NoRow, TypeOK, Table, Unused, Ours, claims
  <2>3. QED
    BY <2>1, <2>2, <1>1, <1>k DEF claims
<1>2. ASSUME NEW o \in Owners, InsertOffer(o) PROVE Kept
  <2>1. PICK tx \in asking[o] :
          /\ work' = IF tx.room THEN Offered(work, tx.key, 0) ELSE work
          /\ UNCHANGED claims
    BY <1>2 DEF InsertOffer
  <2>2. tx.key \in Keys
    BY <2>1, <1>0 DEF TypeOK, Transaction
  <2>3. CASE tx.room
    BY <2>1, <2>2, <2>3, <1>1, Ranges
  <2>4. CASE ~ tx.room
    BY <2>1, <2>4, <1>k DEF claims, Unused, Ours
  <2>5. QED
    BY <2>3, <2>4
<1>3. ASSUME NEW o \in Owners, Sweep(o) PROVE Kept
  <2>1. PICK S \in Batches(work, Limit) :
          work' = Claimed(work, S, o) /\ batch' = [batch EXCEPT ![o] = S]
    BY <1>3 DEF Sweep
  <2>2. starts' = starts
    BY <1>3 DEF Sweep
  <2>3. CASE j \in S
    <3>1. work'[j].attempts = work[j].attempts + 1
      BY <2>1, <2>3 DEF Claimed, Open
    <3>2. CASE Unused(j) = {}
      BY <3>1, <3>2, <2>2, OneUnused, <1>b, <1>n, <1>u
    <3>3. CASE Unused(j) # {}
      BY <3>1, <3>3, <2>2, OneUnused, <1>b, <1>n, <1>u
    <3>4. QED
      BY <3>2, <3>3
  <2>4. CASE j \notin S
    <3>1. work'[j] = work[j]
      BY <2>1, <2>4 DEF Claimed
    <3>2. Unused(j)' \subseteq Unused(j)
      BY <3>1, <2>1, <2>4, <1>0 DEF Unused, Ours, TypeOK
    <3>3. QED
      BY <3>1, <3>2, <2>2, <1>k
  <2>5. QED
    BY <2>3, <2>4
<1>4. ASSUME NEW o \in Owners, NEW k \in Keys, Start(o, k) PROVE Kept
  <2>1. /\ work' = Renewed(work, k, o) /\ batch' = [batch EXCEPT ![o] = @ \ {k}]
        /\ k \in batch[o]
    BY <1>4 DEF Start
  <2>2. /\ work'[j].attempts = work[j].attempts /\ work'[j].owner = work[j].owner
        /\ work'[j].st = work[j].st
    BY <2>1, <1>0 DEF Renewed, Ours, Open, TypeOK, Table
  <2>3. Unused(j)' \subseteq Unused(j)
    BY <2>1, <2>2, <1>0 DEF Unused, Ours, TypeOK
  <2>4. CASE starts'[j] = starts[j]
    BY <2>2, <2>3, <2>4, <1>k
  <2>5. CASE starts'[j] # starts[j]
    <3>1. j = k /\ Ours(work, k, o) /\ starts'[j] = starts[j] + 1
      BY <1>4, <2>5, <1>0 DEF Start, TypeOK
    <3>2. o \in Unused(j) /\ o \notin Unused(j)'
      BY <3>1, <2>1, <1>0 DEF Unused, TypeOK
    <3>3. work[j].owner = o
      BY <3>1 DEF Ours
    <3>4. Unused(j)' = {}
      BY <3>2, <3>3, <2>2, OneUnusedNext
    <3>5. Cardinality(Unused(j)) = 1 /\ Cardinality(Unused(j))' = 0
      BY <3>2, <3>4, OneUnused, OneUnusedNext
    <3>6. QED
      BY <3>1, <3>5, <2>2, <1>b, <1>n
  <2>6. QED
    BY <2>4, <2>5
<1>5. ASSUME NEW o \in Owners, NEW k \in Keys,
             \/ Heartbeat(o, k) /\ work' = Renewed(work, k, o)
             \/ Complete(o, k) /\ work' = Finished(work, k, o)
             \/ Fail(o, k) /\ work' = Released(work, k, o)
      PROVE  Kept
  <2>1. batch' = batch /\ starts' = starts
    BY <1>5 DEF Heartbeat, Complete, Fail
  <2>2. work'[j].attempts = work[j].attempts
    BY <1>5, <1>0 DEF Renewed, Finished, Released, Open, TypeOK, Table
  <2>3. work'[j].owner \in {work[j].owner, Nobody} /\ (work'[j].st = "open" => work[j].st = "open")
    BY <1>5, <1>0 DEF Renewed, Finished, Released, Ours, Open, TypeOK, Table
  <2>4. Unused(j)' \subseteq Unused(j)
    BY <2>1, <2>3 DEF Unused, Ours
  <2>5. QED
    BY <2>1, <2>2, <2>4, <1>k
<1>6. ASSUME Purge PROVE Kept
  <2>1. work'[j] = (IF Reapable(work[j]) THEN NoRow ELSE work[j]) /\ batch' = batch
    BY <1>6 DEF Purge, Purged
  <2>2. CASE work'[j].st = "absent"
    <3>1. work'[j] = NoRow
      BY <2>2, <2>1, <1>0 DEF Tidy
    <3>2. starts'[j] = 0 /\ Unused(j)' = {}
      BY <3>1, <1>6 DEF Purge, Unused, Ours, NoRow
    <3>3. QED
      BY <3>1, <3>2, OneUnusedNext DEF NoRow
  <2>3. CASE work'[j].st # "absent"
    BY <2>1, <2>3, <1>6, <1>k DEF Purge, NoRow, Unused, Ours
  <2>4. QED
    BY <2>2, <2>3
<1>7. ASSUME Tick PROVE Kept
  <2>1. /\ work'[j].st = work[j].st /\ work'[j].owner = work[j].owner
        /\ work'[j].attempts = work[j].attempts
    BY <1>7, <1>0, ElapsedRows DEF Tick, Tidy, TypeOK
  <2>2. batch' = batch /\ starts' = starts
    BY <1>7 DEF Tick
  <2>3. QED
    BY <2>1, <2>2, <1>k DEF Unused, Ours
<1>8. ASSUME NEW o \in Owners, Crash(o) PROVE Kept
  <2>1. Unused(j)' \subseteq Unused(j)
    BY <1>8, <1>0 DEF Crash, Unused, Ours, TypeOK
  <2>2. QED
    BY <2>1, <1>8, <1>k DEF Crash
<1>9. ASSUME UNCHANGED <<work, claims>> PROVE Kept
  BY <1>9, <1>k DEF claims, Unused, Ours
<1>10. QED
  BY <1>1, <1>2, <1>3, <1>4, <1>5, <1>6, <1>7, <1>8, <1>9, Ranges
     DEF Next, vars, claims, Offer, CountOffers, Heartbeat, Complete, Fail

(* However often its owners die, stall or let go, a row is acted on at     *)
(* most MaxAttempts times before it is purged.                             *)
THEOREM AttemptsAreBounded == Spec => []StartsAreBounded
<1>1. Init => StartsAreBounded
  BY StartsInitially
<1>2. QED
  BY <1>1, QueueInvariant, StartsInductive, PTL DEF Spec

-----------------------------------------------------------------------------
(* The queue implements the ledger: every step is one of the ledger's, or  *)
(* changes nothing the ledger sees.                                        *)

\* A table's rows as the ledger sees them.
Seen(r) == <<Status(r), r.owner, r.attempts>>

LEMMA SeenAlike ==
  ASSUME \A k \in Keys : Seen(work'[k]) = Seen(work[k])
  PROVE  UNCHANGED Ledger!vars
  BY DEF Seen, Ledger!vars

LEMMA SeenOne ==
  ASSUME NEW k \in Keys, \A j \in Keys \ {k} : work'[j] = work[j]
  PROVE  /\ [j \in Keys |-> Status(work'[j])]
              = [[j \in Keys |-> Status(work[j])] EXCEPT ![k] = Status(work'[k])]
         /\ [j \in Keys |-> work'[j].owner]
              = [[j \in Keys |-> work[j].owner] EXCEPT ![k] = work'[k].owner]
         /\ work'[k].owner = work[k].owner =>
              [j \in Keys |-> work'[j].owner] = [j \in Keys |-> work[j].owner]
         /\ work'[k].attempts = work[k].attempts =>
              [j \in Keys |-> work'[j].attempts] = [j \in Keys |-> work[j].attempts]
  OBVIOUS

LEMMA LedgerInit == Init => Ledger!Init
  BY DEF Init, Ledger!Init, EmptyTable, NoRow, Status

LEMMA OfferIsAdd ==
  ASSUME IInv, NEW k \in Keys, NEW at, work' = Offered(work, k, at)
  PROVE  [Ledger!Next]_(Ledger!vars)
<1>0. TypeOK /\ Tidy
  BY DEF IInv
<1>1. CASE work[k].st = "absent"
  <2>1. work[k] = NoRow /\ work'[k] = Open(at, Nobody, 0, 0, 0)
    BY <1>0, <1>1 DEF Tidy, Offered, TypeOK, Table
  <2>2. /\ Status(work[k]) = "none" /\ Status(work'[k]) = "waiting"
        /\ work'[k].owner = work[k].owner /\ work'[k].attempts = work[k].attempts
    BY <2>1 DEF Status, NoRow, Open
  <2>3. \A j \in Keys \ {k} : work'[j] = work[j]
    BY <1>0, <1>1 DEF Offered, TypeOK, Table
  <2>4. Ledger!Add(k)
    BY <2>2, <2>3, SeenOne DEF Ledger!Add
  <2>5. QED
    BY <2>4 DEF Ledger!Next
<1>2. CASE work[k].st # "absent"
  BY <1>2 DEF Offered, Ledger!vars
<1>3. QED
  BY <1>1, <1>2

LEMMA SweepIsGrant ==
  ASSUME IInv, NEW o \in Owners, Sweep(o)
  PROVE  Ledger!Next
<1>1. PICK S \in Batches(work, Limit) : work' = Claimed(work, S, o)
  BY DEF Sweep
<1>2. S \in SUBSET Keys
  BY <1>1, BatchesAreDue DEF Due
<1>3. \A k \in S : Status(work[k]) = "waiting" /\ work[k].attempts < MaxAttempts
  BY <1>1, BatchesAreDue DEF Due, Status
<1>4. \A k \in Keys :
        Seen(work'[k]) = IF k \in S THEN <<"leased", o, work[k].attempts + 1>> ELSE Seen(work[k])
  BY <1>1 DEF Claimed, Seen, Status, Open
<1>5. Ledger!Grant(S, o)
  BY <1>2, <1>3, <1>4 DEF Ledger!Grant, Seen
<1>6. QED
  BY <1>2, <1>5 DEF Ledger!Next

LEMMA OwnStepsAreLedgerSteps ==
  ASSUME IInv, NEW o \in Owners, NEW k \in Keys,
         \/ work' = Renewed(work, k, o)
         \/ work' = Finished(work, k, o)
         \/ work' = Released(work, k, o)
  PROVE  [Ledger!Next]_(Ledger!vars)
<1>0. TypeOK
  BY DEF IInv
<1>1. CASE ~ Ours(work, k, o)
  BY <1>1 DEF Renewed, Finished, Released, Ledger!vars
<1>2. CASE Ours(work, k, o)
  <2>1. Status(work[k]) \in {"waiting", "leased"} /\ work[k].owner = o
    BY <1>2 DEF Ours, Status
  <2>2. \A j \in Keys \ {k} : work'[j] = work[j]
    BY <1>0 DEF Renewed, Finished, Released, TypeOK, Table
  <2>3. CASE work' = Renewed(work, k, o)
    <3>1. /\ Status(work'[k]) = "leased" /\ work'[k].owner = o
          /\ work'[k].attempts = work[k].attempts
      BY <2>3, <1>0, <1>2 DEF Renewed, Status, Open, TypeOK, Table
    <3>2. Ledger!Keep(k, o)
      BY <2>1, <2>2, <3>1, SeenOne DEF Ledger!Keep, Ledger!Wanted
    <3>3. QED
      BY <3>2 DEF Ledger!Next
  <2>4. CASE work' = Finished(work, k, o)
    <3>1. /\ Status(work'[k]) = "done" /\ work'[k].owner = Nobody
          /\ work'[k].attempts = work[k].attempts
      BY <2>4, <1>0, <1>2 DEF Finished, Status, TypeOK, Table
    <3>2. Ledger!Settle(k, o)
      BY <2>1, <2>2, <3>1, SeenOne DEF Ledger!Settle, Ledger!Wanted
    <3>3. QED
      BY <3>2 DEF Ledger!Next
  <2>5. CASE work' = Released(work, k, o)
    <3>1. /\ Status(work'[k]) = "waiting" /\ work'[k].owner = Nobody
          /\ work'[k].attempts = work[k].attempts
      BY <2>5, <1>0, <1>2 DEF Released, Status, Open, TypeOK, Table
    <3>2. Ledger!GiveBack(k, o)
      BY <2>1, <2>2, <3>1, SeenOne DEF Ledger!GiveBack, Ledger!Wanted
    <3>3. QED
      BY <3>2 DEF Ledger!Next
  <2>6. QED
    BY <2>3, <2>4, <2>5
<1>3. QED
  BY <1>1, <1>2

LEMMA PurgeIsForget ==
  ASSUME IInv, Purge
  PROVE  Ledger!Next
<1>s. PICK S : S = { k \in Keys : Reapable(work[k]) /\ work[k].st # "absent" }
  OBVIOUS
<1>0. TypeOK /\ Tidy /\ LeaseIsRecent
  BY DEF IInv
<1>r. \A k \in Keys : work[k] \in Row
  BY <1>0 DEF TypeOK, Table
<1>1. \A k \in Keys : work'[k] = IF k \in S THEN NoRow ELSE work[k]
  BY <1>s, <1>0 DEF Purge, Purged, Tidy
<1>2. \A k \in S : \/ Status(work[k]) = "done"
                   \/ Status(work[k]) = "waiting" /\ work[k].attempts = MaxAttempts
  <2> TAKE k \in S
  <2>0. k \in Keys /\ Reapable(work[k]) /\ work[k].st # "absent"
    BY <1>s
  <2>1. CASE work[k].st = "done"
    BY <2>1 DEF Status
  <2>2. CASE work[k].st = "open"
    <3>1. work[k].lease = 0
      BY <2>0, <2>2, <1>0, <1>r, LeasedIsNotReaped, RowFields DEF LeaseIsRecent
    <3>2. work[k].attempts = MaxAttempts
      BY <2>0, <2>2, <1>r, RowFields DEF Reapable
    <3>3. QED
      BY <3>1, <3>2, <2>2 DEF Status
  <2>3. QED
    BY <2>0, <2>1, <2>2, <1>r, RowFields
<1>3. \A k \in Keys : Seen(work'[k]) = IF k \in S THEN <<"none", Nobody, 0>> ELSE Seen(work[k])
  BY <1>1 DEF Seen, Status, NoRow
<1>4. S \in SUBSET Keys
  BY <1>s
<1>5. Ledger!Forget(S)
  BY <1>2, <1>3, <1>4 DEF Ledger!Forget, Seen
<1>6. QED
  BY <1>4, <1>5 DEF Ledger!Next

LEMMA TickIsLapse ==
  ASSUME IInv, Tick
  PROVE  Ledger!Next
<1>s. PICK S : S = { k \in Keys : work[k].lease = 1 }
  OBVIOUS
<1>0. TypeOK /\ Tidy
  BY DEF IInv
<1>r. \A k \in Keys : work[k] \in Row
  BY <1>0 DEF TypeOK, Table
<1>1. \A k \in Keys : /\ work'[k].st = work[k].st /\ work'[k].owner = work[k].owner
                      /\ work'[k].attempts = work[k].attempts
                      /\ work'[k].lease = IF work[k].lease > 0 THEN work[k].lease - 1 ELSE 0
  BY <1>0, <1>r, ElapsedRows DEF Tick, Tidy, TypeOK
<1>2. \A k \in S : work[k].st = "open" /\ Status(work[k]) = "leased"
  BY <1>s, <1>0 DEF Status, Tidy
<1>3. \A k \in Keys : Seen(work'[k]) =
        <<IF k \in S THEN "waiting" ELSE Status(work[k]), work[k].owner, work[k].attempts>>
  BY <1>s, <1>0, <1>1, <1>r, RowFields DEF Seen, Status, Tidy
<1>4. S \in SUBSET Keys
  BY <1>s
<1>5. Ledger!Lapse(S)
  BY <1>2, <1>3, <1>4 DEF Ledger!Lapse, Seen
<1>6. QED
  BY <1>4, <1>5 DEF Ledger!Next

LEMMA LedgerStep == IInv /\ [Next]_vars => [Ledger!Next]_(Ledger!vars)
<1> SUFFICES ASSUME IInv, [Next]_vars PROVE [Ledger!Next]_(Ledger!vars)
  OBVIOUS
<1>1. ASSUME NEW o \in Owners, InsertOffer(o) PROVE [Ledger!Next]_(Ledger!vars)
  <2>1. PICK tx \in asking[o] : work' = IF tx.room THEN Offered(work, tx.key, 0) ELSE work
    BY <1>1 DEF InsertOffer
  <2>2. tx.key \in Keys
    BY <2>1 DEF IInv, TypeOK, Transaction
  <2>3. QED
    BY <2>1, <2>2, OfferIsAdd DEF Ledger!vars
<1>2. ASSUME work' = work PROVE [Ledger!Next]_(Ledger!vars)
  BY <1>2 DEF Ledger!vars
<1>3. QED
  BY <1>1, <1>2, OfferIsAdd, SweepIsGrant, OwnStepsAreLedgerSteps, PurgeIsForget, TickIsLapse
     DEF Next, vars, Offer, CountOffers, Crash, Start, Heartbeat, Complete, Fail

(* The queue, every step of it interleaved any way with the steps, stalls  *)
(* and deaths of the processes, is the ledger.                             *)
THEOREM QueueImplementsLedger == Spec => ImplementsLedger
  BY QueueInvariant, LedgerInit, LedgerStep, PTL DEF Spec, ImplementsLedger, Ledger!Spec
=============================================================================
