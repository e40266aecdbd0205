------------------------------ MODULE WorkTable ------------------------------
(***************************************************************************)
(* The work_items table of server/src/work/queue.ts, and what each         *)
(* statement of the queue makes of it. One kind of work; a table maps      *)
(* every key of that kind to its row.                                      *)
(*                                                                         *)
(* Every moment in the code is named on the database's clock and only ever *)
(* compared with now(), so a row keeps the differences: `wait` is          *)
(* run_at - now, `lease` is what is left of lease_until (0: null or not    *)
(* in the future) and `age` is now - updated_at. Elapsed moves the clock.  *)
(* The operators are functions of the table, one per statement, so that    *)
(* any module can compose them into an atomic step of its own.             *)
(***************************************************************************)
EXTENDS Integers, FiniteSets

CONSTANTS
  Keys,               \* identities of the work of this kind
  Owners,             \* processes that claim, one sweep at a time each
  Nobody,             \* a null claimed_by
  MaxAttempts,        \* DEFAULT_MAX_ATTEMPTS, or the caller's
  Lease,              \* leaseMs, in ticks
  RetryDelay,         \* delayMs of a release, in ticks
  KeepFinished,       \* purge's finishedOlderThanMs, in ticks
  KeepGivenUp,        \* purge's olderThanMs, in ticks
  Backlog             \* bound: how far back the order of overdue rows is kept

ASSUME NobodyAssumption == Nobody \notin Owners
ASSUME AttemptsAssumption == MaxAttempts \in Nat \ {0}
ASSUME LeaseAssumption == Lease \in Nat \ {0}
ASSUME WindowAssumption ==
  /\ RetryDelay \in Nat /\ KeepFinished \in Nat /\ KeepGivenUp \in Nat /\ Backlog \in Nat
  /\ Lease <= KeepGivenUp

-----------------------------------------------------------------------------
(* A row. "absent" stands for no row at all, "open" for finished_at null.  *)
Row == [st       : {"absent", "open", "done"},
        wait     : Int,
        owner    : Owners \union {Nobody},
        lease    : 0..Lease,
        attempts : 0..MaxAttempts,
        age      : Nat]

NoRow == [st |-> "absent", wait |-> 0, owner |-> Nobody,
          lease |-> 0, attempts |-> 0, age |-> 0]

Table == [Keys -> Row]

EmptyTable == [k \in Keys |-> NoRow]

Open(w, o, l, n, a) == [st |-> "open", wait |-> w, owner |-> o,
                        lease |-> l, attempts |-> n, age |-> a]

-----------------------------------------------------------------------------
(* Each mutant below is a plausible slip in the statement that follows it, *)
(* and makes a property of a run false.                                    *)

\* Mutant: on conflict do update, unless the row is still open.
OfferedAfresh(t, k, at) ==
  IF t[k].st # "open" THEN [t EXCEPT ![k] = Open(at, Nobody, 0, 0, 0)] ELSE t

(* offer: insert on conflict do nothing. Any row of that key conflicts,    *)
(* a finished one and one that gave up as much as one still wanted.        *)
Offered(t, k, at) ==
  IF t[k].st = "absent" THEN [t EXCEPT ![k] = Open(at, Nobody, 0, 0, 0)] ELSE t

\* Mutants: claim that forgets one line of its where clause, or asks of the
\* owner what it should ask of the lease.
DueAnyLease(t) ==
  { k \in Keys : t[k].st = "open" /\ t[k].attempts < MaxAttempts /\ t[k].wait <= 0 }
DueAnyAttempts(t) == { k \in Keys : t[k].st = "open" /\ t[k].wait <= 0 /\ t[k].lease = 0 }
DueUnowned(t) == { k \in DueAnyLease(t) : t[k].owner = Nobody }

(* claim's where clause. *)
Due(t) == { k \in Keys : /\ t[k].st = "open"
                         /\ t[k].attempts < MaxAttempts
                         /\ t[k].wait <= 0
                         /\ t[k].lease = 0 }

(* claim's order by run_at limit n: as many due rows as fit, none of them  *)
(* later than a due row left out. A row another transaction has locked is  *)
(* skipped; that transaction writes it, and every write but another claim's*)
(* leaves it not due, so skipping it is claiming just after that write.    *)
Batches(t, n) ==
  { S \in SUBSET Due(t) :
      /\ Cardinality(S) = IF Cardinality(Due(t)) < n THEN Cardinality(Due(t)) ELSE n
      /\ \A k \in S, j \in Due(t) \ S : t[k].wait <= t[j].wait }

\* Mutant: attempts counted somewhere else than in the claim.
ClaimedUncounted(t, S, o) ==
  [k \in Keys |-> IF k \in S THEN Open(t[k].wait, o, Lease, t[k].attempts, 0) ELSE t[k]]

(* claim's update of the rows it selected. *)
Claimed(t, S, o) ==
  [k \in Keys |->
     IF k \in S THEN Open(t[k].wait, o, Lease, t[k].attempts + 1, 0) ELSE t[k]]

\* Mutant: a row named by its key alone.
OursByKey(t, k, o) == t[k].st = "open"

(* Still claimed by this owner and still wanting doing. The lease is not   *)
(* consulted: an owner whose lease lapsed keeps the row until it is taken. *)
Ours(t, k, o) == t[k].st = "open" /\ t[k].owner = o

Renewed(t, k, o) ==
  IF Ours(t, k, o)
  THEN [t EXCEPT ![k] = Open(t[k].wait, o, Lease, t[k].attempts, 0)]
  ELSE t

\* Mutants: a finished row is let go of without its finished_at; or is
\* deleted, so the same key can be offered again.
FinishedUnmarked(t, k, o) ==
  IF Ours(t, k, o) THEN [t EXCEPT ![k] = Open(0, Nobody, 0, t[k].attempts, 0)] ELSE t
FinishedByDelete(t, k, o) == IF Ours(t, k, o) THEN [t EXCEPT ![k] = NoRow] ELSE t

Finished(t, k, o) ==
  IF Ours(t, k, o)
  THEN [t EXCEPT ![k] = [st |-> "done", wait |-> 0, owner |-> Nobody,
                         lease |-> 0, attempts |-> t[k].attempts, age |-> 0]]
  ELSE t

Released(t, k, o) ==
  IF Ours(t, k, o)
  THEN [t EXCEPT ![k] = Open(RetryDelay, Nobody, 0, t[k].attempts, 0)]
  ELSE t

\* Mutant: only finished rows are reaped.
ReapableFinished(r) == r.st = "done" /\ r.age > KeepFinished

(* purge's where clause: both kinds of done, each on its own window. *)
Reapable(r) ==
  \/ r.st = "done" /\ r.age > KeepFinished
  \/ r.st # "absent" /\ r.attempts >= MaxAttempts /\ r.age > KeepGivenUp

Purged(t) == [k \in Keys |-> IF Reapable(t[k]) THEN NoRow ELSE t[k]]

(* A tick of the database's clock. Only what a statement will compare is   *)
(* kept: the age of a row purge may yet take, up to the longer window, and *)
(* of the overdue rows their order but not their distances: one is Packed  *)
(* when every place before it, down to -Backlog, is taken.                 *)
Horizon == 1 + (IF KeepFinished > KeepGivenUp THEN KeepFinished ELSE KeepGivenUp)

Packed(t, k) ==
  \A w \in (-Backlog)..(t[k].wait - 1) :
    \E j \in Keys : t[j].st = "open" /\ t[j].wait = w

Ending(r) == r.st = "done" \/ r.attempts >= MaxAttempts

Older(t, k) ==
  LET r == t[k] IN
  [st    |-> r.st,    owner    |-> r.owner,    attempts |-> r.attempts,
   wait  |-> IF r.st = "done" \/ Packed(t, k) THEN r.wait ELSE r.wait - 1,
   lease |-> IF r.lease > 0 THEN r.lease - 1 ELSE 0,
   age   |-> IF Ending(r) /\ r.age < Horizon THEN r.age + 1 ELSE r.age]

Elapsed(t) == [k \in Keys |-> IF t[k].st = "absent" THEN t[k] ELSE Older(t, k)]

(* Handed out as often as it will ever be, and nobody's lease is on it. *)
GaveUp(r) == r.st = "open" /\ r.attempts = MaxAttempts /\ r.lease = 0
=============================================================================
