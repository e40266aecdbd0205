------------------------------- MODULE Routines -------------------------------
(***************************************************************************)
(* Standing routines: the rows people switch on, off and reschedule        *)
(* (server/src/routines/store.ts), and the sweeps of every replica that    *)
(* turn a due row into a work item and move its clock (sweep.ts,           *)
(* offerDueRoutines). A request reads a row before it takes the lock it    *)
(* writes under; a sweep reads the rows, then offers, then reads again,    *)
(* then moves the stamp, and may stumble or die between any two.           *)
(***************************************************************************)
EXTENDS Integers, FiniteSets

CONSTANTS
  Routine,            \* ids; a random one is never given out twice
  Legacy,             \* those whose row may predate the check of its cron
  Sweepers,           \* processes running the offering half, one pass at a time
  Editors,            \* requests in flight: a person's tabs, their Bots, the fatigue rule
  Cadences,           \* the crons people choose: every so many ticks
  Unreadable,         \* a cron that schedule.ts refuses
  Patches,            \* what requests ask for: "on", "off", "cron"
  MaxEnabled,         \* MAX_ENABLED_ROUTINES
  Grace,              \* DEFAULT_GRACE_MS, in ticks
  Keep,               \* PURGE_OLDER_THAN_MS, in ticks
  MaxPass,            \* bound: how long one pass may take
  MaxFaults,          \* bound: how many passes stumble or die
  MaxTime             \* bound: where the clock stops

ASSUME RoutinesAssumption ==
  /\ Legacy \subseteq Routine /\ IsFiniteSet(Routine)
  /\ Cadences \subseteq Nat \ {0} /\ Unreadable \notin Nat
  /\ Patches \subseteq {"on", "off", "cron"}
  /\ MaxEnabled \in Nat /\ Grace \in Nat /\ Keep \in Nat /\ MaxPass \in Nat
  /\ MaxFaults \in Nat /\ MaxTime \in Nat
  /\ Grace + MaxPass <= Keep

VARIABLES
  now,        \* the database's clock, which the sweeps' own agree with
  routine,    \* the rows of the routines table
  queue,      \* the work items of kind ROUTINE_FIRE_KIND, finished ones too
  ever,       \* the keys ever inserted (history)
  todo,       \* per sweep: the due rows it read and has not come to
  clock,      \* per sweep: `now` as read when the pass began
  at,         \* per sweep: the row it is on, at most one
  request,    \* per editor: an update between its read and its write, at most one
  faults

vars == <<now, routine, queue, ever, todo, clock, at, request, faults>>
sweeps == <<todo, clock, at>>

Row(st, stamp, cron) == [st |-> st, stamp |-> stamp, cron |-> cron]

Unborn == Row("unborn", 0, Unreadable)

\* Null in the values of an update: the column is left alone.
Kept == -1

Enabled(t) == { r \in Routine : t[r].st = "on" }
Standing(r) == routine[r].st \in {"on", "off"}

(* nextRunFor: the first occurrence strictly after t. *)
NextRun(c, t) == ((t \div c) + 1) * c

(* The key renders the minute the firing was due. *)
Key(i) == [routine |-> i.routine, due |-> i.due]

Init ==
  /\ now = 0
  /\ \E old \in SUBSET Legacy :
       routine = [r \in Routine |-> IF r \in old THEN Row("on", 0, Unreadable) ELSE Unborn]
  /\ queue = {} /\ ever = {}
  /\ todo = [o \in Sweepers |-> {}] /\ at = [o \in Sweepers |-> {}]
  /\ clock = [o \in Sweepers |-> 0]
  /\ request = [e \in Editors |-> {}]
  /\ faults = 0

-----------------------------------------------------------------------------
\* Counted and inserted under the owner's advisory lock.
Create(r) ==
  /\ routine[r].st = "unborn"
  /\ Cardinality(Enabled(routine)) < MaxEnabled
  /\ \E c \in Cadences :
       routine' = [routine EXCEPT ![r] = Row("on", NextRun(c, now), c)]
  /\ UNCHANGED <<now, queue, ever, sweeps, request, faults>>

Remove(r) ==
  /\ Standing(r)
  /\ routine' = [routine EXCEPT ![r] = Row("gone", 0, Unreadable)]
  /\ UNCHANGED <<now, queue, ever, sweeps, request, faults>>

(* update, up to the lock: the row is read, and from what was read the     *)
(* values, the new stamp and whether this is an enabling are decided. One  *)
(* that cannot be scheduled is refused.                                    *)
Values(r, patch) ==
  LET row == routine[r]
      enabling == patch = "on" /\ row.st # "on"
      Value(c, stamp) == [routine |-> r, enabling |-> enabling, cron |-> c, stamp |-> stamp,
                          st |-> IF patch = "cron" THEN "kept" ELSE patch]
  IN CASE patch = "cron" -> { Value(c, NextRun(c, now)) : c \in Cadences }
       [] enabling       -> IF row.cron = Unreadable THEN {}
                            ELSE { Value(Kept, NextRun(row.cron, now)) }
       [] OTHER          -> { Value(Kept, Kept) }

Read(e) ==
  /\ request[e] = {}
  /\ \E r \in Routine, patch \in Patches :
       /\ Standing(r)
       /\ \E v \in Values(r, patch) : request' = [request EXCEPT ![e] = {v}]
  /\ UNCHANGED <<now, routine, queue, ever, sweeps, faults>>

Updated(row, v) ==
  Row(IF v.st = "kept" THEN row.st ELSE v.st,
      IF v.stamp = Kept THEN row.stamp ELSE v.stamp,
      IF v.cron = Kept THEN row.cron ELSE v.cron)

(* The lock, the count when this is an enabling, and the write. *)
Write(e) ==
  /\ \E v \in request[e] :
       LET refused == v.enabling /\ Cardinality(Enabled(routine)) >= MaxEnabled
       IN routine' = IF refused \/ ~Standing(v.routine) THEN routine
                     ELSE [routine EXCEPT ![v.routine] = Updated(@, v)]
  /\ request' = [request EXCEPT ![e] = {}]
  /\ UNCHANGED <<now, queue, ever, sweeps, faults>>

-----------------------------------------------------------------------------
Due(r) == routine[r].st = "on" /\ routine[r].stamp <= now

Begin(o) ==
  /\ todo[o] = {} /\ at[o] = {}
  /\ \E r \in Routine : Due(r)
  /\ todo' = [todo EXCEPT ![o] =
                { [routine |-> r, due |-> routine[r].stamp] : r \in { s \in Routine : Due(s) } }]
  /\ clock' = [clock EXCEPT ![o] = now]
  /\ UNCHANGED <<now, routine, queue, ever, at, request, faults>>

\* Mutant: a firing exactly as late as the grace allows is skipped.
WorthLess(o, i) == clock[o] - i.due < Grace

\* Late by no more than the grace, on the clock the pass began with.
Worth(o, i) == clock[o] - i.due <= Grace

Inserted(q, i) ==
  IF \E w \in q : Key(w) = Key(i) THEN q
  ELSE q \union {[routine |-> i.routine, due |-> i.due, at |-> now]}

On(i, step, next) == [item |-> i, step |-> step, next |-> next]

(* Offered before the clock moves; one too late is not offered, and its    *)
(* next occurrence is measured from the pass's now instead of its stamp.   *)
Offer(o) ==
  /\ at[o] = {}
  /\ \E i \in todo[o] :
       /\ todo' = [todo EXCEPT ![o] = @ \ {i}]
       /\ IF Worth(o, i)
          THEN /\ queue' = Inserted(queue, i) /\ ever' = ever \union {Key(i)}
               /\ at' = [at EXCEPT ![o] = {On(i, "read", i.due)}]
          ELSE /\ at' = [at EXCEPT ![o] = {On(i, "read", clock[o])}]
               /\ UNCHANGED <<queue, ever>>
  /\ UNCHANGED <<now, routine, clock, request, faults>>

\* Mutant: a cron that cannot be read is one more error to get over.
PastReadCarryOn(o, d) ==
  IF Standing(d.item.routine) /\ routine[d.item.routine].cron # Unreadable
  THEN {On(d.item, "move", NextRun(routine[d.item.routine].cron, d.next))} ELSE {}

(* What advanceNextRun finds: no row, a cron it refuses, or where to land. *)
PastRead(o, d) ==
  LET row == routine[d.item.routine] IN
  CASE ~Standing(d.item.routine) -> {}
    [] Standing(d.item.routine) /\ row.cron = Unreadable -> {On(d.item, "mark", d.next)}
    [] OTHER -> {On(d.item, "move", NextRun(row.cron, d.next))}

Reread(o) ==
  /\ \E d \in at[o] : d.step = "read" /\ at' = [at EXCEPT ![o] = PastRead(o, d)]
  /\ UNCHANGED <<now, routine, queue, ever, todo, clock, request, faults>>

\* Mutant: the stamp is moved without comparing it first.
MovedBlind(row, d) == IF row.st \in {"on", "off"} THEN Row(row.st, d.next, row.cron) ELSE row

(* The compare-and-set: only the stamp this sweep read moves. *)
Moved(row, d) ==
  IF row.st \in {"on", "off"} /\ row.stamp = d.item.due THEN Row(row.st, d.next, row.cron) ELSE row

Move(o) ==
  /\ \E d \in at[o] :
       /\ d.step = "move"
       /\ routine' = [routine EXCEPT ![d.item.routine] = Moved(@, d)]
  /\ at' = [at EXCEPT ![o] = {}]
  /\ UNCHANGED <<now, queue, ever, todo, clock, request, faults>>

(* markUnschedulable: switched off, whatever the row says by now. *)
Mark(o) ==
  /\ \E d \in at[o] :
       /\ d.step = "mark"
       /\ routine' = [routine EXCEPT ![d.item.routine] =
                        IF Standing(d.item.routine) THEN Row("off", @.stamp, @.cron) ELSE @]
  /\ at' = [at EXCEPT ![o] = {}]
  /\ UNCHANGED <<now, queue, ever, todo, clock, request, faults>>

(* A call that throws ends one routine's turn in the pass, or the pass.    *)
Stumble(o) ==
  /\ faults < MaxFaults /\ faults' = faults + 1
  /\ \/ at[o] # {} /\ at' = [at EXCEPT ![o] = {}] /\ UNCHANGED todo
     \/ \E i \in todo[o] : todo' = [todo EXCEPT ![o] = @ \ {i}] /\ UNCHANGED at
     \/ /\ todo[o] # {}
        /\ at' = [at EXCEPT ![o] = {}] /\ todo' = [todo EXCEPT ![o] = {}]
  /\ UNCHANGED <<now, routine, queue, ever, clock, request>>

-----------------------------------------------------------------------------
\* Mutant: purged as soon as it is done.
OldNow(w) == now > w.at

\* Offered longer ago than the purge's window, so perhaps finished that long.
Old(w) == now - w.at > Keep

(* The worker's purge drops what was finished longer ago than its window;  *)
(* when an item was finished, after it was offered, is left open.          *)
Purge ==
  /\ \E gone \in SUBSET { w \in queue : Old(w) } : gone # {} /\ queue' = queue \ gone
  /\ UNCHANGED <<now, routine, ever, sweeps, request, faults>>

Passing(o) == todo[o] # {} \/ at[o] # {}

Tick ==
  /\ now < MaxTime /\ now' = now + 1
  /\ \A o \in Sweepers : Passing(o) => now - clock[o] < MaxPass
  /\ UNCHANGED <<routine, queue, ever, sweeps, request, faults>>

Step(o) == Begin(o) \/ Offer(o) \/ Reread(o) \/ Move(o) \/ Mark(o)

Next ==
  \/ \E r \in Routine : Create(r) \/ Remove(r)
  \/ \E e \in Editors : Read(e) \/ Write(e)
  \/ \E o \in Sweepers : Step(o) \/ Stumble(o)
  \/ Purge
  \/ Tick

Spec == Init /\ [][Next]_vars

(* A pass goes on to its end and another follows it. Nobody has to create, *)
(* edit or remove anything, and the clock need not move for a pass to end. *)
Fairness == \A o \in Sweepers : WF_vars(Step(o))

FairSpec == Spec /\ Fairness

-----------------------------------------------------------------------------
Item == [routine : Routine, due : Nat]

RowType == [st : {"unborn", "on", "off", "gone"}, stamp : Nat, cron : Cadences \union {Unreadable}]

Update == [routine : Routine, enabling : BOOLEAN, st : {"on", "off", "kept"},
           cron : Cadences \union {Kept}, stamp : Nat \union {Kept}]

Doing == [item : Item, step : {"read", "move", "mark"}, next : Nat]

TypeOK ==
  /\ now \in 0..MaxTime
  /\ routine \in [Routine -> RowType]
  /\ queue \subseteq [routine : Routine, due : Nat, at : Nat]
  /\ \A v, w \in queue : Key(v) = Key(w) => v = w
  /\ ever \subseteq Item
  /\ todo \in [Sweepers -> SUBSET Item]
  /\ clock \in [Sweepers -> Nat]
  /\ at \in [Sweepers -> SUBSET Doing]
  /\ request \in [Editors -> SUBSET Update]
  /\ faults \in 0..MaxFaults

(* What the proofs need beyond the types, and TLC checks with them: a pass *)
(* is no longer than its bound and saw every due row as due; a sweep on a  *)
(* row has put its occurrence on the queue or found it too late; and an    *)
(* occurrence leaves the queue only when no pass can offer it any more.    *)
PassIsShort ==
  \A o \in Sweepers : /\ clock[o] <= now
                      /\ Passing(o) => now - clock[o] <= MaxPass
                      /\ \A i \in todo[o] : i.due <= clock[o]

HandledBeforeMoved ==
  \A o \in Sweepers : \A d \in at[o] :
    /\ d.item.due <= now /\ d.item.due <= d.next
    /\ d.item \in ever \/ now - d.item.due > Grace

RememberedLongEnough ==
  /\ \A w \in queue : w.due <= w.at
  /\ \A k \in ever : (\E w \in queue : Key(w) = k) \/ now - k.due > Keep

IInv == TypeOK /\ PassIsShort /\ HandledBeforeMoved /\ RememberedLongEnough

(* No firing is lost: a sweep moves a routine's clock past an occurrence   *)
(* only when that occurrence has been put on the queue, or is already      *)
(* later than the grace, whichever sweeps died or raced on the way.        *)
Passed(r) ==
  (request' = request /\ Standing(r) /\ Standing(r)' /\ routine'[r].stamp # routine[r].stamp) =>
    \/ [routine |-> r, due |-> routine[r].stamp] \in ever
    \/ now - routine[r].stamp > Grace

FiringIsNotLost == [][\A r \in Routine : Passed(r)]_vars

(* One work item per routine and minute, for ever: no sweep, however long  *)
(* ago it read the row, puts an occurrence on the queue a second time.     *)
OncePerMinute ==
  [][\A w \in queue' \ queue : Key(w) \notin ever]_vars

(* A sweep never turns a clock back, nor over what a person just chose: a  *)
(* stamp moves in a sweep's step only forward, and only from a due one.    *)
ClockGoesForward ==
  [][\A r \in Routine :
       (request' = request /\ Standing(r) /\ Standing(r)') =>
         /\ routine'[r].stamp >= routine[r].stamp
         /\ routine'[r].stamp # routine[r].stamp => routine[r].stamp <= now]_vars

(* No routine stays overdue: however many passes stumbled over it, its     *)
(* clock is moved past the present, or it is switched off or removed; one  *)
(* whose cron cannot be read does not hold a place in every pass for ever. *)
ClockCatchesUp ==
  \A r \in Routine :
    LET overdue == routine[r].st = "on" /\ routine[r].stamp <= now
    IN overdue ~> ~overdue

(* A person has at most so many routines switched on at once, however      *)
(* their requests interleave (docs/routines.md says so of the cap).        *)
EnabledIsCapped == Cardinality(Enabled(routine)) <= MaxEnabled
=============================================================================
