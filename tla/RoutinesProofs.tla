---------------------------- MODULE RoutinesProofs ----------------------------
(***************************************************************************)
(* What holds of standing routines for every number of routines, sweeps    *)
(* and requests, every cron and every choice of the windows: no firing is  *)
(* lost, none is queued twice, and no sweep turns a clock back.            *)
(***************************************************************************)
EXTENDS Routines, TLAPS

USE RoutinesAssumption DEF Kept

-----------------------------------------------------------------------------
(* nextRunFor answers strictly after the moment it is asked about. *)
LEMMA NextRunIsLater ==
  ASSUME NEW c \in Cadences, NEW t \in Nat
  PROVE  NextRun(c, t) \in Nat /\ NextRun(c, t) > t
<1>1. c \in Nat /\ c # 0
  OBVIOUS
<1>2. QED
  BY <1>1, SMT DEF NextRun

LEMMA UnreadableIsNoCadence == Unreadable \notin Cadences
  OBVIOUS

LEMMA RowIsTyped ==
  ASSUME NEW s \in {"unborn", "on", "off", "gone"}, NEW n \in Nat,
         NEW c \in Cadences \union {Unreadable}
  PROVE  Row(s, n, c) \in RowType
  BY DEF Row, RowType

LEMMA ReadableCron ==
  ASSUME NEW row \in RowType, row.cron # Unreadable
  PROVE  row.cron \in Cadences
  BY DEF RowType

LEMMA KeyOfItem ==
  ASSUME NEW i \in Item
  PROVE  Key(i) = i
  BY DEF Item, Key

(* What update decides from the row it read, and what it then writes. *)
LEMMA ValuesAreTyped ==
  ASSUME routine \in [Routine -> RowType], now \in Nat,
         NEW r \in Routine, NEW patch \in Patches, NEW v \in Values(r, patch)
  PROVE  v \in Update
<1> DEFINE row == routine[r]
           enabling == patch = "on" /\ row.st # "on"
           Value(c, stamp) == [routine |-> r, enabling |-> enabling, cron |-> c, stamp |-> stamp,
                               st |-> IF patch = "cron" THEN "kept" ELSE patch]
<1>1. row \in RowType /\ enabling \in BOOLEAN /\ patch \in {"on", "off", "cron"}
  OBVIOUS
<1>2. ASSUME NEW c \in Cadences \union {Kept}, NEW stamp \in Nat \union {Kept}
      PROVE  Value(c, stamp) \in Update
  BY <1>1 DEF Update
<1>3. CASE patch = "cron"
  <2>1. PICK c \in Cadences : v = Value(c, NextRun(c, now))
    BY <1>3 DEF Values
  <2>2. NextRun(c, now) \in Nat
    BY NextRunIsLater
  <2>3. QED
    BY <1>2, <2>1, <2>2
<1>4. CASE patch # "cron" /\ enabling
  <2>1. row.cron # Unreadable /\ v = Value(Kept, NextRun(row.cron, now))
    BY <1>4 DEF Values
  <2>2. NextRun(row.cron, now) \in Nat
    BY <1>1, <2>1, ReadableCron, NextRunIsLater
  <2>3. QED
    BY <1>2, <2>1, <2>2
<1>5. CASE patch # "cron" /\ ~enabling
  <2>1. v = Value(Kept, Kept)
    BY <1>5 DEF Values
  <2>2. QED
    BY <1>2, <2>1
<1>6. QED
  BY <1>3, <1>4, <1>5

LEMMA UpdatedIsTyped ==
  ASSUME NEW row \in RowType, NEW v \in Update
  PROVE  Updated(row, v) \in RowType
<1>1. /\ row.st \in {"unborn", "on", "off", "gone"} /\ row.stamp \in Nat
      /\ row.cron \in Cadences \union {Unreadable}
  BY DEF RowType
<1>2. /\ v.st \in {"on", "off", "kept"} /\ v.stamp \in Nat \union {Kept}
      /\ v.cron \in Cadences \union {Kept}
  BY DEF Update
<1>3. QED
  BY <1>1, <1>2, RowIsTyped DEF Updated

LEMMA MovedIsTyped ==
  ASSUME NEW row \in RowType, NEW d \in Doing
  PROVE  Moved(row, d) \in RowType
<1>1. /\ row.st \in {"unborn", "on", "off", "gone"}
      /\ row.cron \in Cadences \union {Unreadable}
  BY DEF RowType
<1>2. d.next \in Nat
  BY DEF Doing
<1>3. QED
  BY <1>1, <1>2, RowIsTyped DEF Moved

(* What a sweep goes on to do with a row is the same item, and lands later. *)
LEMMA PastReadLater ==
  ASSUME routine \in [Routine -> RowType],
         NEW o \in Sweepers, NEW d \in Doing, NEW e \in PastRead(o, d)
  PROVE  e \in Doing /\ e.item = d.item /\ e.next >= d.next
<1>1. d.item \in Item /\ d.item.routine \in Routine /\ d.next \in Nat
  BY DEF Doing, Item
<1>2. routine[d.item.routine] \in RowType
  BY <1>1
<1>3. \/ e = On(d.item, "mark", d.next)
      \/ /\ routine[d.item.routine].cron # Unreadable
         /\ e = On(d.item, "move", NextRun(routine[d.item.routine].cron, d.next))
  BY DEF PastRead
<1>4. CASE e = On(d.item, "mark", d.next)
  BY <1>1, <1>4 DEF On, Doing
<1>5. CASE /\ routine[d.item.routine].cron # Unreadable
           /\ e = On(d.item, "move", NextRun(routine[d.item.routine].cron, d.next))
  <2>1. routine[d.item.routine].cron \in Cadences
    BY <1>2, <1>5, ReadableCron
  <2>2. /\ NextRun(routine[d.item.routine].cron, d.next) \in Nat
        /\ NextRun(routine[d.item.routine].cron, d.next) > d.next
    BY <1>1, <2>1, NextRunIsLater
  <2>3. QED
    BY <1>1, <1>5, <2>2 DEF On, Doing
<1>6. QED
  BY <1>3, <1>4, <1>5
-----------------------------------------------------------------------------
LEMMA InitHolds == Init => IInv
<1> SUFFICES ASSUME Init PROVE IInv
  OBVIOUS
<1>1. TypeOK
  <2>0. Row("on", 0, Unreadable) \in RowType /\ Unborn \in RowType
    BY RowIsTyped DEF Unborn
  <2>1. routine \in [Routine -> RowType]
    BY <2>0 DEF Init
  <2>2. QED
    BY <2>1 DEF Init, TypeOK
<1>2. PassIsShort /\ HandledBeforeMoved /\ RememberedLongEnough
  BY DEF Init, PassIsShort, HandledBeforeMoved, RememberedLongEnough, Passing
<1>3. QED
  BY <1>1, <1>2 DEF IInv

(* The queue never holds an occurrence twice: an insert looks first. *)
LEMMA InsertedIsTyped ==
  ASSUME TypeOK, NEW i \in Item
  PROVE  /\ Inserted(queue, i) \subseteq [routine : Routine, due : Nat, at : Nat]
         /\ \A v, w \in Inserted(queue, i) : Key(v) = Key(w) => v = w
         /\ \E w \in Inserted(queue, i) : Key(w) = Key(i)
<1> DEFINE new == [routine |-> i.routine, due |-> i.due, at |-> now]
<1>1. new \in [routine : Routine, due : Nat, at : Nat] /\ Key(new) = Key(i)
  BY DEF TypeOK, Item, Key
<1>2. CASE \E w \in queue : Key(w) = Key(i)
  BY <1>2 DEF Inserted, TypeOK
<1>3. CASE ~ \E w \in queue : Key(w) = Key(i)
  <2>1. Inserted(queue, i) = queue \union {new}
    BY <1>3 DEF Inserted
  <2>2. ASSUME NEW v \in queue \union {new}, NEW w \in queue \union {new}, Key(v) = Key(w)
        PROVE  v = w
    BY <1>1, <1>3, <2>2 DEF TypeOK
  <2>3. QED
    BY <1>1, <2>1, <2>2 DEF TypeOK
<1>4. QED
  BY <1>2, <1>3

LEMMA TypesAreKept == TypeOK /\ [Next]_vars => TypeOK'
<1> SUFFICES ASSUME TypeOK, [Next]_vars PROVE TypeOK'
  OBVIOUS
<1> USE DEF TypeOK
<1>1. CASE \E r \in Routine : Create(r)
  <2>1. PICK r \in Routine, c \in Cadences :
          routine' = [routine EXCEPT ![r] = Row("on", NextRun(c, now), c)]
    BY <1>1 DEF Create
  <2>2. Row("on", NextRun(c, now), c) \in RowType
    BY NextRunIsLater, RowIsTyped
  <2>3. routine' \in [Routine -> RowType]
    BY <2>1, <2>2
  <2>4. QED
    BY <1>1, <2>3 DEF Create, sweeps
<1>2. CASE \E r \in Routine : Remove(r)
  <2>1. Row("gone", 0, Unreadable) \in RowType
    BY RowIsTyped
  <2>2. QED
    BY <1>2, <2>1 DEF Remove, sweeps
<1>3. CASE \E e \in Editors : Read(e)
  <2>0. PICK e \in Editors, r \in Routine, patch \in Patches :
          \E v \in Values(r, patch) : request' = [request EXCEPT ![e] = {v}]
    BY <1>3 DEF Read
  <2>1. PICK v \in Values(r, patch) : request' = [request EXCEPT ![e] = {v}]
    BY <2>0
  <2>2. v \in Update
    BY ValuesAreTyped
  <2>3. request' \in [Editors -> SUBSET Update]
    BY <2>1, <2>2
  <2>4. QED
    BY <1>3, <2>3 DEF Read, sweeps
<1>4. CASE \E e \in Editors : Write(e)
  <2>1. PICK e \in Editors : Write(e)
    BY <1>4
  <2>2. PICK v \in request[e] :
          routine' = routine \/ routine' = [routine EXCEPT ![v.routine] = Updated(@, v)]
    BY <2>1 DEF Write
  <2>3. v \in Update /\ v.routine \in Routine
    BY <2>2 DEF Update
  <2>4. Updated(routine[v.routine], v) \in RowType
    BY <2>3, UpdatedIsTyped
  <2>5. routine' \in [Routine -> RowType] /\ request' \in [Editors -> SUBSET Update]
    BY <2>1, <2>2, <2>3, <2>4 DEF Write
  <2>6. QED
    BY <2>1, <2>5 DEF Write, sweeps
<1>5. CASE \E o \in Sweepers : Begin(o)
  <2>1. PICK o \in Sweepers : Begin(o)
    BY <1>5
  <2>2. { [routine |-> r, due |-> routine[r].stamp] : r \in { s \in Routine : Due(s) } }
          \subseteq Item
    BY DEF Item, RowType
  <2>3. todo' \in [Sweepers -> SUBSET Item] /\ clock' \in [Sweepers -> Nat]
    BY <2>1, <2>2 DEF Begin
  <2>4. QED
    BY <2>1, <2>3 DEF Begin
<1>6. CASE \E o \in Sweepers : Offer(o)
  <2>1. PICK o \in Sweepers : Offer(o)
    BY <1>6
  <2>2. PICK i \in todo[o] :
          /\ todo' = [todo EXCEPT ![o] = @ \ {i}]
          /\ \/ /\ queue' = Inserted(queue, i) /\ ever' = ever \union {Key(i)}
                /\ at' = [at EXCEPT ![o] = {On(i, "read", i.due)}]
             \/ /\ at' = [at EXCEPT ![o] = {On(i, "read", clock[o])}]
                /\ UNCHANGED <<queue, ever>>
    BY <2>1 DEF Offer
  <2>3. i \in Item /\ i.due \in Nat
    BY <2>2 DEF Item
  <2>4. On(i, "read", i.due) \in Doing /\ On(i, "read", clock[o]) \in Doing
    BY <2>3 DEF On, Doing
  <2>5. todo' \in [Sweepers -> SUBSET Item] /\ at' \in [Sweepers -> SUBSET Doing]
    BY <2>2, <2>4
  <2>6. ever' \subseteq Item
    BY <2>2, <2>3, KeyOfItem
  <2>7. /\ queue' \subseteq [routine : Routine, due : Nat, at : Nat]
        /\ \A v, w \in queue' : Key(v) = Key(w) => v = w
    BY <2>2, <2>3, InsertedIsTyped
  <2>8. UNCHANGED <<now, routine, clock, request, faults>>
    BY <2>1 DEF Offer
  <2>9. QED
    BY <2>5, <2>6, <2>7, <2>8
<1>7. CASE \E o \in Sweepers : Reread(o)
  <2>0. PICK o \in Sweepers : Reread(o)
    BY <1>7
  <2>1. PICK d \in at[o] : at' = [at EXCEPT ![o] = PastRead(o, d)]
    BY <2>0 DEF Reread
  <2>2. PastRead(o, d) \subseteq Doing
    BY PastReadLater
  <2>3. at' \in [Sweepers -> SUBSET Doing]
    BY <2>1, <2>2
  <2>4. QED
    BY <1>7, <2>3 DEF Reread
<1>8. CASE \E o \in Sweepers : Move(o)
  <2>1. PICK o \in Sweepers : Move(o)
    BY <1>8
  <2>2. PICK d \in at[o] : routine' = [routine EXCEPT ![d.item.routine] = Moved(@, d)]
    BY <2>1 DEF Move
  <2>3. d \in Doing /\ d.item.routine \in Routine
    BY <2>2 DEF Doing, Item
  <2>4. Moved(routine[d.item.routine], d) \in RowType
    BY <2>3, MovedIsTyped
  <2>5. routine' \in [Routine -> RowType] /\ at' \in [Sweepers -> SUBSET Doing]
    BY <2>1, <2>2, <2>3, <2>4 DEF Move
  <2>6. QED
    BY <2>1, <2>5 DEF Move
<1>9. CASE \E o \in Sweepers : Mark(o)
  <2>1. PICK o \in Sweepers : Mark(o)
    BY <1>9
  <2>2. PICK d \in at[o] :
          routine' = [routine EXCEPT ![d.item.routine] =
                        IF Standing(d.item.routine) THEN Row("off", @.stamp, @.cron) ELSE @]
    BY <2>1 DEF Mark
  <2>3. d.item.routine \in Routine
    BY <2>2 DEF Doing, Item
  <2>4. Row("off", routine[d.item.routine].stamp, routine[d.item.routine].cron) \in RowType
    BY <2>3, RowIsTyped DEF RowType
  <2>5. routine' \in [Routine -> RowType] /\ at' \in [Sweepers -> SUBSET Doing]
    BY <2>1, <2>2, <2>3, <2>4 DEF Mark
  <2>6. QED
    BY <2>1, <2>5 DEF Mark
<1>10. CASE \E o \in Sweepers : Stumble(o)
  <2>1. PICK o \in Sweepers : Stumble(o)
    BY <1>10
  <2>2. todo' \in [Sweepers -> SUBSET Item] /\ at' \in [Sweepers -> SUBSET Doing]
    BY <2>1 DEF Stumble
  <2>3. faults' \in 0..MaxFaults
    BY <2>1 DEF Stumble
  <2>4. QED
    BY <2>1, <2>2, <2>3 DEF Stumble
<1>11. CASE Purge
  BY <1>11 DEF Purge, sweeps
<1>12. CASE Tick
  BY <1>12 DEF Tick, sweeps
<1>13. CASE UNCHANGED vars
  BY <1>13 DEF vars
<1>14. QED
  BY <1>1, <1>2, <1>3, <1>4, <1>5, <1>6, <1>7, <1>8, <1>9, <1>10, <1>11, <1>12, <1>13
     DEF Next, Step
-----------------------------------------------------------------------------
(* A pass ends within its bound: the clock waits for it, and the moment it *)
(* measures from is the one it began at.                                   *)
LEMMA PassStaysShort == IInv /\ [Next]_vars => PassIsShort'
<1> SUFFICES ASSUME IInv, [Next]_vars PROVE PassIsShort'
  OBVIOUS
<1> USE DEF PassIsShort, Passing
<1>1. TypeOK /\ PassIsShort /\ now \in Nat /\ \A o \in Sweepers : clock[o] \in Nat
  BY DEF IInv, TypeOK
<1>2. CASE UNCHANGED <<now, todo, clock, at>>
  BY <1>1, <1>2
<1>3. CASE \E o \in Sweepers : Begin(o)
  <2>1. PICK o \in Sweepers : Begin(o)
    BY <1>3
  <2>2. /\ clock' = [clock EXCEPT ![o] = now] /\ UNCHANGED <<now, at>>
        /\ todo' = [todo EXCEPT ![o] =
                {[routine |-> r, due |-> routine[r].stamp] : r \in {s \in Routine : Due(s)}}]
    BY <2>1 DEF Begin
  <2>3. \A i \in todo'[o] : i.due <= now
    BY <1>1, <2>2 DEF Due, TypeOK
  <2>4. QED
    BY <1>1, <2>2, <2>3 DEF TypeOK
<1>4. CASE \E o \in Sweepers : Offer(o)
  <2>1. PICK o \in Sweepers : Offer(o)
    BY <1>4
  <2>2. PICK i \in todo[o] : todo' = [todo EXCEPT ![o] = @ \ {i}]
    BY <2>1 DEF Offer
  <2>3. UNCHANGED <<now, clock>> /\ \A p \in Sweepers : p # o => at'[p] = at[p]
    BY <1>1, <2>1 DEF Offer, TypeOK
  <2>4. QED
    BY <1>1, <2>2, <2>3 DEF TypeOK
<1>5. CASE \E o \in Sweepers : Reread(o) \/ Move(o) \/ Mark(o)
  <2>1. PICK o \in Sweepers : Reread(o) \/ Move(o) \/ Mark(o)
    BY <1>5
  <2>2. UNCHANGED <<now, clock, todo>> /\ at[o] # {}
        /\ \A p \in Sweepers : p # o => at'[p] = at[p]
    BY <1>1, <2>1 DEF Reread, Move, Mark, TypeOK
  <2>3. QED
    BY <1>1, <2>2
<1>6. CASE \E o \in Sweepers : Stumble(o)
  <2>1. PICK o \in Sweepers : Stumble(o)
    BY <1>6
  <2>2. UNCHANGED <<now, clock>> /\ Passing(o)
        /\ \A p \in Sweepers : todo'[p] \subseteq todo[p] /\ at'[p] \subseteq at[p]
    BY <1>1, <2>1 DEF Stumble, TypeOK
  <2>3. QED
    BY <1>1, <2>2
<1>7. CASE Tick
  <2>1. now' = now + 1 /\ UNCHANGED <<clock, todo, at>>
    BY <1>7 DEF Tick, sweeps
  <2>2. \A o \in Sweepers : Passing(o) => now - clock[o] < MaxPass
    BY <1>7 DEF Tick
  <2>3. QED
    BY <1>1, <2>1, <2>2
<1>8. QED
  BY <1>2, <1>3, <1>4, <1>5, <1>6, <1>7
     DEF Next, Step, vars, sweeps, Create, Remove, Read, Write, Purge

(* A sweep comes to the clock only after the queue has the occurrence, or  *)
(* the grace is over; both stay so.                                        *)
LEMMA HandledStaysSo == IInv /\ [Next]_vars => HandledBeforeMoved'
<1> SUFFICES ASSUME IInv, [Next]_vars PROVE HandledBeforeMoved'
  OBVIOUS
<1> DEFINE Handled(d, e, t) ==
             /\ d.item.due <= t /\ d.item.due <= d.next
             /\ d.item \in e \/ t - d.item.due > Grace
<1>1. TypeOK /\ PassIsShort /\ now \in Nat
  BY DEF IInv, TypeOK
<1>2. \A o \in Sweepers : \A d \in at[o] :
        /\ d \in Doing /\ d.item \in Item /\ d.item.due \in Nat /\ d.next \in Nat
        /\ Handled(d, ever, now)
  BY DEF IInv, TypeOK, HandledBeforeMoved, Doing, Item
<1>3. ever \subseteq ever' /\ now' \in Nat /\ now' >= now
  BY <1>1 DEF Next, Step, vars, sweeps, Create, Remove, Read, Write, Begin, Offer, Reread,
              Move, Mark, Stumble, Purge, Tick
<1>4. ASSUME NEW o \in Sweepers, NEW d \in at'[o], \E c \in at[o] : d.item = c.item /\ d.next >= c.next,
             d.next \in Nat
      PROVE  Handled(d, ever', now')
  <2>1. PICK c \in at[o] : d.item = c.item /\ d.next >= c.next
    BY <1>4
  <2>2. QED
    BY <1>1, <1>2, <1>3, <1>4, <2>1
<1>5. ASSUME NEW o \in Sweepers, at'[o] \subseteq at[o]
      PROVE  \A d \in at'[o] : Handled(d, ever', now')
  BY <1>2, <1>4, <1>5
<1>6. CASE \E p \in Sweepers : Offer(p)
  <2>1. PICK p \in Sweepers : Offer(p)
    BY <1>6
  <2>2. PICK i \in todo[p] :
          \/ /\ ever' = ever \union {Key(i)} /\ at' = [at EXCEPT ![p] = {On(i, "read", i.due)}]
          \/ /\ ~Worth(p, i) /\ at' = [at EXCEPT ![p] = {On(i, "read", clock[p])}]
    BY <2>1 DEF Offer
  <2>3. /\ i \in Item /\ i.due \in Nat /\ clock[p] \in Nat /\ clock[p] <= now /\ i.due <= clock[p]
        /\ now' = now
    BY <1>1, <2>1 DEF TypeOK, PassIsShort, Item, Offer
  <2>4. Key(i) = i
    BY <2>3, KeyOfItem
  <2>5. ASSUME NEW d \in at'[p] PROVE Handled(d, ever', now')
    <3>1. CASE ever' = ever \union {Key(i)} /\ at' = [at EXCEPT ![p] = {On(i, "read", i.due)}]
      <4>1. d = On(i, "read", i.due) /\ i \in ever'
        BY <1>1, <2>4, <3>1 DEF TypeOK
      <4>2. QED
        BY <1>1, <2>3, <4>1 DEF On
    <3>2. CASE ~Worth(p, i) /\ at' = [at EXCEPT ![p] = {On(i, "read", clock[p])}]
      <4>1. d = On(i, "read", clock[p]) /\ clock[p] - i.due > Grace
        BY <1>1, <2>3, <3>2 DEF TypeOK, Worth
      <4>2. QED
        BY <1>1, <2>3, <4>1 DEF On
    <3>3. QED
      BY <2>2, <3>1, <3>2
  <2>6. \A o \in Sweepers : o # p => at'[o] = at[o]
    BY <1>1, <2>2 DEF TypeOK
  <2>7. QED
    BY <1>5, <2>5, <2>6 DEF HandledBeforeMoved
<1>7. CASE \E p \in Sweepers : Reread(p)
  <2>1. PICK p \in Sweepers : Reread(p)
    BY <1>7
  <2>2. PICK c \in at[p] : at' = [at EXCEPT ![p] = PastRead(p, c)]
    BY <2>1 DEF Reread
  <2>3. ASSUME NEW d \in at'[p] PROVE Handled(d, ever', now')
    <3>1. d \in PastRead(p, c) /\ c \in Doing
      BY <1>1, <1>2, <2>2 DEF TypeOK
    <3>2. d \in Doing /\ d.item = c.item /\ d.next >= c.next
      BY <1>1, <3>1, PastReadLater DEF TypeOK
    <3>3. d.next \in Nat
      BY <3>2 DEF Doing
    <3>4. QED
      BY <1>4, <3>2, <3>3
  <2>4. \A o \in Sweepers : o # p => at'[o] = at[o]
    BY <1>1, <2>2 DEF TypeOK
  <2>5. QED
    BY <1>5, <2>3, <2>4 DEF HandledBeforeMoved
<1>8. CASE \A o \in Sweepers : at'[o] \subseteq at[o]
  BY <1>5, <1>8 DEF HandledBeforeMoved
<1>9. ASSUME NEW p \in Sweepers, Move(p) \/ Mark(p) \/ Stumble(p)
      PROVE  \A o \in Sweepers : at'[o] \subseteq at[o]
  BY <1>1, <1>9 DEF Move, Mark, Stumble, TypeOK
<1>10. QED
  BY <1>6, <1>7, <1>8, <1>9
     DEF Next, Step, vars, sweeps, Create, Remove, Read, Write, Begin, Purge, Tick

(* An occurrence is off the queue only when no pass can offer it any more: *)
(* it was put there no earlier than it was due.                            *)
LEMMA RememberedStaysSo == IInv /\ [Next]_vars => RememberedLongEnough'
<1> SUFFICES ASSUME IInv, [Next]_vars PROVE RememberedLongEnough'
  OBVIOUS
<1> USE DEF RememberedLongEnough
<1>1. /\ TypeOK /\ RememberedLongEnough /\ now \in Nat
      /\ \A w \in queue : w.due \in Nat /\ w.at \in Nat
      /\ \A k \in ever : k.due \in Nat
  BY DEF IInv, TypeOK, Item
<1>2. CASE \E o \in Sweepers : Offer(o)
  <2>1. PICK o \in Sweepers : Offer(o)
    BY <1>2
  <2>2. PICK i \in todo[o] :
          \/ queue' = Inserted(queue, i) /\ ever' = ever \union {Key(i)}
          \/ UNCHANGED <<queue, ever>>
    BY <2>1 DEF Offer
  <2>3. i \in Item /\ i.due \in Nat /\ i.due <= now /\ now' = now
    BY <1>1, <2>1 DEF IInv, TypeOK, PassIsShort, Item, Offer
  <2>4. CASE queue' = Inserted(queue, i) /\ ever' = ever \union {Key(i)}
    <3>1. queue \subseteq queue'
      BY <2>4 DEF Inserted
    <3>2. \E w \in queue' : Key(w) = Key(i)
      BY <1>1, <2>3, <2>4, InsertedIsTyped
    <3>3. \A w \in queue' : w.due <= w.at
      BY <1>1, <2>3, <2>4 DEF Inserted
    <3>4. QED
      BY <1>1, <2>3, <2>4, <3>1, <3>2, <3>3
  <2>5. CASE UNCHANGED <<queue, ever>>
    BY <1>1, <2>3, <2>5
  <2>6. QED
    BY <2>2, <2>4, <2>5
<1>3. CASE Purge
  <2>1. PICK gone \in SUBSET { w \in queue : Old(w) } : queue' = queue \ gone
    BY <1>3 DEF Purge
  <2>2. UNCHANGED <<now, ever>>
    BY <1>3 DEF Purge
  <2>3. ASSUME NEW k \in ever
        PROVE  (\E w \in queue' : Key(w) = k) \/ now - k.due > Keep
    <3>1. CASE now - k.due > Keep
      BY <3>1
    <3>2. CASE \E w \in queue : Key(w) = k
      <4>1. PICK w \in queue : Key(w) = k
        BY <3>2
      <4>2. CASE w \in gone
        <5>1. now - w.at > Keep /\ w.due <= w.at /\ w.due = k.due
          BY <1>1, <2>1, <4>1, <4>2 DEF Old, Key
        <5>2. QED
          BY <1>1, <5>1
      <4>3. CASE w \notin gone
        BY <2>1, <4>1, <4>3
      <4>4. QED
        BY <4>2, <4>3
    <3>3. QED
      BY <1>1, <3>1, <3>2
  <2>4. QED
    BY <1>1, <2>1, <2>2, <2>3
<1>4. CASE UNCHANGED <<queue, ever>> /\ now' = now + 1
  BY <1>1, <1>4
<1>5. CASE UNCHANGED <<now, queue, ever>>
  BY <1>1, <1>5
<1>6. QED
  BY <1>2, <1>3, <1>4, <1>5
     DEF Next, Step, vars, sweeps, Create, Remove, Read, Write, Begin, Reread, Move, Mark,
         Stumble, Tick

(* The inductive invariant holds of every behaviour. *)
THEOREM RoutinesInvariant == Spec => []IInv
<1>1. IInv /\ [Next]_vars => IInv'
  BY TypesAreKept, PassStaysShort, HandledStaysSo, RememberedStaysSo DEF IInv
<1>2. QED
  BY InitHolds, <1>1, PTL DEF Spec
(* Every variable keeps its type, and the queue one item per occurrence. *)
THEOREM TypesHold == Spec => []TypeOK
<1>1. IInv => TypeOK
  BY DEF IInv
<1>2. QED
  BY <1>1, RoutinesInvariant, PTL

-----------------------------------------------------------------------------
(* Of the steps no request takes part in, only one that creates a routine  *)
(* or removes it, and a sweep that moves its clock, touch the stamp of a   *)
(* routine that stands before and after.                                   *)
LEMMA OnlyMovesTouchStamps ==
  ASSUME IInv, [Next]_vars, NEW r \in Routine,
         request' = request, Standing(r), Standing(r)', routine'[r].stamp # routine[r].stamp
  PROVE  \E o \in Sweepers : \E d \in at[o] :
           /\ d \in Doing /\ d.item.routine = r /\ d.item.due = routine[r].stamp
           /\ routine'[r].stamp = d.next /\ now' = now
<1>1. routine \in [Routine -> RowType] /\ TypeOK
  BY DEF IInv, TypeOK
<1>2. routine' # routine
  OBVIOUS
<1>3. CASE \E q \in Routine : Create(q)
  <2>1. PICK q \in Routine : routine[q].st = "unborn" /\ \A p \in Routine : p # q => routine'[p] = routine[p]
    BY <1>1, <1>3 DEF Create
  <2>2. QED
    BY <2>1 DEF Standing
<1>4. CASE \E q \in Routine : Remove(q)
  <2>1. PICK q \in Routine : routine' = [routine EXCEPT ![q] = Row("gone", 0, Unreadable)]
    BY <1>4 DEF Remove
  <2>2. QED
    BY <1>1, <2>1 DEF Standing, Row
<1>5. CASE \E e \in Editors : Write(e)
  <2>1. PICK e \in Editors : request[e] # {} /\ request' = [request EXCEPT ![e] = {}]
    BY <1>5 DEF Write
  <2>2. request'[e] = {}
    BY <1>1, <2>1 DEF TypeOK
  <2>3. QED
    BY <2>1, <2>2
<1>6. CASE \E o \in Sweepers : Move(o)
  <2>1. PICK o \in Sweepers : Move(o)
    BY <1>6
  <2>2. PICK d \in at[o] : routine' = [routine EXCEPT ![d.item.routine] = Moved(@, d)]
    BY <2>1 DEF Move
  <2>3. d \in Doing
    BY <1>1 DEF TypeOK
  <2>4. d.item.routine = r /\ routine'[r] = Moved(routine[r], d)
    BY <1>1, <2>2
  <2>5. d.item.due = routine[r].stamp /\ routine'[r].stamp = d.next
    BY <2>4 DEF Moved, Row
  <2>6. QED
    BY <2>1, <2>3, <2>4, <2>5 DEF Move
<1>7. CASE \E o \in Sweepers : Mark(o)
  <2>1. PICK o \in Sweepers : Mark(o)
    BY <1>7
  <2>2. PICK d \in at[o] :
          routine' = [routine EXCEPT ![d.item.routine] =
                        IF Standing(d.item.routine) THEN Row("off", @.stamp, @.cron) ELSE @]
    BY <2>1 DEF Mark
  <2>3. QED
    BY <1>1, <2>2 DEF Row
<1>8. QED
  BY <1>2, <1>3, <1>4, <1>5, <1>6, <1>7
     DEF Next, Step, vars, sweeps, Read, Begin, Offer, Reread, Stumble, Purge, Tick

(* A clock moves past an occurrence only when that occurrence was put on   *)
(* the queue or is past the grace: the invariant says so of every sweep    *)
(* that has come as far as moving a clock.                                 *)
THEOREM NoFiringIsLost == Spec => FiringIsNotLost
<1>1. ASSUME IInv, [Next]_vars, NEW r \in Routine PROVE Passed(r)
  <2> SUFFICES ASSUME request' = request, Standing(r), Standing(r)',
                      routine'[r].stamp # routine[r].stamp
               PROVE  \/ [routine |-> r, due |-> routine[r].stamp] \in ever
                      \/ now - routine[r].stamp > Grace
    BY DEF Passed
  <2>1. PICK o \in Sweepers, d \in Doing :
          d \in at[o] /\ d.item.routine = r /\ d.item.due = routine[r].stamp
    BY <1>1, OnlyMovesTouchStamps
  <2>2. d.item = [routine |-> r, due |-> routine[r].stamp]
    BY <2>1 DEF Doing, Item
  <2>3. d.item \in ever \/ now - d.item.due > Grace
    BY <1>1, <2>1 DEF IInv, HandledBeforeMoved
  <2>4. QED
    BY <2>1, <2>2, <2>3
<1>2. IInv /\ [Next]_vars => [\A r \in Routine : Passed(r)]_vars
  BY <1>1
<1>3. QED
  BY <1>2, RoutinesInvariant, PTL DEF Spec, FiringIsNotLost

(* A stamp moves, in a sweep's step, forward and from one that was due: a  *)
(* person's reschedule is never overwritten by a pass that began before.   *)
THEOREM NoClockGoesBack == Spec => ClockGoesForward
<1> DEFINE Forward(r) ==
             (request' = request /\ Standing(r) /\ Standing(r)') =>
               /\ routine'[r].stamp >= routine[r].stamp
               /\ routine'[r].stamp # routine[r].stamp => routine[r].stamp <= now
<1>1. ASSUME IInv, [Next]_vars, NEW r \in Routine PROVE Forward(r)
  <2> SUFFICES ASSUME request' = request, Standing(r), Standing(r)'
               PROVE  /\ routine'[r].stamp >= routine[r].stamp
                      /\ routine'[r].stamp # routine[r].stamp => routine[r].stamp <= now
    OBVIOUS
  <2>1. routine[r].stamp \in Nat /\ routine'[r].stamp \in Nat
    <3>1. TypeOK /\ TypeOK'
      BY <1>1, TypesAreKept DEF IInv
    <3>2. QED
      BY <3>1 DEF TypeOK, RowType
  <2>2. CASE routine'[r].stamp # routine[r].stamp
    <3>1. PICK o \in Sweepers, d \in Doing :
            /\ d \in at[o] /\ d.item.due = routine[r].stamp
            /\ routine'[r].stamp = d.next
      BY <1>1, <2>2, OnlyMovesTouchStamps
    <3>2. d.item.due <= now /\ d.item.due <= d.next
      BY <1>1, <3>1 DEF IInv, HandledBeforeMoved
    <3>3. QED
      BY <2>1, <3>1, <3>2
  <2>3. CASE routine'[r].stamp = routine[r].stamp
    BY <2>1, <2>3
  <2>4. QED
    BY <2>2, <2>3
<1>2. IInv /\ [Next]_vars => [\A r \in Routine : Forward(r)]_vars
  BY <1>1
<1>3. QED
  BY <1>2, RoutinesInvariant, PTL DEF Spec, ClockGoesForward

(* An occurrence is put on the queue once. A pass offers only what is      *)
(* within the grace at its beginning and ends within its bound, so while   *)
(* it could offer an occurrence again the purge cannot have taken the      *)
(* first item away: this is where Grace + MaxPass <= Keep is needed.       *)
THEOREM OnceForEver == Spec => OncePerMinute
<1> DEFINE Once == \A w \in queue' \ queue : Key(w) \notin ever
<1>1. ASSUME IInv, [Next]_vars PROVE Once
  <2> SUFFICES ASSUME NEW w \in queue' \ queue, Key(w) \in ever PROVE FALSE
    OBVIOUS
  <2>1. /\ TypeOK /\ PassIsShort /\ RememberedLongEnough /\ now \in Nat
    BY <1>1 DEF IInv, TypeOK
  <2>2. PICK o \in Sweepers : Offer(o)
    BY <1>1 DEF Next, Step, vars, sweeps, Create, Remove, Read, Write, Begin, Reread, Move,
                Mark, Stumble, Purge, Tick
  <2>3. PICK i \in todo[o] : Worth(o, i) /\ queue' = Inserted(queue, i)
    BY <2>2 DEF Offer
  <2>4. i \in Item /\ i.due \in Nat /\ clock[o] \in Nat
    BY <2>1 DEF TypeOK, Item
  <2>5. Key(w) = Key(i) /\ ~ \E v \in queue : Key(v) = Key(i)
    BY <2>3 DEF Inserted, Key
  <2>6. now - i.due > Keep
    <3>1. Key(i).due = i.due
      BY DEF Key
    <3>2. QED
      BY <2>1, <2>5, <3>1 DEF RememberedLongEnough
  <2>7. now - clock[o] <= MaxPass /\ clock[o] - i.due <= Grace
    BY <2>1, <2>3 DEF PassIsShort, Passing, Worth
  <2>8. QED
    BY <2>1, <2>4, <2>6, <2>7
<1>2. IInv /\ [Next]_vars => [Once]_vars
  BY <1>1
<1>3. QED
  BY <1>2, RoutinesInvariant, PTL DEF Spec, OncePerMinute
=============================================================================
