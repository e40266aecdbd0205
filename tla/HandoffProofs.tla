---------------------------- MODULE HandoffProofs ----------------------------
(***************************************************************************)
(* What holds of a handoff for every number of replicas, asks and attempts *)
(* and whatever fails, stalls or dies: the types, one report and one relay *)
(* per ask, turns bounded by the attempts and on record, and a notice that *)
(* is the last word; and, where only turns and replicas fail, a true one.  *)
(***************************************************************************)
EXTENDS Handoff, FiniteSetTheorems, TLAPS

USE NobodyAssumption, AttemptsAssumption, LeaseAssumption, WindowAssumption,
    HandoffAssumption

-----------------------------------------------------------------------------
(* The statements of server/src/work/queue.ts take tables to tables.       *)
LEMMA RowFields ==
  ASSUME NEW r \in Row
  PROVE  /\ r.st \in {"absent", "open", "done"} /\ r.wait \in Int
         /\ r.owner \in Owners \union {Nobody} /\ r.lease \in 0..Lease
         /\ r.attempts \in 0..MaxAttempts /\ r.age \in Nat
  BY DEF Row

LEMMA NoRowIsARow == NoRow \in Row
  BY DEF NoRow, Row

LEMMA OfferedTable ==
  ASSUME NEW t \in Table, NEW k \in Keys
  PROVE  Offered(t, k, 0) \in Table
  BY DEF Offered, Open, Table, Row

LEMMA ClaimedTable ==
  ASSUME NEW t \in Table, NEW S \in SUBSET Due(t), NEW o \in Owners
  PROVE  Claimed(t, S, o) \in Table
  BY DEF Claimed, Due, Open, Table, Row

LEMMA OwnRowTable ==
  ASSUME NEW t \in Table, NEW k \in Keys, NEW o \in Owners
  PROVE  Renewed(t, k, o) \in Table /\ Finished(t, k, o) \in Table /\ Released(t, k, o) \in Table
  BY DEF Renewed, Finished, Released, Open, Table, Row

LEMMA AgedTable ==
  ASSUME NEW t \in Table
  PROVE  Elapsed(t) \in Table /\ Purged(t) \in Table
  BY DEF Elapsed, Older, Purged, NoRow, Horizon, Table, Row

LEMMA BatchesAreDue ==
  ASSUME NEW t, NEW n, NEW S \in Batches(t, n)
  PROVE  S \in SUBSET Due(t)
  BY DEF Batches

-----------------------------------------------------------------------------
(* The types.                                                              *)

LEMMA KeysOfAsks ==
  ASSUME NEW a \in Asks
  PROVE  /\ Hop(a) \in Keys /\ Relay(a) \in Keys /\ Notice(a) \in Keys
         /\ Hop(a) # Relay(a) /\ Hop(a) # Notice(a) /\ Relay(a) # Notice(a)
         /\ Hop(a).ask = a /\ Relay(a).ask = a /\ Notice(a).ask = a
         /\ Forward(Hop(a)) /\ ~Forward(Relay(a)) /\ ~Forward(Notice(a))
  BY DEF Hop, Relay, Notice, Legs, Forward

LEMMA AsksOfKeys ==
  ASSUME NEW k \in Keys
  PROVE  k.ask \in Asks /\ (Forward(k) => k = Hop(k.ask))
  BY DEF Hop, Legs, Forward

LEMMA Items ==
  ASSUME NEW i \in Item
  PROVE  /\ i.key \in Keys /\ i.attempts \in 1..MaxAttempts
         /\ i = [key |-> i.key, attempts |-> i.attempts]
  BY DEF Item

Work == [item : Item, at : Stage]

LEMMA Works ==
  ASSUME NEW d \in Work
  PROVE  d.item \in Item /\ d.at \in Stage /\ d = At(d.item, d.at)
  BY DEF Work, At

LEMMA AtIsWork ==
  ASSUME NEW i \in Item, NEW stage \in Stage
  PROVE  At(i, stage) \in Work /\ At(i, stage).item = i /\ At(i, stage).at = stage
  BY DEF Work, At

Doings == /\ doing \in [Owners -> SUBSET Work]
          /\ \A o \in Owners : \A d, e \in doing[o] : d = e
Claims == claimed \in [Owners -> SUBSET Item]
Trails == /\ ever \subseteq Keys /\ answered \subseteq Asks /\ retried \subseteq Keys
          /\ turns \in [Keys -> Nat] /\ reports \in [Keys -> Nat]

LEMMA TypesApart == TypeOK <=> /\ work \in Table /\ Claims /\ Doings /\ talking \in BOOLEAN
                               /\ Trails /\ mishaps \in 0..MaxMishaps
  BY DEF TypeOK, Claims, Doings, Trails, Work

LEMMA TypesApartNext ==
  TypeOK' <=> /\ work' \in Table /\ Claims' /\ Doings' /\ talking' \in BOOLEAN
              /\ Trails' /\ mishaps' \in 0..MaxMishaps
  BY DEF TypeOK, Claims, Doings, Trails, Work

LEMMA GotoTypes ==
  ASSUME Doings, NEW o \in Owners, NEW i \in Item, NEW stage \in Stage, Goto(o, i, stage)
  PROVE  Doings'
  BY AtIsWork DEF Goto, Doings

LEMMA ClearTypes ==
  ASSUME Doings, NEW o \in Owners, Clear(o)
  PROVE  Doings'
  BY DEF Clear, Doings

\* The item in hand.
LEMMA InHand ==
  ASSUME Doings, NEW o \in Owners, NEW d \in doing[o]
  PROVE  /\ d \in Work /\ d.item \in Item /\ d.item.key \in Keys /\ d.item.key.ask \in Asks
         /\ d.item.attempts \in 1..MaxAttempts /\ d.at \in Stage
         /\ d = At(d.item, d.at) /\ doing[o] = {d}
<1>1. d \in Work /\ doing[o] = {d}
  BY DEF Doings
<1>2. QED
  BY <1>1, Works, Items, AsksOfKeys

LEMMA MishapTypes ==
  /\ \A call : Fault(call) => Mishap
  /\ mishaps \in 0..MaxMishaps /\ (Mishap \/ Sound) => mishaps' \in 0..MaxMishaps
  BY DEF Fault, Mishap, Sound

LEMMA TypesInitially == Init => TypeOK
<1> SUFFICES ASSUME Init PROVE TypeOK
  OBVIOUS
<1>1. work \in Table
  BY NoRowIsARow DEF Init, EmptyTable, Table
<1>2. Claims /\ Doings /\ Trails
  BY DEF Init, Claims, Doings, Trails
<1>3. talking \in BOOLEAN
  BY Zenon DEF Init
<1>4. mishaps = 0 /\ 0 \in 0..MaxMishaps
  BY DEF Init
<1>5. QED
  BY <1>1, <1>2, <1>3, <1>4, TypesApart

LEMMA TypesAreKept == TypeOK /\ [Next]_vars => TypeOK'
<1> SUFFICES ASSUME TypeOK, [Next]_vars PROVE TypeOK'
  OBVIOUS
<1>0. /\ work \in Table /\ Claims /\ Doings /\ talking \in BOOLEAN
      /\ Trails /\ mishaps \in 0..MaxMishaps
  BY TypesApart
<1>1. ASSUME NEW a \in Asks, Send(a) PROVE TypeOK'
  BY <1>0, <1>1, KeysOfAsks, OfferedTable, MishapTypes, TypesApartNext
     DEF Send, Claims, Doings, Trails, trail
<1>2. ASSUME NEW o \in Owners, Sweep(o) PROVE TypeOK'
  <2>1. PICK S \in Batches(work, Limit) :
          /\ work' = Claimed(work, S, o)
          /\ claimed' = [claimed EXCEPT ![o] = { [key |-> k, attempts |-> work[k].attempts + 1] : k \in S }]
    BY <1>2 DEF Sweep
  <2>2. S \in SUBSET Due(work)
    BY BatchesAreDue
  <2>3. ASSUME NEW k \in S PROVE [key |-> k, attempts |-> work[k].attempts + 1] \in Item
    <3>1. k \in Keys /\ work[k].attempts < MaxAttempts /\ work[k] \in Row
      BY <2>2, <1>0 DEF Due, Table
    <3>2. work[k].attempts + 1 \in 1..MaxAttempts
      BY <3>1, RowFields
    <3>3. QED
      BY <3>1, <3>2 DEF Item
  <2>4. Claims'
    BY <2>1, <2>3, <1>0 DEF Claims
  <2>5. work' \in Table
    BY <2>1, <2>2, <1>0, ClaimedTable
  <2>6. QED
    BY <2>4, <2>5, <1>0, <1>2, MishapTypes, TypesApartNext DEF Sweep, Doings, Trails, trail
<1>3. ASSUME NEW o \in Owners, Begin(o) PROVE TypeOK'
  <2>1. PICK i \in claimed[o] :
          /\ claimed' = [claimed EXCEPT ![o] = @ \ {i}]
          /\ retried' = IF TriedBefore(i) THEN retried \union {i.key} ELSE retried
          /\ work' = Renewed(work, i.key, o)
          /\ doing' = [doing EXCEPT ![o] = IF Ours(work, i.key, o) THEN {At(i, "deliver")} ELSE {}]
    BY <1>3 DEF Begin
  <2>2. i \in Item /\ i.key \in Keys
    BY <1>0, Items DEF Claims
  <2>3. Doings'
    <3>1. At(i, "deliver") \in Work
      BY <2>2, AtIsWork DEF Stage
    <3>2. QED
      BY <2>1, <3>1, <1>0 DEF Doings
  <2>4. work' \in Table /\ Claims'
    BY <2>1, <2>2, <1>0, OwnRowTable DEF Claims
  <2>5. Trails'
    BY <2>1, <2>2, <1>0, <1>3 DEF Trails, Begin
  <2>6. QED
    BY <2>3, <2>4, <2>5, <1>0, <1>3, MishapTypes, TypesApartNext DEF Begin
<1>4. ASSUME NEW o \in Owners, BeginThrows(o) PROVE TypeOK'
  <2>1. PICK i \in claimed[o] :
          \/ TriedBefore(i) /\ Fault("audit") /\ UNCHANGED <<work, retried>>
          \/ /\ Fault("queue")
             /\ work' \in {work, Renewed(work, i.key, o)}
             /\ retried' = IF TriedBefore(i) THEN retried \union {i.key} ELSE retried
    BY <1>4 DEF BeginThrows
  <2>2. i \in Item /\ i.key \in Keys
    BY <1>0, Items DEF Claims
  <2>3. work' \in Table /\ Trails' /\ mishaps' \in 0..MaxMishaps
    BY <2>1, <2>2, <1>0, <1>4, OwnRowTable, MishapTypes DEF Trails, BeginThrows
  <2>4. QED
    BY <2>3, <1>0, <1>4, TypesApartNext DEF BeginThrows, Claims, Doings
<1>5. ASSUME NEW o \in Owners, Heartbeat(o) PROVE TypeOK'
  <2>1. Held(o) \subseteq Keys
    BY <1>0, InHand, Items DEF Held, Claims
  <2>2. work' \in Table
    BY <2>1, <1>0, <1>5, OwnRowTable DEF Heartbeat
  <2>3. QED
    BY <2>2, <1>0, <1>5, MishapTypes, TypesApartNext DEF Heartbeat, Claims, Doings, Trails, trail
<1>6. ASSUME NEW o \in Owners, Deliver(o) PROVE TypeOK'
  <2>1. PICK d \in doing[o] :
          /\ \E stage \in {"failing", "worded", "wordless"} : Goto(o, d.item, stage)
          /\ turns' \in {turns, [turns EXCEPT ![d.item.key] = @ + 1]}
    BY <1>6 DEF Deliver
  <2>2. Doings'
    BY <2>1, <1>0, InHand, GotoTypes DEF Stage
  <2>3. turns' \in [Keys -> Nat]
    BY <2>1, <1>0, InHand DEF Trails
  <2>4. QED
    BY <2>2, <2>3, <1>0, <1>6, MishapTypes, TypesApartNext DEF Deliver, Claims, Trails
<1>7. ASSUME NEW o \in Owners, Finish(o) PROVE TypeOK'
  <2>1. PICK d \in doing[o] :
          /\ work' = Finished(work, d.item.key, o)
          /\ Clear(o) \/ \E stage \in Stage : Goto(o, d.item, stage)
          /\ reports' \in {reports, [reports EXCEPT ![d.item.key] = @ + 1]}
          /\ answered' \in {answered, answered \union {d.item.key.ask}}
          /\ retried' \in {retried, retried \union {d.item.key}}
          /\ Sound \/ Fault("audit")
    BY <1>7 DEF Finish, AfterTurn, Stage
  <2>2. Doings'
    BY <2>1, <1>0, InHand, GotoTypes, ClearTypes
  <2>3. work' \in Table /\ Trails'
    BY <2>1, <1>0, <1>7, InHand, OwnRowTable DEF Trails, Finish
  <2>4. QED
    BY <2>1, <2>2, <2>3, <1>0, <1>7, MishapTypes, TypesApartNext DEF Finish, Claims
<1>8. ASSUME NEW o \in Owners, FinishThrows(o) PROVE TypeOK'
  <2>1. PICK d \in doing[o] :
          work' \in {work, Finished(work, d.item.key, o)} /\ Goto(o, d.item, "failing")
    BY <1>8 DEF FinishThrows
  <2>2. Doings' /\ work' \in Table
    BY <2>1, <1>0, InHand, GotoTypes, OwnRowTable DEF Stage
  <2>3. QED
    BY <2>2, <1>0, <1>8, MishapTypes, TypesApartNext DEF FinishThrows, Claims, Trails, trail
<1>9. ASSUME NEW o \in Owners, OfferRelay(o) \/ Tell(o) PROVE TypeOK'
  <2>1. PICK d \in doing[o] :
          /\ Goto(o, d.item, "record") \/ Goto(o, d.item, "release")
          /\ \/ UNCHANGED <<work, ever>> /\ (Fault("queue") \/ Sound)
             \/ /\ Sound
                /\ \E k \in {Relay(d.item.key.ask), Notice(d.item.key.ask)} :
                     work' = Offered(work, k, 0) /\ ever' = ever \union {k}
    BY <1>9 DEF OfferRelay, Tell
  <2>2. d.item.key.ask \in Asks
    BY <1>0, InHand
  <2>3. Doings' /\ work' \in Table
    BY <2>1, <2>2, <1>0, InHand, KeysOfAsks, GotoTypes, OfferedTable DEF Stage
  <2>4. Trails'
    BY <2>1, <2>2, <1>0, <1>9, KeysOfAsks DEF Trails, OfferRelay, Tell, trail
  <2>5. QED
    BY <2>1, <2>3, <2>4, <1>0, <1>9, MishapTypes, TypesApartNext DEF OfferRelay, Tell, Claims
<1>10. ASSUME NEW o \in Owners, Record(o) PROVE TypeOK'
  <2>1. PICK d \in doing[o] : \/ Clear(o) /\ Sound
                              \/ Goto(o, d.item, "failing") /\ Fault("audit")
    BY <1>10 DEF Record
  <2>2. Doings'
    BY <2>1, <1>0, InHand, GotoTypes, ClearTypes DEF Stage
  <2>3. QED
    BY <2>1, <2>2, <1>0, <1>10, MishapTypes, TypesApartNext DEF Record, Claims, Trails, trail
<1>11. ASSUME NEW o \in Owners, Release(o) PROVE TypeOK'
  <2>1. PICK d \in doing[o] :
          /\ work' \in {work, Released(work, d.item.key, o)}
          /\ claimed' \in {claimed, [claimed EXCEPT ![o] = {}]}
          /\ Sound \/ Fault("audit") \/ Fault("queue")
    BY <1>11 DEF Release
  <2>2. Doings' /\ work' \in Table /\ Claims'
    BY <2>1, <1>0, <1>11, InHand, ClearTypes, OwnRowTable DEF Release, Claims
  <2>3. QED
    BY <2>1, <2>2, <1>0, <1>11, MishapTypes, TypesApartNext DEF Release, Trails, trail
<1>12. ASSUME NEW o \in Owners, Crash(o) PROVE TypeOK'
  <2>1. Doings' /\ Claims'
    BY <1>0, <1>12, ClearTypes DEF Crash, Claims
  <2>2. QED
    BY <2>1, <1>0, <1>12, MishapTypes, TypesApartNext DEF Crash, Trails, trail
<1>13. CASE Converse \/ Reap \/ Tick
  <2>1. work' \in Table
    BY <1>0, <1>13, AgedTable DEF Converse, Reap, Tick
  <2>2. QED
    BY <2>1, <1>0, <1>13, MishapTypes, TypesApartNext
       DEF Converse, Reap, Tick, Claims, Doings, Trails, trail
<1>14. CASE UNCHANGED vars
  BY <1>0, <1>14, TypesApartNext DEF vars, Claims, Doings, Trails
<1>15. QED
  BY <1>1, <1>2, <1>3, <1>4, <1>5, <1>6, <1>7, <1>8, <1>9, <1>10, <1>11, <1>12, <1>13, <1>14
     DEF Next, Step

-----------------------------------------------------------------------------
(* Three kinds of steps. A sweep hands rows out, an offer inserts a row    *)
(* whose key is new, and every other step revives no row, changes no       *)
(* count of attempts, and gives no replica an item it did not have.        *)

RowsKept ==
  \A k \in Keys :
    /\ work'[k].st = "open" => work[k].st = "open"
    /\ work'[k].st # "absent" => work[k].st # "absent" /\ work'[k].attempts = work[k].attempts
    /\ work'[k].owner \in {work[k].owner, Nobody}

ItemsKept ==
  \A p \in Owners :
    /\ claimed'[p] \subseteq claimed[p]
    /\ ItemsOf(p)' \subseteq ItemsOf(p) /\ Unbegun(p)' \subseteq Unbegun(p)
    /\ \A d \in doing'[p] : d.item \notin claimed'[p]

Inserted(k) ==
  /\ k \notin ever /\ work[k].st = "absent"
  /\ work' = [work EXCEPT ![k] = Open(0, Nobody, 0, 0, 0)]
  /\ ever' = ever \union {k}

Kept == ItemsKept /\ RowsKept /\ ever' = ever
Adds == ItemsKept /\ \E k \in Keys : Inserted(k)

LEMMA StatementsKeepRows ==
  ASSUME work \in Table, NEW k \in Keys, NEW o \in Owners,
         work' \in {work, Renewed(work, k, o), Finished(work, k, o), Released(work, k, o)}
  PROVE  RowsKept
  BY DEF RowsKept, Table, Row, Renewed, Finished, Released, Ours, Open

LEMMA ClocksKeepRows ==
  ASSUME work \in Table, work' \in {work, Purged(work), Elapsed(work)}
  PROVE  RowsKept
<1>1. CASE work' = work
  BY <1>1 DEF RowsKept
<1>2. CASE work' = Purged(work)
  BY <1>2 DEF RowsKept, Purged, NoRow
<1>3. CASE work' = Elapsed(work)
  BY <1>3 DEF RowsKept, Elapsed, Older
<1>4. QED
  BY <1>1, <1>2, <1>3

LEMMA GoingOnKeepsItems ==
  ASSUME Doings, Claims, HandedOutOnce, NEW o \in Owners, NEW d \in doing[o],
         NEW stage \in Stage \ {"deliver"}, Goto(o, d.item, stage), UNCHANGED claimed
  PROVE  ItemsKept
<1>1. doing' = [doing EXCEPT ![o] = {At(d.item, stage)}]
  BY DEF Goto
<1>2. At(d.item, stage).item = d.item /\ At(d.item, stage).at = stage
  BY DEF At
<1>3. QED
  BY <1>1, <1>2 DEF ItemsKept, ItemsOf, Unbegun, HandedOutOnce, Doings

LEMMA DroppingKeepsItems ==
  ASSUME Doings, Claims, HandedOutOnce, NEW o \in Owners,
         claimed' = claimed \/ claimed' = [claimed EXCEPT ![o] = {}],
         doing' = doing \/ Clear(o)
  PROVE  ItemsKept
  BY DEF ItemsKept, ItemsOf, Unbegun, HandedOutOnce, Doings, Claims, Clear

LEMMA BeginningKeepsItems ==
  ASSUME Doings, Claims, HandedOutOnce, NEW o \in Owners, doing[o] = {}, NEW i \in claimed[o],
         claimed' = [claimed EXCEPT ![o] = @ \ {i}],
         doing' = [doing EXCEPT ![o] = IF Ours(work, i.key, o) THEN {At(i, "deliver")} ELSE {}]
  PROVE  ItemsKept
<1>1. At(i, "deliver").item = i /\ At(i, "deliver").at = "deliver"
  BY DEF At
<1>2. ASSUME NEW p \in Owners
      PROVE  /\ claimed'[p] \subseteq claimed[p]
             /\ ItemsOf(p)' \subseteq ItemsOf(p) /\ Unbegun(p)' \subseteq Unbegun(p)
             /\ \A d \in doing'[p] : d.item \notin claimed'[p]
  <2>1. CASE p # o
    BY <2>1 DEF ItemsOf, Unbegun, HandedOutOnce, Doings, Claims
  <2>2. CASE p = o
    <3>1. claimed'[o] = claimed[o] \ {i} /\ doing'[o] \subseteq {At(i, "deliver")}
      BY DEF Doings, Claims
    <3>2. QED
      BY <3>1, <1>1, <2>2 DEF ItemsOf, Unbegun
  <2>3. QED
    BY <2>1, <2>2
<1>3. QED
  BY <1>2 DEF ItemsKept

\* What is offered is new: the row is not there, and nothing is known of it.
LEMMA NewKeys ==
  ASSUME Known, NEW k \in Keys \ ever
  PROVE  /\ work[k].st = "absent" /\ ~(turns[k] > 0) /\ ~(reports[k] > 0)
         /\ \A o \in Owners : \A i \in ItemsOf(o) : i.key # k
  BY DEF Known

LEMMA OfferingInserts ==
  ASSUME Known, NEW k \in Keys \ ever, work' = Offered(work, k, 0), ever' = ever \union {k}
  PROVE  Inserted(k)
  BY DEF Known, Inserted, Offered

\* The last try's failure is told once: nobody else has the item, and its place says it was told.
LEMMA RelaysAndNoticesAreNew ==
  ASSUME IInv, NEW o \in Owners, NEW d \in doing[o]
  PROVE  /\ d.at = "relay" => Relay(d.item.key.ask) \in Keys \ ever
         /\ d.at = "failing" /\ LastTry(d.item) => Notice(d.item.key.ask) \in Keys \ ever
<1>0. Doings
  BY TypesApart DEF IInv
<1>1. d.item \in Item /\ d.item.key \in Keys /\ d.item.key.ask \in Asks /\ d.item.attempts \in 1..MaxAttempts
  BY <1>0, InHand
<1>2. /\ Relay(d.item.key.ask) \in Keys /\ Notice(d.item.key.ask) \in Keys
      /\ Forward(d.item.key) => d.item.key = Hop(d.item.key.ask)
  BY <1>1, KeysOfAsks, AsksOfKeys
<1>3. d.at = "relay" => Relay(d.item.key.ask) \notin ever
  BY DEF IInv, RelayedOnce
<1>4. ASSUME d.at = "failing", LastTry(d.item)
      PROVE  Notice(d.item.key.ask) \notin ever
  <2>1. d.item.attempts = MaxAttempts /\ d.item.key = Hop(d.item.key.ask)
    BY <1>1, <1>2, <1>4 DEF LastTry
  <2>2. d.item = [key |-> Hop(d.item.key.ask), attempts |-> MaxAttempts]
    BY <2>1, <1>1, Items
  <2>3. QED
    BY <2>2, <1>1, <1>4 DEF IInv, NoticedLast
<1>5. QED
  BY <1>2, <1>3, <1>4

LEMMA Kinds == IInv /\ [Next]_vars => Kept \/ Adds \/ \E o \in Owners : Sweep(o)
<1> SUFFICES ASSUME IInv, [Next]_vars, \A o \in Owners : ~Sweep(o) PROVE Kept \/ Adds
  OBVIOUS
<1>0. work \in Table /\ Claims /\ Doings /\ Known /\ HandedOutOnce
  BY TypesApart DEF IInv
<1>1. ASSUME NEW a \in Asks, Send(a) PROVE Adds
  <2>1. Inserted(Hop(a))
    BY <1>0, <1>1, KeysOfAsks, OfferingInserts DEF Send
  <2>2. ItemsKept
    BY <1>0, <1>1 DEF Send, ItemsKept, ItemsOf, Unbegun, HandedOutOnce
  <2>3. QED
    BY <2>1, <2>2, KeysOfAsks DEF Adds
<1>2. ASSUME NEW o \in Owners, Begin(o) PROVE Kept
  <2>1. PICK i \in claimed[o] :
          /\ doing[o] = {}
          /\ claimed' = [claimed EXCEPT ![o] = @ \ {i}]
          /\ work' = Renewed(work, i.key, o)
          /\ doing' = [doing EXCEPT ![o] = IF Ours(work, i.key, o) THEN {At(i, "deliver")} ELSE {}]
          /\ ever' = ever
    BY <1>2 DEF Begin
  <2>2. i.key \in Keys
    BY <1>0, Items DEF Claims
  <2>3. ItemsKept
    BY <2>1, <1>0, BeginningKeepsItems
  <2>4. RowsKept
    BY <2>1, <2>2, <1>0, StatementsKeepRows
  <2>5. QED
    BY <2>1, <2>3, <2>4 DEF Kept
<1>3. ASSUME NEW o \in Owners, BeginThrows(o) PROVE Kept
  <2>1. PICK i \in claimed[o] : work' \in {work, Renewed(work, i.key, o)}
    BY <1>3 DEF BeginThrows
  <2>2. i.key \in Keys
    BY <1>0, Items DEF Claims
  <2>3. RowsKept
    BY <2>1, <2>2, <1>0, StatementsKeepRows
  <2>4. ItemsKept
    BY <1>0, <1>3, DroppingKeepsItems DEF BeginThrows
  <2>5. QED
    BY <2>3, <2>4, <1>3 DEF Kept, BeginThrows
<1>4. ASSUME NEW o \in Owners, Heartbeat(o) PROVE Kept
  <2>1. Held(o) \subseteq Keys
    BY <1>0, InHand, Items DEF Held, Claims
  <2>2. RowsKept
    BY <2>1, <1>0, <1>4, StatementsKeepRows DEF Heartbeat
  <2>3. ItemsKept
    BY <1>0, <1>4, DroppingKeepsItems DEF Heartbeat
  <2>4. QED
    BY <2>2, <2>3, <1>4 DEF Kept, Heartbeat
<1>5. ASSUME NEW o \in Owners, Deliver(o) PROVE Kept
  <2>1. PICK d \in doing[o] : \E stage \in {"failing", "worded", "wordless"} : Goto(o, d.item, stage)
    BY <1>5 DEF Deliver
  <2>2. ItemsKept
    BY <2>1, <1>0, <1>5, GoingOnKeepsItems DEF Deliver, Stage
  <2>3. RowsKept
    BY <1>0, <1>5, ClocksKeepRows DEF Deliver
  <2>4. QED
    BY <2>2, <2>3, <1>5 DEF Kept, Deliver
<1>6. ASSUME NEW o \in Owners, Finish(o) \/ FinishThrows(o) PROVE Kept
  <2>1. PICK d \in doing[o] :
          /\ work' \in {work, Finished(work, d.item.key, o)}
          /\ Clear(o) \/ \E stage \in {"relay", "record", "failing"} : Goto(o, d.item, stage)
    BY <1>6 DEF Finish, FinishThrows, AfterTurn
  <2>2. RowsKept
    BY <2>1, <1>0, InHand, StatementsKeepRows
  <2>3. ItemsKept
    BY <2>1, <1>0, <1>6, GoingOnKeepsItems, DroppingKeepsItems DEF Finish, FinishThrows, Stage
  <2>4. QED
    BY <2>2, <2>3, <1>6 DEF Kept, Finish, FinishThrows
<1>7. ASSUME NEW o \in Owners, OfferRelay(o) \/ Tell(o) PROVE Kept \/ Adds
  <2>1. PICK d \in doing[o] :
          /\ Goto(o, d.item, "record") \/ Goto(o, d.item, "release")
          /\ \/ UNCHANGED <<work, ever>>
             \/ \E k \in Keys \ ever : work' = Offered(work, k, 0) /\ ever' = ever \union {k}
    BY <1>7, RelaysAndNoticesAreNew DEF OfferRelay, Tell
  <2>2. ItemsKept
    BY <2>1, <1>0, <1>7, GoingOnKeepsItems DEF OfferRelay, Tell, Stage
  <2>3. CASE UNCHANGED <<work, ever>>
    BY <2>2, <2>3, <1>0, ClocksKeepRows DEF Kept
  <2>4. ASSUME NEW k \in Keys \ ever, work' = Offered(work, k, 0), ever' = ever \union {k} PROVE Adds
    BY <2>2, <2>4, <1>0, OfferingInserts DEF Adds
  <2>5. QED
    BY <2>1, <2>3, <2>4
<1>8. ASSUME NEW o \in Owners, Record(o) PROVE Kept
  <2>1. PICK d \in doing[o] : Clear(o) \/ Goto(o, d.item, "failing")
    BY <1>8 DEF Record
  <2>2. ItemsKept
    BY <2>1, <1>0, <1>8, GoingOnKeepsItems, DroppingKeepsItems DEF Record, Stage
  <2>3. QED
    BY <2>2, <1>0, <1>8, ClocksKeepRows DEF Kept, Record
<1>9. ASSUME NEW o \in Owners, Release(o) \/ Crash(o) PROVE Kept
  <2>1. ItemsKept
    BY <1>0, <1>9, DroppingKeepsItems DEF Release, Crash
  <2>2. RowsKept
    <3>1. CASE Crash(o)
      BY <3>1, <1>0, ClocksKeepRows DEF Crash
    <3>2. CASE Release(o)
      <4>1. PICK d \in doing[o] : work' \in {work, Released(work, d.item.key, o)}
        BY <3>2 DEF Release
      <4>2. QED
        BY <4>1, <1>0, InHand, StatementsKeepRows
    <3>3. QED
      BY <3>1, <3>2, <1>9
  <2>3. QED
    BY <2>1, <2>2, <1>9 DEF Kept, Release, Crash
<1>10. CASE Converse \/ Reap \/ Tick \/ UNCHANGED vars
  <2>1. RowsKept
    BY <1>0, <1>10, ClocksKeepRows DEF Converse, Reap, Tick, vars
  <2>2. ItemsKept
    BY <1>0, <1>10 DEF Converse, Reap, Tick, vars, ItemsKept, ItemsOf, Unbegun, HandedOutOnce
  <2>3. QED
    BY <2>1, <2>2, <1>10 DEF Kept, Converse, Reap, Tick, vars
<1>11. QED
  BY <1>1, <1>2, <1>3, <1>4, <1>5, <1>6, <1>7, <1>8, <1>9, <1>10 DEF Next, Step

\* A sweep: what it hands out is newer than anything its keys had before.
Swept(o, S) ==
  /\ S \in SUBSET Due(work) /\ claimed[o] = {} /\ doing[o] = {}
  /\ work' = Claimed(work, S, o)
  /\ claimed' = [claimed EXCEPT ![o] = { [key |-> k, attempts |-> work[k].attempts + 1] : k \in S }]
  /\ UNCHANGED <<doing, talking, ever, turns, reports, answered, retried>>

LEMMA SweepsSweep ==
  ASSUME NEW o \in Owners, Sweep(o)
  PROVE  \E S \in SUBSET Due(work) : Swept(o, S)
<1>1. PICK S \in Batches(work, Limit) :
        /\ work' = Claimed(work, S, o)
        /\ claimed' = [claimed EXCEPT ![o] = { [key |-> k, attempts |-> work[k].attempts + 1] : k \in S }]
  BY DEF Sweep
<1>2. S \in SUBSET Due(work)
  BY BatchesAreDue
<1>3. QED
  BY <1>1, <1>2 DEF Sweep, Idle, Swept, trail

LEMMA SweptRows ==
  ASSUME work \in Table, NEW o \in Owners, NEW S \in SUBSET Due(work), Swept(o, S), NEW k \in Keys
  PROVE  /\ k \in S => /\ work[k].st = "open" /\ work'[k].st = "open" /\ work'[k].owner = o
                       /\ work[k].attempts < MaxAttempts
                       /\ work'[k].attempts = work[k].attempts + 1
         /\ k \notin S => work'[k] = work[k]
  BY DEF Swept, Claimed, Open, Due

LEMMA SweptItems ==
  ASSUME Claims, Doings, NEW o \in Owners, NEW S \in SUBSET Due(work), Swept(o, S), NEW p \in Owners
  PROVE  /\ p # o => ItemsOf(p)' = ItemsOf(p) /\ Unbegun(p)' = Unbegun(p) /\ claimed'[p] = claimed[p]
         /\ p = o => /\ ItemsOf(p) = {} /\ doing'[p] = {}
                     /\ ItemsOf(p)' = claimed'[p] /\ Unbegun(p)' = claimed'[p]
                     /\ claimed'[p] = { [key |-> k, attempts |-> work[k].attempts + 1] : k \in S }
  BY DEF Swept, ItemsOf, Unbegun, Claims, Doings

LEMMA ItemsAreItems ==
  ASSUME Claims, Doings, NEW o \in Owners, NEW i \in ItemsOf(o)
  PROVE  i \in Item /\ i.key \in Keys /\ i.attempts \in 1..MaxAttempts
BY InHand, Items DEF Claims, ItemsOf

-----------------------------------------------------------------------------
(* One lemma per part of the invariant: a step keeps it.                   *)

LEMMA CountsAreOfItems ==
  ASSUME TypeOK, [Next]_vars, NEW k \in Keys, turns'[k] # turns[k] \/ reports'[k] # reports[k]
  PROVE  \E o \in Owners : \E i \in ItemsOf(o) : i.key = k
<1>0. Claims /\ Doings /\ Trails
  BY TypesApart
<1>1. PICK o \in Owners : Deliver(o) \/ Finish(o)
  BY DEF Next, Step, vars, trail, Send, Sweep, Begin, BeginThrows, Heartbeat, FinishThrows,
         OfferRelay, Record, Tell, Release, Crash, Converse, Reap, Tick
<1>2. PICK d \in doing[o] : d.item.key = k
  BY <1>0, <1>1, InHand DEF Deliver, Finish, Trails
<1>3. QED
  BY <1>2 DEF ItemsOf

LEMMA KnownIsKept == IInv /\ [Next]_vars => Known'
<1> SUFFICES ASSUME IInv, [Next]_vars PROVE Known'
  OBVIOUS
<1>0. work \in Table /\ Claims /\ Doings /\ Known /\ TypeOK
  BY TypesApart DEF IInv
<1>1. ever \subseteq ever'
  BY Kinds, SweepsSweep DEF Kept, Adds, Inserted, Swept
<1>2. ASSUME NEW k \in Keys, turns'[k] > 0 \/ reports'[k] > 0 PROVE k \in ever
  <2>1. CASE turns'[k] = turns[k] /\ reports'[k] = reports[k]
    BY <1>0, <1>2, <2>1 DEF Known
  <2>2. CASE turns'[k] # turns[k] \/ reports'[k] # reports[k]
    BY <1>0, <2>2, CountsAreOfItems DEF Known
  <2>3. QED
    BY <2>1, <2>2
<1>3. ASSUME NEW k \in Keys, work'[k].st # "absent" PROVE k \in ever'
  <2>1. CASE Kept
    BY <1>0, <1>3, <2>1 DEF Kept, RowsKept, Known
  <2>2. CASE Adds
    BY <1>0, <1>3, <2>2 DEF Adds, Inserted, Known, Table
  <2>3. ASSUME NEW o \in Owners, Sweep(o) PROVE k \in ever'
    <3>1. PICK S \in SUBSET Due(work) : Swept(o, S)
      BY <2>3, SweepsSweep
    <3>2. work[k].st # "absent"
      BY <3>1, <1>0, <1>3, SweptRows
    <3>3. QED
      BY <3>2, <1>0, <1>1 DEF Known
  <2>4. QED
    BY <2>1, <2>2, <2>3, Kinds
<1>4. ASSUME NEW p \in Owners, NEW i \in ItemsOf(p)' PROVE i.key \in ever'
  <2>1. CASE ItemsKept
    BY <1>0, <1>1, <1>4, <2>1 DEF ItemsKept, Known
  <2>2. ASSUME NEW o \in Owners, Sweep(o) PROVE i.key \in ever'
    <3>1. PICK S \in SUBSET Due(work) : Swept(o, S)
      BY <2>2, SweepsSweep
    <3>2. CASE p # o
      BY <3>1, <3>2, <1>0, <1>1, <1>4, SweptItems DEF Known
    <3>3. CASE p = o
      <4>1. PICK k \in S : i.key = k
        BY <3>1, <3>3, <1>0, <1>4, SweptItems
      <4>2. work[k].st # "absent" /\ k \in Keys
        BY <3>1, <4>1, <1>0, SweptRows DEF Due
      <4>3. QED
        BY <4>1, <4>2, <1>0, <1>1 DEF Known
    <3>4. QED
      BY <3>2, <3>3
  <2>3. QED
    BY <2>1, <2>2, Kinds DEF Kept, Adds
<1>5. QED
  BY <1>1, <1>2, <1>3, <1>4 DEF Known

LEMMA HandingOutOnceIsKept == IInv /\ [Next]_vars => HandedOutOnce'
<1> SUFFICES ASSUME IInv, [Next]_vars PROVE HandedOutOnce'
  OBVIOUS
<1>0. work \in Table /\ Claims /\ Doings /\ Known /\ HandedOutOnce
  BY TypesApart DEF IInv
<1>1. ASSUME ItemsKept, RowsKept \/ \E k \in Keys : Inserted(k) PROVE HandedOutOnce'
  <2>1. ASSUME NEW o \in Owners, NEW i \in ItemsOf(o)' PROVE Fits(o, i)'
    <3>1. i \in ItemsOf(o) /\ Fits(o, i) /\ i.key \in Keys
      BY <1>0, <1>1, ItemsAreItems DEF ItemsKept, HandedOutOnce
    <3>2. CASE RowsKept
      BY <3>1, <3>2 DEF RowsKept, Fits, Ours
    <3>3. ASSUME NEW k \in Keys, Inserted(k) PROVE Fits(o, i)'
      <4>1. i.key # k
        BY <3>1, <3>3, <1>0, NewKeys DEF Inserted
      <4>2. work'[i.key] = work[i.key]
        BY <3>1, <3>3, <4>1, <1>0 DEF Inserted, Table
      <4>3. QED
        BY <3>1, <4>2 DEF Fits, Ours
    <3>4. QED
      BY <3>2, <3>3, <1>1
  <2>2. QED
    BY <2>1, <1>0, <1>1 DEF HandedOutOnce, ItemsKept
<1>2. ASSUME NEW o \in Owners, Sweep(o) PROVE HandedOutOnce'
  <2>1. PICK S \in SUBSET Due(work) : Swept(o, S)
    BY <1>2, SweepsSweep
  <2>2. ASSUME NEW p \in Owners \ {o}, NEW i \in ItemsOf(p)'
        PROVE  i \in ItemsOf(p) /\ Fits(p, i) /\ i.key \in Keys /\ i.attempts \in 1..MaxAttempts
    BY <2>1, <1>0, SweptItems, ItemsAreItems DEF HandedOutOnce
  <2>3. ASSUME NEW i \in ItemsOf(o)'
        PROVE  i.key \in S /\ i.attempts = work[i.key].attempts + 1
    BY <2>1, <1>0, SweptItems
  <2>4. S \subseteq Keys
    BY DEF Due
  <2>5. \A k \in Keys : work[k].attempts \in Nat
    BY <1>0, RowFields DEF Table
  <2>6. ASSUME NEW p \in Owners, NEW i \in ItemsOf(p)' PROVE Fits(p, i)'
    <3>1. CASE p = o
      BY <3>1, <2>1, <2>3, <2>4, <2>5, <2>6, <1>0, SweptRows DEF Fits
    <3>2. CASE p # o
      <4>1. Fits(p, i) /\ i.key \in Keys /\ i.attempts \in Int
        BY <3>2, <2>2, <2>6
      <4>2. CASE i.key \in S
        BY <4>1, <4>2, <3>2, <2>1, <2>5, <1>0, SweptRows DEF Fits, Ours
      <4>3. CASE i.key \notin S
        BY <4>1, <4>3, <2>1, <1>0, SweptRows DEF Fits, Ours
      <4>4. QED
        BY <4>2, <4>3
    <3>3. QED
      BY <3>1, <3>2
  <2>7. ASSUME NEW p \in Owners \ {o}, NEW i \in ItemsOf(p)' PROVE i \notin ItemsOf(o)'
    <3>1. SUFFICES ASSUME i \in ItemsOf(o)' PROVE FALSE
      OBVIOUS
    <3>2. i.key \in S /\ i.attempts = work[i.key].attempts + 1 /\ i.key \in Keys
      BY <3>1, <2>3, <2>4
    <3>3. work[i.key].st = "open" /\ i.attempts <= work[i.key].attempts
      BY <3>2, <2>2, <2>7, <2>1, <1>0, SweptRows DEF Fits
    <3>4. QED
      BY <3>2, <3>3, <2>5
  <2>8. ASSUME NEW p \in Owners, NEW q \in Owners, NEW i \in ItemsOf(p)', i \in ItemsOf(q)' PROVE p = q
    <3>1. CASE p = o \/ q = o
      BY <3>1, <2>7, <2>8
    <3>2. CASE p # o /\ q # o
      BY <3>2, <2>2, <2>8, <1>0 DEF HandedOutOnce
    <3>3. QED
      BY <3>1, <3>2
  <2>9. ASSUME NEW p \in Owners, NEW d \in doing'[p] PROVE d.item \notin claimed'[p]
    BY <2>1, <2>9, <1>0, SweptItems DEF HandedOutOnce, Swept
  <2>10. QED
    BY <2>6, <2>8, <2>9 DEF HandedOutOnce
<1>3. QED
  BY <1>1, <1>2, Kinds DEF Kept, Adds

LEMMA ReportsChange ==
  ASSUME TypeOK, [Next]_vars
  PROVE  \/ UNCHANGED <<reports, answered>>
         \/ \E o \in Owners : \E d \in doing[o] :
              /\ Finish(o) /\ d.at \in {"worded", "wordless"} /\ Ours(work, d.item.key, o)
              /\ work' = Finished(work, d.item.key, o)
              /\ reports' = [reports EXCEPT ![d.item.key] = @ + 1]
              /\ answered' = IF Forward(d.item.key) /\ d.at = "worded"
                             THEN answered \union {d.item.key.ask} ELSE answered
              /\ Goto(o, d.item, AfterTurn(d.item, d.at))
<1>1. CASE \E o \in Owners : Finish(o)
  BY <1>1 DEF Finish
<1>2. CASE ~ \E o \in Owners : Finish(o)
  BY <1>2 DEF Next, Step, vars, trail, Send, Sweep, Begin, BeginThrows, Heartbeat, Deliver, FinishThrows,
         OfferRelay, Record, Tell, Release, Crash, Converse, Reap, Tick
<1>3. QED
  BY <1>1, <1>2

LEMMA ReportingOnceIsKept == IInv /\ [Next]_vars => ReportedOnce'
<1> SUFFICES ASSUME IInv, [Next]_vars, NEW k \in Keys
             PROVE  reports'[k] <= 1 /\ (reports'[k] > 0 => work'[k].st # "open")
  BY DEF ReportedOnce
<1>0. work \in Table /\ Claims /\ Doings /\ Trails /\ Known /\ ReportedOnce /\ TypeOK
  BY TypesApart DEF IInv
<1>1. reports[k] \in Nat /\ reports[k] <= 1 /\ (reports[k] > 0 => work[k].st # "open")
  BY <1>0 DEF Trails, ReportedOnce
<1>2. reports[k] > 0 => work'[k].st # "open"
  <2>1. CASE RowsKept
    BY <2>1, <1>1 DEF RowsKept
  <2>2. ASSUME NEW j \in Keys, Inserted(j) PROVE reports[k] > 0 => work'[k].st # "open"
    BY <2>2, <1>0, <1>1, NewKeys DEF Inserted, Table
  <2>3. ASSUME NEW o \in Owners, Sweep(o) PROVE reports[k] > 0 => work'[k].st # "open"
    BY <2>3, <1>0, <1>1, SweepsSweep, SweptRows
  <2>4. QED
    BY <2>1, <2>2, <2>3, Kinds DEF Kept, Adds
<1>3. CASE reports'[k] = reports[k]
  BY <1>1, <1>2, <1>3
<1>4. CASE reports'[k] # reports[k]
  <2>0. PICK o \in Owners :
          \E d \in doing[o] :
            /\ Ours(work, d.item.key, o) /\ work' = Finished(work, d.item.key, o)
            /\ reports' = [reports EXCEPT ![d.item.key] = @ + 1]
    BY <1>0, <1>4, ReportsChange
  <2>1. PICK d \in doing[o] :
          /\ Ours(work, d.item.key, o) /\ work' = Finished(work, d.item.key, o)
          /\ reports' = [reports EXCEPT ![d.item.key] = @ + 1]
    BY <2>0
  <2>2. d.item.key = k
    BY <2>1, <1>0, <1>4, InHand DEF Trails
  <2>3. reports[k] = 0 /\ reports'[k] = 1
    BY <2>1, <2>2, <1>0, <1>1 DEF Ours, Trails
  <2>4. work'[k].st = "done"
    BY <2>1, <2>2, <1>0 DEF Finished, Table
  <2>5. QED
    BY <2>3, <2>4
<1>5. QED
  BY <1>3, <1>4

\* Who offered a key that is new.
LEMMA OffersChange ==
  ASSUME TypeOK, [Next]_vars, NEW k \in ever' \ ever
  PROVE  \/ \E a \in Asks : k = Hop(a) /\ UNCHANGED <<claimed, doing>> /\ work' = Offered(work, k, 0)
         \/ \E o \in Owners : \E d \in doing[o] :
              /\ d.at = "relay" /\ k = Relay(d.item.key.ask)
              /\ Goto(o, d.item, "record") /\ claimed' = claimed
         \/ \E o \in Owners : \E d \in doing[o] :
              /\ d.at = "failing" /\ LastTry(d.item) /\ k = Notice(d.item.key.ask)
              /\ Goto(o, d.item, "release") /\ claimed' = claimed /\ reports' = reports
<1>1. CASE \E a \in Asks : Send(a)
  BY <1>1 DEF Send
<1>2. CASE \E o \in Owners : OfferRelay(o)
  BY <1>2 DEF OfferRelay
<1>3. CASE \E o \in Owners : Tell(o)
  BY <1>3 DEF Tell, trail
<1>4. CASE ~ \E o \in Owners : OfferRelay(o) \/ Tell(o)
  BY <1>1, <1>4 DEF Next, Step, vars, trail, Sweep, Begin, BeginThrows, Heartbeat, Deliver, Finish,
         FinishThrows, Record, Release, Crash, Converse, Reap, Tick
<1>5. QED
  BY <1>2, <1>3, <1>4

\* Who has an answer to carry now had it before, or has just reported.
JustReported(o, d) ==
  /\ d.item.key \in Keys /\ Forward(d.item.key)
  /\ reports[d.item.key] = 0 /\ reports'[d.item.key] > 0 /\ ever' = ever
  /\ \A p \in Owners \ {o} : doing'[p] = doing[p]
  /\ \A e \in doing'[o] : e = d

LEMMA RelayingStarts ==
  ASSUME IInv, [Next]_vars, NEW o \in Owners, NEW d \in doing'[o], d.at = "relay"
  PROVE  d \in doing[o] \/ JustReported(o, d)
<1>0. Doings /\ Trails /\ ReportedOnce /\ TypeOK
  BY TypesApart DEF IInv
<1>1. CASE \E p \in Owners : Finish(p)
  <2>1. PICK p \in Owners : Finish(p)
    BY <1>1
  <2>2. CASE UNCHANGED <<reports, answered>>
    BY <2>1, <2>2, <1>0, InHand DEF Finish, Goto, Clear, At, Doings, Trails
  <2>3. CASE ~ UNCHANGED <<reports, answered>>
    <3>1. PICK q \in Owners :
            \E e \in doing[q] :
              /\ Finish(q) /\ Ours(work, e.item.key, q)
              /\ reports' = [reports EXCEPT ![e.item.key] = @ + 1]
              /\ Goto(q, e.item, AfterTurn(e.item, e.at))
      BY <1>0, <2>3, ReportsChange
    <3>2. PICK e \in doing[q] :
            /\ Finish(q) /\ Ours(work, e.item.key, q)
            /\ reports' = [reports EXCEPT ![e.item.key] = @ + 1]
            /\ Goto(q, e.item, AfterTurn(e.item, e.at))
      BY <3>1
    <3>3. CASE q # o
      BY <3>2, <3>3 DEF Goto
    <3>4. CASE q = o
      <4>1. d = At(e.item, AfterTurn(e.item, e.at)) /\ \A f \in doing'[o] : f = d
        BY <3>2, <3>4, <1>0 DEF Goto, Doings
      <4>2. d.item = e.item /\ Forward(e.item.key) /\ e.item.key \in Keys
        BY <4>1, <3>4, <1>0, InHand DEF At, AfterTurn
      <4>3. reports[e.item.key] = 0 /\ reports'[e.item.key] > 0
        BY <3>2, <4>2, <1>0 DEF Ours, ReportedOnce, Trails
      <4>4. ever' = ever /\ \A p2 \in Owners \ {o} : doing'[p2] = doing[p2]
        BY <3>2, <3>4 DEF Finish, Goto
      <4>5. QED
        BY <4>1, <4>2, <4>3, <4>4 DEF JustReported
    <3>5. QED
      BY <3>3, <3>4
  <2>4. QED
    BY <2>2, <2>3
<1>2. CASE ~ \E p \in Owners : Finish(p)
  <2>1. \/ doing' = doing
        \/ \E q \in Owners : \/ Clear(q)
                             \/ \E i, stage : stage # "relay" /\ Goto(q, i, stage)
    <3>1. ASSUME NEW q \in Owners, Begin(q)
          PROVE  Clear(q) \/ \E i, stage : stage # "relay" /\ Goto(q, i, stage)
      BY <3>1 DEF Begin, Clear, Goto
    <3>2. ASSUME NEW q \in Owners, Deliver(q)
          PROVE  \E i, stage : stage # "relay" /\ Goto(q, i, stage)
      BY <3>2 DEF Deliver
    <3>3. ASSUME NEW q \in Owners, FinishThrows(q) \/ OfferRelay(q) \/ Tell(q)
          PROVE  \E i, stage : stage # "relay" /\ Goto(q, i, stage)
      BY <3>3 DEF FinishThrows, OfferRelay, Tell
    <3>4. ASSUME NEW q \in Owners, Record(q) \/ Release(q) \/ Crash(q)
          PROVE  Clear(q) \/ \E i, stage : stage # "relay" /\ Goto(q, i, stage)
      BY <3>4 DEF Record, Release, Crash
    <3>5. QED
      BY <1>2, <3>1, <3>2, <3>3, <3>4 DEF Next, Step, vars, Send, Sweep, BeginThrows, Heartbeat,
         Converse, Reap, Tick
  <2>2. QED
    BY <2>1, <1>0 DEF Goto, Clear, At, Doings
<1>3. QED
  BY <1>1, <1>2

LEMMA RelayingOnceIsKept == IInv /\ [Next]_vars => RelayedOnce'
<1> SUFFICES ASSUME IInv, [Next]_vars PROVE RelayedOnce'
  OBVIOUS
<1>0. Claims /\ Doings /\ Trails /\ RelayedOnce /\ TypeOK
  BY TypesApart DEF IInv
<1>1. \A k \in Keys : reports[k] \in Nat /\ (reports[k] > 0 => reports'[k] > 0)
  BY <1>0, ReportsChange, InHand DEF Trails
<1>2. ASSUME NEW a \in Asks, Relay(a) \in ever' PROVE reports'[Hop(a)] > 0
  <2>1. CASE Relay(a) \in ever
    BY <2>1, <1>0, <1>1, KeysOfAsks DEF RelayedOnce
  <2>2. CASE Relay(a) \notin ever
    <3>1. PICK o \in Owners : \E d \in doing[o] : d.at = "relay" /\ Relay(a) = Relay(d.item.key.ask)
      BY <2>2, <1>0, <1>2, OffersChange DEF Relay, Hop, Notice
    <3>2. PICK d \in doing[o] : d.at = "relay" /\ d.item.key.ask = a
      BY <3>1 DEF Relay
    <3>3. d.item.key = Hop(a) /\ reports[Hop(a)] > 0
      BY <3>2, <1>0, InHand, AsksOfKeys DEF RelayedOnce
    <3>4. QED
      BY <3>3, <1>1, KeysOfAsks
  <2>3. QED
    BY <2>1, <2>2
<1>3. ASSUME NEW o \in Owners, NEW d \in doing'[o], d.at = "relay"
      PROVE  /\ Forward(d.item.key) /\ reports'[d.item.key] > 0 /\ Relay(d.item.key.ask) \notin ever'
             /\ \A p \in Owners : \A e \in doing'[p] : e.at = "relay" /\ e.item.key = d.item.key => o = p
  <2>1. CASE JustReported(o, d)
    <3>1. d.item.key \in Keys /\ d.item.key = Hop(d.item.key.ask) /\ d.item.key.ask \in Asks
      BY <2>1, AsksOfKeys DEF JustReported
    <3>2. Relay(d.item.key.ask) \notin ever'
      BY <2>1, <3>1, <1>0 DEF JustReported, RelayedOnce
    <3>3. ASSUME NEW p \in Owners \ {o}, NEW e \in doing'[p], e.at = "relay", e.item.key = d.item.key
          PROVE  FALSE
      BY <2>1, <3>3, <1>0 DEF JustReported, RelayedOnce
    <3>4. QED
      BY <2>1, <3>2, <3>3 DEF JustReported
  <2>2. CASE d \in doing[o]
    <3>1. /\ Forward(d.item.key) /\ reports[d.item.key] > 0 /\ Relay(d.item.key.ask) \notin ever
          /\ d.item.key \in Keys
      BY <2>2, <1>0, <1>3, InHand DEF RelayedOnce
    <3>2. Relay(d.item.key.ask) \notin ever'
      <4>1. SUFFICES ASSUME Relay(d.item.key.ask) \in ever' PROVE FALSE
        OBVIOUS
      <4>2. PICK p \in Owners :
              \E e \in doing[p] : /\ e.at = "relay" /\ Relay(d.item.key.ask) = Relay(e.item.key.ask)
                                  /\ Goto(p, e.item, "record")
        <5>1. Relay(d.item.key.ask) \in ever' \ ever
          BY <3>1, <4>1
        <5>2. \A a \in Asks : Relay(d.item.key.ask) # Hop(a)
          BY DEF Relay, Hop
        <5>3. \A p \in Owners : \A e \in doing[p] : Relay(d.item.key.ask) # Notice(e.item.key.ask)
          BY DEF Relay, Notice
        <5>4. QED
          BY <5>1, <5>2, <5>3, <1>0, OffersChange
      <4>3. PICK e \in doing[p] : /\ e.at = "relay" /\ d.item.key.ask = e.item.key.ask
                                  /\ Goto(p, e.item, "record")
        BY <4>2 DEF Relay
      <4>4. e.item.key = d.item.key
        BY <4>3, <3>1, <1>0, InHand, AsksOfKeys DEF RelayedOnce
      <4>5. p = o
        BY <4>3, <4>4, <2>2, <1>0, <1>3 DEF RelayedOnce
      <4>6. QED
        BY <4>3, <4>5, <1>0, <1>3 DEF Goto, At, Doings
    <3>3. ASSUME NEW p \in Owners, NEW e \in doing'[p], e.at = "relay", e.item.key = d.item.key
          PROVE  o = p
      <4>1. CASE e \in doing[p]
        BY <4>1, <3>3, <2>2, <1>0, <1>3 DEF RelayedOnce
      <4>2. CASE JustReported(p, e)
        BY <4>2, <3>1, <3>3 DEF JustReported
      <4>3. QED
        BY <4>1, <4>2, <3>3, RelayingStarts
    <3>4. QED
      BY <3>1, <3>2, <3>3, <1>1
  <2>3. QED
    BY <2>1, <2>2, <1>3, RelayingStarts
<1>4. QED
  BY <1>2, <1>3 DEF RelayedOnce

\* What a replica does now it did before, or has taken from what it claimed, on record.
LEMMA DoingGoesOn ==
  ASSUME TypeOK, [Next]_vars, NEW o \in Owners, NEW d \in doing'[o]
  PROVE  \/ d \in doing[o]
         \/ \E e \in doing[o] : e.item = d.item /\ e.at # "release"
         \/ d.item \in claimed[o] /\ (d.item.attempts > 1 => d.item.key \in retried')
<1> DEFINE Goes == \/ d \in doing[o]
                   \/ \E e \in doing[o] : e.item = d.item /\ e.at # "release"
                   \/ d.item \in claimed[o] /\ (d.item.attempts > 1 => d.item.key \in retried')
<1>0. Doings
  BY TypesApart
<1>1. ASSUME NEW q \in Owners, Begin(q) PROVE Goes
  <2>1. PICK i \in claimed[q] :
          /\ retried' = IF TriedBefore(i) THEN retried \union {i.key} ELSE retried
          /\ doing' = [doing EXCEPT ![q] = IF Ours(work, i.key, q) THEN {At(i, "deliver")} ELSE {}]
    BY <1>1 DEF Begin
  <2>2. CASE q = o
    <3>1. d = At(i, "deliver")
      BY <2>1, <2>2, <1>0 DEF Doings
    <3>2. QED
      BY <2>1, <2>2, <3>1 DEF At, TriedBefore
  <2>3. CASE q # o
    BY <2>1, <2>3, <1>0 DEF Doings
  <2>4. QED
    BY <2>2, <2>3
<1>2. ASSUME NEW q \in Owners, NEW e \in doing[q], e.at # "release", NEW stage, Goto(q, e.item, stage)
      PROVE  Goes
  <2>1. CASE q = o
    BY <1>2, <2>1, <1>0 DEF Goto, At, Doings
  <2>2. CASE q # o
    BY <1>2, <2>2, <1>0 DEF Goto, Doings
  <2>3. QED
    BY <2>1, <2>2
<1>3. ASSUME doing' = doing \/ \E q \in Owners : Clear(q) PROVE Goes
  BY <1>3, <1>0 DEF Clear, Doings
<1>4. ASSUME NEW q \in Owners, Step(q) PROVE Goes
  <2>1. CASE Deliver(q)
    <3>1. PICK e \in doing[q] : e.at = "deliver" /\ \E stage : Goto(q, e.item, stage)
      BY <2>1 DEF Deliver
    <3>2. QED
      BY <3>1, <1>2
  <2>2. CASE Finish(q)
    <3>1. PICK e \in doing[q] : e.at # "release" /\ (Clear(q) \/ \E stage : Goto(q, e.item, stage))
      BY <2>2 DEF Finish
    <3>2. QED
      BY <3>1, <1>2, <1>3
  <2>3. CASE OfferRelay(q) \/ Record(q) \/ Tell(q)
    <3>1. PICK e \in doing[q] : e.at # "release" /\ (Clear(q) \/ \E stage : Goto(q, e.item, stage))
      BY <2>3 DEF OfferRelay, Record, Tell
    <3>2. QED
      BY <3>1, <1>2, <1>3
  <2>4. CASE Release(q)
    BY <2>4, <1>3 DEF Release
  <2>5. QED
    BY <1>1, <1>4, <2>1, <2>2, <2>3, <2>4 DEF Step
<1>5. ASSUME NEW q \in Owners, FinishThrows(q) PROVE Goes
  <2>1. PICK e \in doing[q] : e.at # "release" /\ Goto(q, e.item, "failing")
    BY <1>5 DEF FinishThrows
  <2>2. QED
    BY <2>1, <1>2
<1>6. QED
  BY <1>3, <1>4, <1>5 DEF Next, vars, Send, Sweep, BeginThrows, Heartbeat, Crash, Converse, Reap, Tick

LEMMA NoticingLastIsKept == IInv /\ [Next]_vars => NoticedLast'
<1> SUFFICES ASSUME IInv, [Next]_vars, NEW a \in Asks, Notice(a) \in ever'
             PROVE  /\ Hop(a) \in ever'
                    /\ work'[Hop(a)].st # "absent" => work'[Hop(a)].attempts = MaxAttempts
                    /\ \A o \in Owners :
                         /\ \A i \in claimed'[o] : i.key = Hop(a) => i.attempts < MaxAttempts
                         /\ \A d \in doing'[o] : d.item = [key |-> Hop(a), attempts |-> MaxAttempts]
                                                   => d.at = "release"
  BY DEF NoticedLast
<1> DEFINE last == [key |-> Hop(a), attempts |-> MaxAttempts]
<1>0. /\ work \in Table /\ Claims /\ Doings /\ Known /\ HandedOutOnce /\ NoticedLast /\ TypeOK
      /\ Hop(a) \in Keys
  BY TypesApart, KeysOfAsks DEF IInv
<1>r. work[Hop(a)] \in Row /\ work[Hop(a)].attempts \in 0..MaxAttempts
  BY <1>0, RowFields DEF Table
<1>1. CASE Notice(a) \in ever
  <2>0. /\ Hop(a) \in ever
        /\ work[Hop(a)].st # "absent" => work[Hop(a)].attempts = MaxAttempts
        /\ \A o \in Owners : /\ \A i \in claimed[o] : i.key = Hop(a) => i.attempts < MaxAttempts
                             /\ \A d \in doing[o] : d.item = last => d.at = "release"
    BY <1>0, <1>1 DEF NoticedLast
  <2>1. ASSUME NEW o \in Owners, NEW d \in doing'[o], d.item = last PROVE d.at = "release"
    <3>1. d.item \notin claimed[o]
      BY <2>0, <2>1
    <3>2. QED
      BY <3>1, <2>0, <2>1, <1>0, DoingGoesOn
  <2>2. ASSUME ItemsKept, ever \subseteq ever', work'[Hop(a)].st # "absent" => work[Hop(a)].st # "absent" /\ work'[Hop(a)].attempts = work[Hop(a)].attempts
        PROVE  /\ Hop(a) \in ever'
               /\ work'[Hop(a)].st # "absent" => work'[Hop(a)].attempts = MaxAttempts
               /\ \A o \in Owners : \A i \in claimed'[o] : i.key = Hop(a) => i.attempts < MaxAttempts
    BY <2>0, <2>2 DEF ItemsKept
  <2>3. CASE Kept
    BY <2>1, <2>2, <2>3, <1>0 DEF Kept, RowsKept
  <2>4. ASSUME ItemsKept, NEW j \in Keys, Inserted(j)
        PROVE  work'[Hop(a)] = work[Hop(a)] /\ ever \subseteq ever'
    BY <2>0, <2>4, <1>0 DEF Inserted, Table
  <2>5. ASSUME NEW o \in Owners, Sweep(o)
        PROVE  /\ Hop(a) \in ever'
               /\ work'[Hop(a)].st # "absent" => work'[Hop(a)].attempts = MaxAttempts
               /\ \A p \in Owners : \A i \in claimed'[p] : i.key = Hop(a) => i.attempts < MaxAttempts
    <3>1. PICK S \in SUBSET Due(work) : Swept(o, S)
      BY <2>5, SweepsSweep
    <3>2. Hop(a) \notin S
      BY <3>1, <2>0, <1>0, <1>r, SweptRows
    <3>3. work'[Hop(a)] = work[Hop(a)] /\ ever' = ever
      BY <3>1, <3>2, <1>0, SweptRows DEF Swept
    <3>4. ASSUME NEW p \in Owners, NEW i \in claimed'[p], i.key = Hop(a) PROVE i \in claimed[p]
      BY <3>1, <3>2, <3>4, <1>0, SweptItems
    <3>5. QED
      BY <3>3, <3>4, <2>0
  <2>6. QED
    BY <2>1, <2>2, <2>3, <2>4, <2>5, Kinds DEF Adds
<1>2. CASE Notice(a) \notin ever
  <2>1. PICK o \in Owners :
          \E d \in doing[o] : /\ LastTry(d.item) /\ Notice(a) = Notice(d.item.key.ask)
                              /\ Goto(o, d.item, "release") /\ claimed' = claimed
    BY <1>0, <1>2, OffersChange DEF Relay, Hop, Notice
  <2>2. PICK d \in doing[o] : /\ LastTry(d.item) /\ d.item.key.ask = a
                              /\ Goto(o, d.item, "release") /\ claimed' = claimed
    BY <2>1 DEF Notice
  <2>3. d.item = last /\ last \in ItemsOf(o) /\ last \notin claimed[o]
    <3>1. d.item.key = Hop(a) /\ d.item.attempts = MaxAttempts /\ d.item \in Item
      BY <2>2, <1>0, InHand, AsksOfKeys DEF LastTry
    <3>2. QED
      BY <3>1, <1>0, Items DEF ItemsOf, HandedOutOnce
  <2>4. Hop(a) \in ever /\ (work[Hop(a)].st # "absent" => work[Hop(a)].attempts = MaxAttempts)
    BY <2>3, <1>0, <1>r DEF Known, HandedOutOnce, Fits
  <2>5. CASE ~ \E p \in Owners : Sweep(p)
    <3>1. work'[Hop(a)].st # "absent" => work'[Hop(a)].attempts = MaxAttempts
      <4>1. CASE Kept
        BY <4>1, <2>4, <1>0 DEF Kept, RowsKept
      <4>2. CASE Adds
        BY <4>2, <2>4, <1>0 DEF Adds, Inserted, Table
      <4>3. QED
        BY <4>1, <4>2, <2>5, Kinds
    <3>2. Hop(a) \in ever'
      BY <2>4, <2>5, Kinds DEF Kept, Adds, Inserted
    <3>3. ASSUME NEW p \in Owners, NEW i \in claimed'[p], i.key = Hop(a) PROVE i.attempts < MaxAttempts
      <4>1. i \in Item /\ i \in ItemsOf(p) /\ i \in claimed[p]
        BY <2>2, <3>3, <1>0 DEF Claims, ItemsOf
      <4>2. i # last
        BY <4>1, <2>3, <1>0 DEF HandedOutOnce
      <4>3. QED
        BY <4>1, <4>2, <3>3, Items
    <3>4. ASSUME NEW p \in Owners, NEW e \in doing'[p], e.item = last PROVE e.at = "release"
      <4>1. CASE p = o
        BY <4>1, <2>2, <3>4, <1>0 DEF Goto, At, Doings
      <4>2. CASE p # o
        <5>1. e \in doing[p]
          BY <4>2, <2>2, <3>4, <1>0 DEF Goto, Doings
        <5>2. last \in ItemsOf(p)
          BY <5>1, <3>4 DEF ItemsOf
        <5>3. QED
          BY <5>2, <4>2, <2>3, <1>0 DEF HandedOutOnce
      <4>3. QED
        BY <4>1, <4>2
    <3>5. QED
      BY <3>1, <3>2, <3>3, <3>4
  <2>6. CASE \E p \in Owners : Sweep(p)
    BY <2>6, <1>2, SweepsSweep DEF Swept
  <2>7. QED
    BY <2>5, <2>6
<1>3. QED
  BY <1>1, <1>2

\* A turn is begun by the one replica that has the item, and spends it.
LEMMA TurnsChange ==
  ASSUME TypeOK, [Next]_vars
  PROVE  \/ turns' = turns
         \/ \E o \in Owners : \E d \in doing[o] :
              /\ d.at = "deliver" /\ turns' = [turns EXCEPT ![d.item.key] = @ + 1]
              /\ claimed' = claimed /\ work' = work /\ ever' = ever
              /\ \E stage : stage # "deliver" /\ Goto(o, d.item, stage)
<1>1. CASE \E o \in Owners : Deliver(o)
  BY <1>1 DEF Deliver
<1>2. CASE ~ \E o \in Owners : Deliver(o)
  BY <1>2 DEF Next, Step, vars, trail, Send, Sweep, Begin, BeginThrows, Heartbeat, Finish, FinishThrows,
         OfferRelay, Record, Tell, Release, Crash, Converse, Reap, Tick
<1>3. QED
  BY <1>1, <1>2

LEMMA SpentItem ==
  ASSUME TypeOK, HandedOutOnce, Known, NEW o \in Owners, NEW d \in doing[o], d.at = "deliver",
         claimed' = claimed, work' = work, ever' = ever,
         NEW stage, stage # "deliver", Goto(o, d.item, stage)
  PROVE  /\ d.item.key \in Keys /\ d.item.attempts \in 1..MaxAttempts
         /\ Waiting(d.item.key, d.item.attempts)
         /\ ~Waiting(d.item.key, d.item.attempts)'
         /\ Passed(d.item.key, d.item.attempts)'
<1>0. Claims /\ Doings
  BY TypesApart
<1>1. /\ d.item \in Item /\ d.item.key \in Keys /\ d.item.attempts \in 1..MaxAttempts
      /\ d.item = [key |-> d.item.key, attempts |-> d.item.attempts]
  BY <1>0, InHand, Items
<1>2. d.item \in Unbegun(o) /\ d.item \in ItemsOf(o) /\ d.item \notin claimed[o]
  BY DEF Unbegun, ItemsOf, HandedOutOnce
<1>3. Waiting(d.item.key, d.item.attempts)
  BY <1>1, <1>2 DEF Waiting
<1>4. ASSUME NEW p \in Owners, d.item \in Unbegun(p)' PROVE FALSE
  <2>1. CASE p = o
    BY <2>1, <1>0, <1>2, <1>4 DEF Unbegun, Goto, At, Doings
  <2>2. CASE p # o
    <3>1. d.item \in ItemsOf(p)
      BY <2>2, <1>0, <1>4 DEF Unbegun, ItemsOf, Goto, Doings
    <3>2. QED
      BY <3>1, <2>2, <1>2 DEF HandedOutOnce
  <2>3. QED
    BY <2>1, <2>2
<1>5. ~Waiting(d.item.key, d.item.attempts)'
  BY <1>1, <1>4 DEF Waiting
<1>6. IF work'[d.item.key].st = "absent" THEN d.item.key \in ever'
                                         ELSE d.item.attempts <= work'[d.item.key].attempts
  BY <1>2 DEF Known, HandedOutOnce, Fits
<1>7. QED
  BY <1>1, <1>3, <1>5, <1>6 DEF Passed

\* What is past its turn stays so.
LEMMA PassedStaysPassed ==
  ASSUME IInv, [Next]_vars, NEW k \in Keys, NEW n \in 1..MaxAttempts, Passed(k, n)
  PROVE  Passed(k, n)'
<1> DEFINE i == [key |-> k, attempts |-> n]
<1>0. work \in Table /\ Claims /\ Doings /\ Known /\ HandedOutOnce
  BY TypesApart DEF IInv
<1>r. work[k] \in Row /\ work[k].attempts \in 0..MaxAttempts
  BY <1>0, RowFields DEF Table
<1>1. /\ \A o \in Owners : i \notin Unbegun(o)
      /\ IF work[k].st = "absent" THEN k \in ever ELSE n <= work[k].attempts
      /\ k \in ever
  BY <1>0 DEF Passed, Waiting, Known
<1>2. ASSUME ItemsKept PROVE ~Waiting(k, n)'
  BY <1>1, <1>2 DEF ItemsKept, Waiting
<1>3. CASE Kept
  BY <1>1, <1>2, <1>3 DEF Kept, RowsKept, Passed
<1>4. CASE Adds
  <2>1. PICK j \in Keys : Inserted(j)
    BY <1>4 DEF Adds
  <2>2. work'[k] = work[k] /\ k \in ever'
    BY <2>1, <1>0, <1>1 DEF Inserted, Table
  <2>3. QED
    BY <2>2, <1>1, <1>2, <1>4 DEF Adds, Passed
<1>5. ASSUME NEW o \in Owners, Sweep(o) PROVE Passed(k, n)'
  <2>1. PICK S \in SUBSET Due(work) : Swept(o, S)
    BY <1>5, SweepsSweep
  <2>2. CASE k \in S
    <3>1. /\ work[k].st = "open" /\ work'[k].st = "open" /\ n <= work[k].attempts
          /\ work'[k].attempts = work[k].attempts + 1
      BY <2>1, <2>2, <1>0, <1>1, SweptRows
    <3>2. ASSUME NEW p \in Owners, i \in Unbegun(p)' PROVE FALSE
      <4>1. p = o
        BY <2>1, <3>2, <1>0, <1>1, SweptItems
      <4>2. PICK j \in S : i = [key |-> j, attempts |-> work[j].attempts + 1]
        BY <2>1, <4>1, <3>2, <1>0, SweptItems
      <4>3. n = work[k].attempts + 1
        BY <4>2
      <4>4. QED
        BY <4>3, <3>1, <1>r
    <3>3. QED
      BY <3>1, <3>2, <1>r DEF Passed, Waiting
  <2>3. CASE k \notin S
    <3>1. work'[k] = work[k] /\ ever' = ever
      BY <2>1, <2>3, <1>0, SweptRows DEF Swept
    <3>2. ASSUME NEW p \in Owners, i \in Unbegun(p)' PROVE FALSE
      BY <2>1, <2>3, <3>2, <1>0, <1>1, SweptItems
    <3>3. QED
      BY <3>1, <3>2, <1>1 DEF Passed, Waiting
  <2>4. QED
    BY <2>2, <2>3
<1>6. QED
  BY <1>3, <1>4, <1>5, Kinds

LEMMA TurnsStayPassed == IInv /\ [Next]_vars => TurnsArePassed'
<1> SUFFICES ASSUME IInv, [Next]_vars, NEW k \in Keys
             PROVE  turns'[k] <= Cardinality({ n \in 1..MaxAttempts : Passed(k, n)' })
  BY DEF TurnsArePassed
<1> DEFINE old == { n \in 1..MaxAttempts : Passed(k, n) }
           new == { n \in 1..MaxAttempts : Passed(k, n)' }
<1>0. Claims /\ Doings /\ Trails /\ Known /\ HandedOutOnce /\ TypeOK
  BY TypesApart DEF IInv
<1>n. turns[k] \in Nat
  BY <1>0 DEF Trails
<1>1. turns[k] <= Cardinality(old)
  BY DEF IInv, TurnsArePassed
<1>2. IsFiniteSet(1..MaxAttempts)
  BY FS_Interval
<1>3. IsFiniteSet(new) /\ IsFiniteSet(old)
  BY <1>2, FS_Subset
<1>4. Cardinality(new) \in Nat /\ Cardinality(old) \in Nat
  BY <1>3, FS_CardinalityType
<1>5. old \subseteq new
  BY PassedStaysPassed
<1> HIDE DEF old, new
<1>6. Cardinality(old) <= Cardinality(new)
  BY <1>3, <1>5, FS_Subset
<1>7. ASSUME turns'[k] = turns[k] PROVE turns'[k] <= Cardinality(new)
  <2>1. ASSUME NEW x, NEW y \in Nat, NEW b \in Nat, NEW c \in Nat, x = y, y <= b, b <= c PROVE x <= c
    BY <2>1
  <2>2. QED
    BY <2>1, <1>n, <1>1, <1>4, <1>6, <1>7
<1>8. ASSUME turns'[k] # turns[k] PROVE turns'[k] <= Cardinality(new)
  <2>1. PICK o \in Owners :
          \E d \in doing[o] :
            /\ d.at = "deliver" /\ turns' = [turns EXCEPT ![d.item.key] = @ + 1]
            /\ claimed' = claimed /\ work' = work /\ ever' = ever
            /\ \E stage : stage # "deliver" /\ Goto(o, d.item, stage)
    BY <1>0, <1>8, TurnsChange
  <2>2. PICK d \in doing[o] :
          /\ d.at = "deliver" /\ turns' = [turns EXCEPT ![d.item.key] = @ + 1]
          /\ claimed' = claimed /\ work' = work /\ ever' = ever
          /\ \E stage : stage # "deliver" /\ Goto(o, d.item, stage)
    BY <2>1
  <2>3. d.item.key = k /\ turns'[k] = turns[k] + 1
    BY <2>2, <1>0, <1>8, InHand DEF Trails
  <2>4. d.item.attempts \in new /\ d.item.attempts \notin old
    BY <2>2, <2>3, <1>0, SpentItem DEF old, new, Passed
  <2>5. Cardinality(old \union {d.item.attempts}) = Cardinality(old) + 1
    BY <2>4, <1>3, FS_AddElement
  <2>6. old \union {d.item.attempts} \subseteq new
    BY <2>4, <1>5
  <2>7. Cardinality(old \union {d.item.attempts}) <= Cardinality(new)
    BY <2>6, <1>3, FS_Subset
  <2>8. QED
    <3>1. ASSUME NEW x, NEW y \in Nat, NEW b \in Nat, NEW c \in Nat, x = y + 1, y <= b, b + 1 <= c PROVE x <= c
      BY <3>1
    <3>2. turns[k] <= Cardinality(old) /\ Cardinality(old) + 1 <= Cardinality(new)
      BY <2>5, <2>7, <1>1
    <3>3. QED
      BY <3>1, <3>2, <2>3, <1>n, <1>4
<1>9. turns'[k] <= Cardinality(new)
  BY <1>7, <1>8
<1>10. QED
  BY <1>9 DEF new

\* Of a row that is there, no attempt is past its turn before it is handed out.
LEMMA FreshRowsHadNoTurn ==
  ASSUME IInv, NEW k \in Keys, work[k].st = "open", work[k].attempts = 0
  PROVE  ~(turns[k] > 0)
<1>1. turns[k] \in Nat /\ turns[k] <= Cardinality({ n \in 1..MaxAttempts : Passed(k, n) })
  BY DEF IInv, TypeOK, TurnsArePassed
<1>2. { n \in 1..MaxAttempts : Passed(k, n) } = {}
  BY DEF Passed
<1>3. QED
  BY <1>1, <1>2, FS_EmptySet

LEMMA RetriedStaysOnRecord == IInv /\ [Next]_vars => RetriedIsOnRecord'
<1> SUFFICES ASSUME IInv, [Next]_vars PROVE RetriedIsOnRecord'
  OBVIOUS
<1>0. /\ work \in Table /\ Claims /\ Doings /\ Trails /\ Known /\ HandedOutOnce /\ RetriedIsOnRecord /\ TypeOK
  BY TypesApart DEF IInv
<1>1. retried \subseteq retried'
  <2>1. CASE (\E a \in Asks : Send(a)) \/ Converse \/ Reap \/ Tick \/ UNCHANGED vars
    BY <2>1 DEF vars, trail, Send, Converse, Reap, Tick
  <2>2. ASSUME NEW o \in Owners, Sweep(o) \/ Heartbeat(o) \/ BeginThrows(o) \/ FinishThrows(o) \/ Crash(o)
        PROVE  retried \subseteq retried'
    BY <2>2 DEF trail, Sweep, Heartbeat, BeginThrows, FinishThrows, Crash
  <2>3. ASSUME NEW o \in Owners, Begin(o) \/ Deliver(o) \/ Finish(o) PROVE retried \subseteq retried'
    BY <2>3 DEF trail, Begin, Deliver, Finish
  <2>4. ASSUME NEW o \in Owners, OfferRelay(o) \/ Record(o) \/ Tell(o) \/ Release(o)
        PROVE  retried \subseteq retried'
    BY <2>4 DEF trail, OfferRelay, Record, Tell, Release
  <2>5. QED
    BY <2>1, <2>2, <2>3, <2>4 DEF Next, Step
<1>2. ASSUME NEW o \in Owners, NEW d \in doing'[o], d.item.attempts > 1 PROVE d.item.key \in retried'
  BY <1>0, <1>1, <1>2, DoingGoesOn DEF RetriedIsOnRecord
<1>3. ASSUME NEW k \in Keys \ retried' PROVE turns'[k] <= 1 /\ (turns'[k] > 0 => ~Waiting(k, 1)')
  <2>0. k \notin retried /\ turns[k] \in Nat /\ turns[k] <= 1 /\ (turns[k] > 0 => ~Waiting(k, 1))
    BY <1>0, <1>1, <1>3 DEF RetriedIsOnRecord, Trails
  <2>1. CASE turns'[k] = turns[k]
    <3>1. ASSUME turns[k] > 0 PROVE ~Waiting(k, 1)'
      <4>1. CASE ItemsKept
        BY <4>1, <3>1, <2>0 DEF ItemsKept, Waiting
      <4>2. ASSUME NEW o \in Owners, Sweep(o), NEW p \in Owners, [key |-> k, attempts |-> 1] \in Unbegun(p)'
            PROVE  FALSE
        <5>1. PICK S \in SUBSET Due(work) : Swept(o, S)
          BY <4>2, SweepsSweep
        <5>2. p = o
          BY <5>1, <4>2, <3>1, <2>0, <1>0, SweptItems DEF Waiting
        <5>3. PICK j \in S : [key |-> k, attempts |-> 1] = [key |-> j, attempts |-> work[j].attempts + 1]
          BY <5>1, <5>2, <4>2, <1>0, SweptItems
        <5>4. k \in S /\ work[k].attempts + 1 = 1
          BY <5>3
        <5>5. work[k].st = "open" /\ work[k].attempts = 0
          BY <5>1, <5>4, <1>0, SweptRows, RowFields DEF Table
        <5>6. QED
          BY <5>5, <3>1, FreshRowsHadNoTurn
      <4>3. QED
        BY <4>1, <4>2, Kinds DEF Kept, Adds, Waiting
    <3>2. QED
      BY <2>0, <2>1, <3>1
  <2>2. CASE turns'[k] # turns[k]
    <3>1. PICK o \in Owners :
            \E d \in doing[o] :
              /\ d.at = "deliver" /\ turns' = [turns EXCEPT ![d.item.key] = @ + 1]
              /\ claimed' = claimed /\ work' = work /\ ever' = ever
              /\ \E stage : stage # "deliver" /\ Goto(o, d.item, stage)
      BY <1>0, <2>2, TurnsChange
    <3>2. PICK d \in doing[o] :
            /\ d.at = "deliver" /\ turns' = [turns EXCEPT ![d.item.key] = @ + 1]
            /\ claimed' = claimed /\ work' = work /\ ever' = ever
            /\ \E stage : stage # "deliver" /\ Goto(o, d.item, stage)
      BY <3>1
    <3>3. d.item.key = k /\ turns'[k] = turns[k] + 1
      BY <3>2, <1>0, <2>2, InHand DEF Trails
    <3>4. d.item.attempts = 1
      BY <3>3, <2>0, <1>0, InHand DEF RetriedIsOnRecord
    <3>5. Waiting(k, 1) /\ ~Waiting(k, 1)'
      BY <3>2, <3>3, <3>4, <1>0, SpentItem
    <3>6. QED
      BY <3>3, <3>5, <2>0
  <2>3. QED
    BY <2>1, <2>2
<1>4. QED
  BY <1>2, <1>3 DEF RetriedIsOnRecord

-----------------------------------------------------------------------------
(* The theorems.                                                           *)

LEMMA Initially == Init => IInv
<1> SUFFICES ASSUME Init PROVE IInv
  OBVIOUS
<1>1. TypeOK
  BY TypesInitially
<1>2. \A k \in Keys : work[k].st = "absent" /\ turns[k] = 0 /\ reports[k] = 0
  BY DEF Init, EmptyTable, NoRow
<1>3. ever = {} /\ retried = {} /\ \A o \in Owners : claimed[o] = {} /\ doing[o] = {}
  BY DEF Init
<1>4. \A o \in Owners : ItemsOf(o) = {} /\ Unbegun(o) = {}
  BY <1>3 DEF ItemsOf, Unbegun
<1>5. Known /\ HandedOutOnce /\ ReportedOnce
  BY <1>2, <1>3, <1>4 DEF Known, HandedOutOnce, ReportedOnce
<1>6. RelayedOnce /\ NoticedLast
  BY <1>3 DEF RelayedOnce, NoticedLast
<1>7. RetriedIsOnRecord
  BY <1>2, <1>3 DEF RetriedIsOnRecord
<1>8. TurnsArePassed
  <2>1. ASSUME NEW k \in Keys
        PROVE  turns[k] <= Cardinality({ n \in 1..MaxAttempts : Passed(k, n) })
    <3> DEFINE S == { n \in 1..MaxAttempts : Passed(k, n) }
    <3>0. IsFiniteSet(1..MaxAttempts) /\ S \subseteq 1..MaxAttempts
      BY FS_Interval
    <3>1. IsFiniteSet(S)
      BY <3>0, FS_Subset
    <3>2. Cardinality(S) \in Nat
      BY <3>1, FS_CardinalityType
    <3>3. turns[k] = 0
      BY <1>2
    <3> HIDE DEF S
    <3>4. turns[k] <= Cardinality(S)
      BY <3>2, <3>3
    <3>5. QED
      BY <3>4 DEF S
  <2>2. QED
    BY <2>1 DEF TurnsArePassed
<1>9. QED
  BY <1>1, <1>5, <1>6, <1>7, <1>8 DEF IInv

LEMMA Inductive == IInv /\ [Next]_vars => IInv'
<1>1. IInv => TypeOK
  BY DEF IInv
<1>2. QED
  BY <1>1, TypesAreKept, KnownIsKept, HandingOutOnceIsKept, ReportingOnceIsKept, RelayingOnceIsKept,
     NoticingLastIsKept, RetriedStaysOnRecord, TurnsStayPassed DEF IInv

\* What the properties rest on: the inductive invariant of handoff-runner.ts over the queue's statements.
THEOREM HandoffInvariant == Spec => []IInv
  BY Initially, Inductive, PTL DEF Spec

\* The rows, the items in hand and the histories stay what they are declared to be.
THEOREM TypesHold == Spec => []TypeOK
<1>1. IInv => TypeOK
  BY DEF IInv
<1>2. QED
  BY <1>1, HandoffInvariant, PTL

\* Whoever ran a hop, one replica at most reports it delivered (finish, work-queue.ts).
THEOREM OneReportHolds == Spec => []OneReport
<1>1. IInv => OneReport
  BY DEF IInv, ReportedOnce, OneReport
<1>2. QED
  BY <1>1, HandoffInvariant, PTL

\* A hop costs no more turns than claim hands out attempts, whatever fails, stalls or dies.
THEOREM TurnsAreBoundedHolds == Spec => []TurnsAreBounded
<1>1. IInv => TurnsAreBounded
  <2> SUFFICES ASSUME IInv, NEW k \in Keys PROVE turns[k] <= MaxAttempts
    BY DEF TurnsAreBounded
  <2> DEFINE S == { n \in 1..MaxAttempts : Passed(k, n) }
  <2>1. turns[k] \in Nat
    BY TypesApart DEF IInv, Trails
  <2>2. turns[k] <= Cardinality(S)
    BY DEF IInv, TurnsArePassed
  <2>3. IsFiniteSet(1..MaxAttempts) /\ Cardinality(1..MaxAttempts) = MaxAttempts
    BY FS_Interval
  <2>4. S \subseteq 1..MaxAttempts
    OBVIOUS
  <2> HIDE DEF S
  <2>5. IsFiniteSet(S) /\ Cardinality(S) <= MaxAttempts
    BY <2>3, <2>4, FS_Subset
  <2>6. Cardinality(S) \in Nat
    BY <2>5, FS_CardinalityType
  <2>7. QED
    BY <2>1, <2>2, <2>5, <2>6
<1>2. QED
  BY <1>1, HandoffInvariant, PTL

\* The second turn for a key comes after its agent.handoff_retried row, or another replica's.
THEOREM SecondTurnIsOnRecordHolds == Spec => []SecondTurnIsOnRecord
<1>1. IInv => SecondTurnIsOnRecord
  <2> SUFFICES ASSUME IInv, NEW k \in Keys, turns[k] > 1 PROVE k \in retried
    BY DEF SecondTurnIsOnRecord
  <2>1. turns[k] \in Nat
    BY TypesApart DEF IInv, Trails
  <2>2. QED
    BY <2>1 DEF IInv, RetriedIsOnRecord
<1>2. QED
  BY <1>1, HandoffInvariant, PTL

(* A hop with a notice is never handed out again, and who may still run    *)
(* its turn lost the row: the gate of tell and claim's ceiling in          *)
(* handoff-runner.ts.                                                      *)
THEOREM NoticeIsFinalHolds == Spec => []NoticeIsFinal
<1>1. IInv => NoticeIsFinal
  <2> SUFFICES ASSUME IInv, NEW a \in Asks, Notice(a) \in ever
               PROVE  /\ work[Hop(a)].st = "open" => work[Hop(a)].attempts = MaxAttempts
                      /\ \A o \in Owners : \A i \in Unbegun(o) : i.key = Hop(a) =>
                           i.attempts < MaxAttempts /\ ~Ours(work, Hop(a), o)
    BY DEF NoticeIsFinal
  <2>1. /\ work[Hop(a)].st # "absent" => work[Hop(a)].attempts = MaxAttempts
        /\ \A o \in Owners : /\ \A i \in claimed[o] : i.key = Hop(a) => i.attempts < MaxAttempts
                             /\ \A d \in doing[o] : d.item = [key |-> Hop(a), attempts |-> MaxAttempts]
                                                     => d.at = "release"
    BY DEF IInv, NoticedLast
  <2>2. ASSUME NEW o \in Owners, NEW i \in Unbegun(o), i.key = Hop(a)
        PROVE  i.attempts < MaxAttempts /\ ~Ours(work, Hop(a), o)
    <3>1. i \in ItemsOf(o) /\ i \in Item /\ MaxAttempts \in Nat
      <4>1. Claims /\ Doings
        BY TypesApart DEF IInv
      <4>2. QED
        BY <4>1, <2>2 DEF Unbegun, ItemsOf, Claims, Doings, Work
    <3>2. i.attempts < MaxAttempts
      <4>1. CASE i \in claimed[o]
        BY <4>1, <2>1, <2>2
      <4>2. CASE i \notin claimed[o]
        <5>1. PICK d \in doing[o] : d.at = "deliver" /\ d.item = i
          BY <4>2, <2>2 DEF Unbegun
        <5>2. i # [key |-> Hop(a), attempts |-> MaxAttempts]
          BY <5>1, <2>1
        <5>3. i.attempts \in 1..MaxAttempts /\ i = [key |-> i.key, attempts |-> i.attempts]
          BY <3>1 DEF Item
        <5>4. i.attempts # MaxAttempts
          BY <5>2, <5>3, <2>2
        <5>5. QED
          BY <5>3, <5>4, <3>1
      <4>3. QED
        BY <4>1, <4>2
    <3>3. Ours(work, Hop(a), o) => i.attempts = work[Hop(a)].attempts /\ work[Hop(a)].st # "absent"
      BY <3>1, <2>2 DEF IInv, HandedOutOnce, Fits, Ours
    <3>4. QED
      BY <3>1, <3>2, <3>3, <2>1
  <2>3. QED
    BY <2>1, <2>2
<1>2. QED
  BY <1>1, HandoffInvariant, PTL
-----------------------------------------------------------------------------
(* A notice is true where the database answers. A hop reported on its last *)
(* attempt is in the hands of the replica that reported it, on its way to  *)
(* its record, so nobody else can reach the notice.                        *)

LastIsCarried ==
  \A o \in Owners : \A i \in ItemsOf(o) :
    i.attempts = MaxAttempts /\ reports[i.key] > 0
      => \E d \in doing[o] : d.item = i /\ d.at \in {"relay", "record"}

AnswersAreReported == \A a \in answered : reports[Hop(a)] > 0

LEMMA CarryingGoesOn ==
  ASSUME "audit" \notin Failing, "queue" \notin Failing, TypeOK, [Next]_vars,
         NEW o \in Owners, NEW d \in doing[o], d.at \in {"relay", "record"}, NEW e \in doing'[o]
  PROVE  e.item = d.item /\ e.at \in {"relay", "record"}
<1> DEFINE Goes == e.item = d.item /\ e.at \in {"relay", "record"}
<1>0. Doings /\ doing[o] = {d}
  BY TypesApart, InHand
<1>1. ASSUME NEW q \in Owners, q # o, doing' = doing \/ Clear(q) \/ (\E i, stage : Goto(q, i, stage)) \/ Begin(q)
      PROVE  Goes
  BY <1>0, <1>1 DEF Clear, Goto, Doings, Begin
<1>2. CASE doing' = doing
  BY <1>0, <1>2
<1>3. ASSUME Clear(o) PROVE Goes
  BY <1>0, <1>3 DEF Clear, Doings
<1>4. ASSUME Goto(o, d.item, "record") PROVE Goes
  BY <1>0, <1>4 DEF Goto, At, Doings
<1>5. ASSUME NEW q \in Owners, Step(q) PROVE Goes
  <2>1. CASE q # o
    BY <1>1, <1>5, <2>1 DEF Step, Deliver, Finish, OfferRelay, Record, Tell, Release
  <2>2. CASE q = o
    BY <1>0, <1>3, <1>4, <1>5, <2>2
       DEF Step, Begin, Deliver, Finish, OfferRelay, Record, Tell, Release, Fault
  <2>3. QED
    BY <2>1, <2>2
<1>6. ASSUME NEW q \in Owners, Crash(q) PROVE Goes
  BY <1>1, <1>3, <1>6 DEF Crash
<1>7. QED
  BY <1>2, <1>5, <1>6
     DEF Next, vars, Send, Sweep, Heartbeat, BeginThrows, FinishThrows, Fault, Converse, Reap, Tick

LEMMA CarryingIsKept ==
  ASSUME "audit" \notin Failing, "queue" \notin Failing, IInv, LastIsCarried, [Next]_vars
  PROVE  LastIsCarried'
<1> SUFFICES ASSUME NEW o \in Owners, NEW i \in ItemsOf(o)', i.attempts = MaxAttempts, reports'[i.key] > 0
             PROVE  \E d \in doing'[o] : d.item = i /\ d.at \in {"relay", "record"}
  BY DEF LastIsCarried
<1>0. /\ work \in Table /\ Claims /\ Doings /\ Trails /\ Known /\ HandedOutOnce /\ ReportedOnce /\ TypeOK
      /\ Claims' /\ Doings'
  BY TypesApart, TypesApartNext, TypesAreKept DEF IInv
<1>i. i \in Item /\ i.key \in Keys
  BY <1>0, InHand, Items DEF ItemsOf, Claims, Doings, Work
<1>1. CASE reports'[i.key] = reports[i.key] /\ i \in ItemsOf(o)
  <2>1. PICK d \in doing[o] : d.item = i /\ d.at \in {"relay", "record"}
    BY <1>1 DEF LastIsCarried
  <2>2. i \notin claimed'[o]
    <3>1. i \notin claimed[o]
      BY <2>1, <1>0 DEF HandedOutOnce
    <3>2. CASE ItemsKept
      BY <3>1, <3>2 DEF ItemsKept
    <3>3. ASSUME NEW q \in Owners, Sweep(q) PROVE i \notin claimed'[o]
      <4>1. q # o
        BY <2>1, <3>3 DEF Sweep, Idle
      <4>2. QED
        BY <4>1, <3>1, <3>3, <1>0, SweepsSweep, SweptItems
    <3>4. QED
      BY <3>2, <3>3, Kinds DEF Kept, Adds
  <2>3. PICK e \in doing'[o] : e.item = i
    BY <2>2 DEF ItemsOf
  <2>4. QED
    BY <2>1, <2>3, <1>0, CarryingGoesOn
<1>2. CASE reports'[i.key] = reports[i.key] /\ i \notin ItemsOf(o)
  <2>1. PICK q \in Owners : Sweep(q)
    BY <1>2, Kinds DEF Kept, Adds, ItemsKept
  <2>2. PICK S \in SUBSET Due(work) : Swept(q, S)
    BY <2>1, SweepsSweep
  <2>3. i.key \in S
    BY <2>2, <1>0, <1>2, SweptItems
  <2>4. QED
    BY <2>2, <2>3, <1>0, <1>2, <1>i, SweptRows DEF ReportedOnce
<1>3. CASE reports'[i.key] # reports[i.key]
  <2>1. PICK q \in Owners :
          \E d \in doing[q] :
            /\ Ours(work, d.item.key, q)
            /\ reports' = [reports EXCEPT ![d.item.key] = @ + 1]
            /\ Goto(q, d.item, AfterTurn(d.item, d.at))
    BY <1>0, <1>3, ReportsChange
  <2>2. PICK d \in doing[q] :
          /\ Ours(work, d.item.key, q)
          /\ reports' = [reports EXCEPT ![d.item.key] = @ + 1]
          /\ Goto(q, d.item, AfterTurn(d.item, d.at))
    BY <2>1
  <2>3. d.item.key = i.key
    BY <2>2, <1>0, <1>3, <1>i, InHand DEF Trails
  <2>4. i \in ItemsOf(o)
    <3>1. \A p \in Owners : ~Sweep(p)
      BY <1>3 DEF Sweep, trail
    <3>2. QED
      BY <3>1, Kinds DEF Kept, Adds, ItemsKept
  <2>5. d.item.attempts = MaxAttempts
    <3>1. /\ work[i.key].st = "open" /\ i.attempts <= work[i.key].attempts
          /\ d.item.attempts = work[i.key].attempts
      BY <2>2, <2>3, <2>4, <1>0 DEF HandedOutOnce, Fits, Ours, ItemsOf
    <3>2. d.item.attempts \in 1..MaxAttempts
      BY <1>0, InHand
    <3>3. QED
      BY <3>1, <3>2
  <2>6. d.item = i
    BY <2>3, <2>5, <1>0, <1>i, InHand, Items
  <2>7. o = q
    BY <2>4, <2>6, <1>0 DEF HandedOutOnce, ItemsOf
  <2>8. At(d.item, AfterTurn(d.item, d.at)) \in doing'[o]
    BY <2>2, <2>7, <1>0 DEF Goto, Doings
  <2>9. QED
    BY <2>6, <2>8 DEF At, AfterTurn
<1>4. QED
  BY <1>1, <1>2, <1>3

LEMMA AnswersStayReported ==
  ASSUME IInv, AnswersAreReported, [Next]_vars
  PROVE  AnswersAreReported'
<1>0. Doings /\ Trails /\ TypeOK
  BY TypesApart DEF IInv
<1>1. CASE UNCHANGED <<reports, answered>>
  BY <1>1 DEF AnswersAreReported
<1>2. ASSUME NEW o \in Owners, NEW d \in doing[o],
             reports' = [reports EXCEPT ![d.item.key] = @ + 1],
             answered' = IF Forward(d.item.key) /\ d.at = "worded"
                         THEN answered \union {d.item.key.ask} ELSE answered,
             NEW a \in answered'
      PROVE  reports'[Hop(a)] > 0
  <2>1. d.item.key \in Keys /\ reports[d.item.key] \in Nat /\ reports'[d.item.key] = reports[d.item.key] + 1
    BY <1>0, <1>2, InHand DEF Trails
  <2>2. CASE a \in answered
    <3>1. Hop(a) \in Keys /\ reports[Hop(a)] > 0 /\ reports[Hop(a)] \in Nat
      BY <2>2, <1>0, KeysOfAsks DEF AnswersAreReported, Trails
    <3>2. QED
      BY <3>1, <2>1, <1>2, <1>0 DEF Trails
  <2>3. CASE a \notin answered
    <3>1. Hop(a) = d.item.key
      BY <1>2, <2>1, <2>3, AsksOfKeys
    <3>2. QED
      BY <3>1, <2>1
  <2>4. QED
    BY <2>2, <2>3
<1>3. QED
  BY <1>1, <1>2, <1>0, ReportsChange DEF AnswersAreReported

LEMMA NoticesStayTrue ==
  ASSUME IInv, LastIsCarried, [Next]_vars, NEW a \in Asks, Notice(a) \in ever',
         Notice(a) \in ever => reports[Hop(a)] = 0
  PROVE  reports'[Hop(a)] = 0
<1> DEFINE last == [key |-> Hop(a), attempts |-> MaxAttempts]
<1>0. /\ work \in Table /\ Claims /\ Doings /\ Trails /\ HandedOutOnce /\ NoticedLast /\ TypeOK
      /\ Hop(a) \in Keys
  BY TypesApart, KeysOfAsks DEF IInv
<1>1. CASE Notice(a) \in ever
  <2>1. reports[Hop(a)] = 0
    BY <1>1
  <2>2. ASSUME NEW o \in Owners, NEW d \in doing[o], d.at \in {"worded", "wordless"},
               Ours(work, d.item.key, o), d.item.key = Hop(a)
        PROVE  FALSE
    <3>1. d.item.attempts = MaxAttempts
      <4>1. d.item \in ItemsOf(o) /\ work[Hop(a)].st = "open"
        BY <2>2 DEF ItemsOf, Ours
      <4>2. d.item.attempts = work[d.item.key].attempts
        BY <4>1, <2>2, <1>0 DEF HandedOutOnce, Fits
      <4>3. work[Hop(a)].attempts = MaxAttempts
        BY <4>1, <1>0, <1>1 DEF NoticedLast
      <4>4. QED
        BY <4>2, <4>3, <2>2
    <3>2. d.item = last
      BY <3>1, <2>2, <1>0, InHand, Items
    <3>3. QED
      BY <3>2, <2>2, <1>0, <1>1 DEF NoticedLast
  <2>3. ASSUME NEW o \in Owners, NEW d \in doing[o], d.item.key # Hop(a),
               reports' = [reports EXCEPT ![d.item.key] = @ + 1]
        PROVE  reports'[Hop(a)] = reports[Hop(a)]
    BY <2>3, <1>0, InHand DEF Trails
  <2>4. QED
    BY <2>1, <2>2, <2>3, <1>0, ReportsChange
<1>2. CASE Notice(a) \notin ever
  <2>1. PICK o \in Owners :
          \E d \in doing[o] : /\ d.at = "failing" /\ LastTry(d.item)
                              /\ Notice(a) = Notice(d.item.key.ask) /\ reports' = reports
    BY <1>0, <1>2, OffersChange DEF Relay, Hop, Notice
  <2>2. PICK d \in doing[o] : /\ d.at = "failing" /\ LastTry(d.item)
                              /\ d.item.key.ask = a /\ reports' = reports
    BY <2>1 DEF Notice
  <2>3. d.item.key = Hop(a) /\ d.item.attempts = MaxAttempts
    BY <2>2, <1>0, InHand, AsksOfKeys DEF LastTry
  <2>4. ~(reports[Hop(a)] > 0)
    BY <2>2, <2>3, <1>0 DEF LastIsCarried, ItemsOf, Doings
  <2>5. QED
    BY <2>2, <2>4, <1>0 DEF Trails
<1>3. QED
  BY <1>1, <1>2

\* A person told that nothing came back was told the truth, where only Bots fail and replicas stall and die.
THEOREM NoticeIsTrueHolds ==
  ASSUME "audit" \notin Failing, "queue" \notin Failing
  PROVE  Spec => []NoticeIsTrue
<1> DEFINE J == IInv /\ LastIsCarried /\ AnswersAreReported /\ NoticeIsTrue
<1>1. Init => J
  <2> SUFFICES ASSUME Init PROVE J
    OBVIOUS
  <2>1. IInv
    BY Initially
  <2>2. \A o \in Owners : ItemsOf(o) = {}
    BY DEF Init, ItemsOf
  <2>3. answered = {} /\ ever = {}
    BY DEF Init
  <2>4. QED
    BY <2>1, <2>2, <2>3 DEF LastIsCarried, AnswersAreReported, NoticeIsTrue
<1>2. J /\ [Next]_vars => J'
  <2> SUFFICES ASSUME J, [Next]_vars PROVE J'
    OBVIOUS
  <2>1. IInv'
    BY Inductive
  <2>2. LastIsCarried' /\ AnswersAreReported'
    BY CarryingIsKept, AnswersStayReported
  <2>3. ASSUME NEW a \in Asks, Notice(a) \in ever'
        PROVE  a \notin answered' /\ reports'[Hop(a)] = 0
    <3>1. reports'[Hop(a)] = 0
      BY <2>3, NoticesStayTrue DEF NoticeIsTrue
    <3>2. QED
      BY <3>1, <2>2 DEF AnswersAreReported
  <2>4. QED
    BY <2>1, <2>2, <2>3 DEF NoticeIsTrue
<1>3. J => NoticeIsTrue
  OBVIOUS
<1>4. QED
  BY <1>1, <1>2, <1>3, PTL DEF Spec
=============================================================================
