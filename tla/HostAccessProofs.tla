--------------------------- MODULE HostAccessProofs ---------------------------
(***************************************************************************)
(* What the broker and the desktop keep between them, for any asks, calls  *)
(* and stops: the types and the broker's order, that a call's command is   *)
(* started once, that what was canceled is over, and that the two of them  *)
(* are the loan of FolderLoan.                                             *)
(***************************************************************************)
EXTENDS HostAccess, TLAPS

USE HostAssumption
USE DEF vars, server, loop, memory, workers, Sound

-----------------------------------------------------------------------------
LEMMA ItemsDiffer ==
  /\ \A o, p : (Op(o) = Op(p) => o = p) /\ (Cancel(o) = Cancel(p) => o = p) /\ Op(o) # Cancel(p)
  /\ \A o : Op(o)[1] = "op" /\ Op(o)[2] = o /\ Cancel(o)[1] = "cancel" /\ Cancel(o)[2] = o
  /\ \A o : Op(o) # <<>> /\ Cancel(o) # <<>>
  /\ \A o \in Ops : Op(o) \in Items /\ Cancel(o) \in Items
  /\ \A i \in Items : i[1] = "op" => i[2] \in Ops /\ i = Op(i[2])
  /\ \A i \in Items : i[1] = "cancel" => i[2] \in Ops /\ i = Cancel(i[2])
  /\ \A i \in Items : i[1] \in {"op", "cancel", "stop"}
  BY DEF Op, Cancel, Items

(* The order of the broker's Map.                                          *)

LEMMA OrderPut ==
  ASSUME NEW Q, NEW r, Ordered(Q, r), NEW i, i \notin Q
  PROVE  Ordered(Q \union {i}, r \union (Q \X {i}))
  BY DEF Ordered

LEMMA OrderAmong ==
  ASSUME NEW Q, NEW r, Ordered(Q, r), NEW P, P \subseteq Q
  PROVE  Ordered(P, Among(P, r))
  BY DEF Ordered, Among

LEMMA OrderFail ==
  ASSUME NEW S \in SUBSET Ops, Ordered(queue, before),
         \A o \in S : Op(o) \in queue => Cancel(o) \notin queue
  PROVE  Ordered(Failed(S), Reordered(S))
<1> DEFINE K == Kept(S)
           C == { Cancel(o) : o \in Cut(S) }
           R == { <<Cancel(p[1]), Cancel(p[2])>> :
                    p \in { q \in Cut(S) \X Cut(S) : <<Op(q[1]), Op(q[2])>> \in before } }
<1>1. Ordered(K, Among(K, before))
  BY OrderAmong DEF Kept
<1>2. K \intersect C = {}
  BY DEF Kept, Cut
<1>3. R \subseteq C \X C
  <2> SUFFICES ASSUME NEW q \in Cut(S) \X Cut(S)
               PROVE  <<Cancel(q[1]), Cancel(q[2])>> \in C \X C
    OBVIOUS
  <2>1. q[1] \in Cut(S) /\ q[2] \in Cut(S)
    OBVIOUS
  <2>2. Cancel(q[1]) \in C /\ Cancel(q[2]) \in C
    BY <2>1
  <2>3. QED
    BY <2>2
<1>4. ASSUME NEW o \in Cut(S), NEW p \in Cut(S)
      PROVE  <<Cancel(o), Cancel(p)>> \in R <=> <<Op(o), Op(p)>> \in before
  <2>1. CASE <<Op(o), Op(p)>> \in before
    <3>1. <<o, p>> \in { q \in Cut(S) \X Cut(S) : <<Op(q[1]), Op(q[2])>> \in before }
      BY <1>4, <2>1
    <3>2. Cancel(<<o, p>>[1]) = Cancel(o) /\ Cancel(<<o, p>>[2]) = Cancel(p)
      OBVIOUS
    <3>3. QED
      BY <3>1, <3>2, Zenon
  <2>2. ASSUME <<Cancel(o), Cancel(p)>> \in R
        PROVE  <<Op(o), Op(p)>> \in before
    <3>1. PICK q \in Cut(S) \X Cut(S) :
            <<Op(q[1]), Op(q[2])>> \in before /\ <<Cancel(o), Cancel(p)>> = <<Cancel(q[1]), Cancel(q[2])>>
      BY <2>2
    <3>2. o = q[1] /\ p = q[2]
      BY <3>1, ItemsDiffer
    <3>3. QED
      BY <3>1, <3>2
  <2>3. QED
    BY <2>1, <2>2
<1>5. Ordered(C, R)
  <2>1. \A o \in Cut(S) : Op(o) \in queue
    BY DEF Cut
  <2>2. \A o, p \in Cut(S) : Op(o) = Op(p) => o = p
    BY ItemsDiffer
  <2>3. \A i \in C : \E o \in Cut(S) : i = Cancel(o)
    OBVIOUS
  <2> HIDE DEF C, R
  <2>4. ASSUME NEW i \in C, NEW j \in C
        PROVE  /\ <<i, j>> \in R => <<j, i>> \notin R
               /\ i = j \/ <<i, j>> \in R \/ <<j, i>> \in R
    <3>1. PICK o \in Cut(S) : i = Cancel(o)
      BY <2>3
    <3>2. PICK p \in Cut(S) : j = Cancel(p)
      BY <2>3
    <3>3. Op(o) \in queue /\ Op(p) \in queue
      BY <2>1
    <3>4. /\ <<Op(o), Op(p)>> \in before => <<Op(p), Op(o)>> \notin before
          /\ Op(o) = Op(p) \/ <<Op(o), Op(p)>> \in before \/ <<Op(p), Op(o)>> \in before
      BY <3>3 DEF Ordered
    <3>5. /\ <<i, j>> \in R <=> <<Op(o), Op(p)>> \in before
          /\ <<j, i>> \in R <=> <<Op(p), Op(o)>> \in before
      BY <1>4, <3>1, <3>2
    <3>6. QED
      BY <3>1, <3>2, <3>4, <3>5, ItemsDiffer
  <2>5. ASSUME NEW i \in C, NEW j \in C, NEW k \in C, <<i, j>> \in R, <<j, k>> \in R
        PROVE  <<i, k>> \in R
    <3>1. PICK o \in Cut(S) : i = Cancel(o)
      BY <2>3
    <3>2. PICK p \in Cut(S) : j = Cancel(p)
      BY <2>3
    <3>3. PICK q \in Cut(S) : k = Cancel(q)
      BY <2>3
    <3>4. <<Op(o), Op(p)>> \in before /\ <<Op(p), Op(q)>> \in before
      BY <1>4, <2>5, <3>1, <3>2, <3>3
    <3>5. <<Op(o), Op(q)>> \in before
      BY <2>1, <3>4 DEF Ordered
    <3>6. QED
      BY <1>4, <3>1, <3>3, <3>5
  <2>6. QED
    BY <1>3, <2>4, <2>5 DEF Ordered, C, R
<1>6. Failed(S) = K \union C /\ Reordered(S) = Among(K, before) \union (K \X C) \union R
  BY DEF Failed, Reordered
<1> HIDE DEF K, C, R
<1>7. QED
  BY <1>1, <1>2, <1>3, <1>5, <1>6 DEF Ordered
-----------------------------------------------------------------------------
(* What is on the broker's queue after its operations end.                 *)

LEMMA FailedQueue ==
  ASSUME TypeOK, NothingUnasked, NEW S \in SUBSET Ops
  PROVE  /\ Failed(S) \subseteq Items /\ Ordered(Failed(S), Reordered(S))
         /\ \A o \in Ops : Op(o) \in Failed(S) <=> Op(o) \in queue /\ o \notin S
         /\ \A o \in Ops :
              Cancel(o) \in Failed(S) <=> Cancel(o) \in queue \/ (o \in S /\ Op(o) \in queue)
<1>1. Ordered(Failed(S), Reordered(S))
  <2>1. \A o \in S : Op(o) \in queue => Cancel(o) \notin queue
    BY DEF TypeOK, NothingUnasked
  <2>2. Ordered(queue, before)
    BY DEF TypeOK
  <2>3. QED
    BY <2>1, <2>2, OrderFail
<1>2. Failed(S) \subseteq Items
  <2>1. \A o \in Ops : Cancel(o) \in Items
    BY ItemsDiffer DEF Items
  <2>2. Failed(S) = Kept(S) \union { Cancel(o) : o \in Cut(S) }
    BY DEF Failed
  <2>3. Kept(S) \subseteq queue /\ Cut(S) \subseteq Ops /\ queue \subseteq Items
    BY DEF Kept, Cut, TypeOK
  <2>4. QED
    BY <2>1, <2>2, <2>3
<1>3. QED
  BY <1>1, <1>2, ItemsDiffer DEF Failed, Kept, Cut

(* What the broker holds: types, one place per thing, an operation while   *)
(* it pends, a cancel once it was refused.                                 *)
Shelf ==
  /\ st \in [Ops -> {"unasked", "pending", "ok", "refused"}]
  /\ grant \in [Asks -> {"none", "live", "revoked"}]
  /\ under \in [Calls -> Asks \union {None}]
  /\ queue \subseteq Items /\ Ordered(queue, before)
  /\ \A o \in Ops : st[o] = "pending" <=> Op(o) \in queue
  /\ \A o \in Ops : Cancel(o) \in queue => st[o] = "refused"
  /\ leased \in Seq(Items) /\ stops \in 0..MaxStops

LEMMA AskedShelf ==
  ASSUME TypeOK, NothingUnasked, NEW o \in Ops, st[o] = "unasked",
         st' = [st EXCEPT ![o] = "pending"], Put(queue, before, Op(o))
  PROVE  /\ st' \in [Ops -> {"unasked", "pending", "ok", "refused"}]
         /\ queue' \subseteq Items /\ Ordered(queue', before')
         /\ \A p \in Ops : st'[p] = "pending" <=> Op(p) \in queue'
         /\ \A p \in Ops : Cancel(p) \in queue' => st'[p] = "refused"
<1>1. Op(o) \notin queue /\ Ordered(queue, before)
  BY DEF TypeOK
<1>2. Ordered(queue', before')
  BY <1>1, OrderPut DEF Put
<1>3. queue' = queue \union {Op(o)} /\ Op(o) \in Items
  BY ItemsDiffer DEF Put, Items
<1>4. QED
  BY <1>2, <1>3, ItemsDiffer DEF TypeOK, NothingUnasked

LEMMA FailedShelf ==
  ASSUME TypeOK, NothingUnasked, NEW S \in SUBSET Ops, S \subseteq Pending,
         Refused(S), Fail(S)
  PROVE  /\ st' \in [Ops -> {"unasked", "pending", "ok", "refused"}]
         /\ queue' \subseteq Items /\ Ordered(queue', before')
         /\ \A p \in Ops : st'[p] = "pending" <=> Op(p) \in queue'
         /\ \A p \in Ops : Cancel(p) \in queue' => st'[p] = "refused"
<1>1. queue' = Failed(S) /\ before' = Reordered(S)
  BY DEF Fail
<1>2. st' = [o \in Ops |-> IF o \in S THEN "refused" ELSE st[o]]
  BY DEF Refused
<1>3. QED
  BY <1>1, <1>2, FailedQueue DEF TypeOK, NothingUnasked

LEMMA ResolvedShelf ==
  ASSUME TypeOK, NothingUnasked, NEW i \in Items, NEW ok \in {"ok", "refused"},
         Resolve(i, ok)
  PROVE  /\ st' \in [Ops -> {"unasked", "pending", "ok", "refused"}]
         /\ grant' \in [Asks -> {"none", "live", "revoked"}]
         /\ queue' \subseteq Items /\ Ordered(queue', before')
         /\ \A p \in Ops : st'[p] = "pending" <=> Op(p) \in queue'
         /\ \A p \in Ops : Cancel(p) \in queue' => st'[p] = "refused"
<1>1. CASE i \notin queue
  BY <1>1 DEF TypeOK, NothingUnasked, Resolve
<1>2. CASE i \in queue
  <2>1. queue' = queue \ {i} /\ before' = Among(queue', before)
    BY <1>2 DEF Resolve
  <2>2. Ordered(queue', before')
    <3>1. queue \ {i} \subseteq queue /\ Ordered(queue, before)
      BY DEF TypeOK
    <3>2. Ordered(queue \ {i}, Among(queue \ {i}, before))
      BY <3>1, OrderAmong
    <3>3. QED
      BY <2>1, <3>2
  <2>3. CASE i[1] = "op"
    <3>1. i[2] \in Ops /\ i = Op(i[2])
      BY <2>3, ItemsDiffer DEF Items
    <3>2. st' = [st EXCEPT ![i[2]] = ok]
      BY <1>2, <2>3 DEF Resolve
    <3>3. grant' \in [Asks -> {"none", "live", "revoked"}]
      BY <1>2 DEF Resolve, TypeOK
    <3>4. st' \in [Ops -> {"unasked", "pending", "ok", "refused"}]
      BY <3>1, <3>2 DEF TypeOK
    <3>5. \A p \in Ops : st'[p] = IF p = i[2] THEN ok ELSE st[p]
      BY <3>1, <3>2 DEF TypeOK
    <3>6. \A p \in Ops : /\ Op(p) \in queue' <=> Op(p) \in queue /\ p # i[2]
                         /\ Cancel(p) \in queue' => Cancel(p) \in queue
      BY <2>1, <3>1, ItemsDiffer
    <3>7. \A p \in Ops : st'[p] = "pending" <=> Op(p) \in queue'
      <4>1. \A p \in Ops : st[p] = "pending" <=> Op(p) \in queue
        BY DEF TypeOK
      <4>2. QED
        BY <3>5, <3>6, <4>1
    <3>8. \A p \in Ops : Cancel(p) \in queue' => st'[p] = "refused"
      <4>1. st[i[2]] = "pending"
        BY <1>2, <3>1 DEF TypeOK
      <4>2. \A p \in Ops : Cancel(p) \in queue => st[p] = "refused"
        BY DEF NothingUnasked
      <4>3. QED
        BY <3>1, <3>5, <3>6, <4>1, <4>2
    <3>9. queue' \subseteq Items
      BY <2>1 DEF TypeOK
    <3>10. QED
      BY <2>2, <3>3, <3>4, <3>7, <3>8, <3>9
  <2>4. CASE i[1] # "op"
    <3>1. st' = st /\ grant' = grant
      BY <1>2, <2>4 DEF Resolve
    <3>2. \A p \in Ops : Op(p) # i
      BY <2>4, ItemsDiffer
    <3>3. QED
      BY <2>1, <2>2, <3>1, <3>2 DEF TypeOK, NothingUnasked
  <2>5. QED
    BY <2>3, <2>4
<1>3. QED
  BY <1>1, <1>2

LEMMA PostedShelf ==
  ASSUME TypeOK, NothingUnasked, NEW i \in Items, NEW ok \in {"ok", "refused"},
         Post(i, ok)
  PROVE  Shelf'
<1>1. UNCHANGED <<under, leased, stops>>
  BY DEF Post
<1>2. CASE Resolve(i, ok)
  BY <1>1, <1>2, ResolvedShelf DEF Shelf, TypeOK
<1>3. CASE UNCHANGED <<st, grant, queue, before>>
  BY <1>1, <1>3 DEF Shelf, TypeOK, NothingUnasked
<1>4. QED
  BY <1>2, <1>3 DEF Post

LEMMA StopShelf ==
  ASSUME TypeOK, NothingUnasked, Stop
  PROVE  Shelf'
<1> DEFINE F == Failed(Pending)
           Q == { i \in F : i[1] # "stop" }
           s == <<"stop", stops'>>
<1>1. /\ Pending \in SUBSET Ops
      /\ F \subseteq Items /\ Ordered(F, Reordered(Pending))
      /\ \A o \in Ops : Op(o) \in F <=> Op(o) \in queue /\ o \notin Pending
      /\ \A o \in Ops :
              Cancel(o) \in F <=> Cancel(o) \in queue \/ (o \in Pending /\ Op(o) \in queue)
  BY FailedQueue DEF Pending
<1>2. /\ stops' \in 1..MaxStops /\ queue' = Q \union {s}
      /\ before' = Among(Q, Reordered(Pending)) \union (Q \X {s})
      /\ st' = [o \in Ops |-> IF o \in Pending THEN "refused" ELSE st[o]]
      /\ grant' = [a \in Asks |-> IF a \in Asks /\ grant[a] # "none" THEN "revoked" ELSE grant[a]]
      /\ UNCHANGED <<under, leased>>
  BY DEF Stop, Put, Refused, Revoked, TypeOK
<1>3. Ordered(queue', before')
  <2>1. s \notin Q /\ Q \subseteq F
    OBVIOUS
  <2>2. Ordered(Q, Among(Q, Reordered(Pending)))
    BY <1>1, <2>1, OrderAmong
  <2> HIDE DEF Q, s
  <2>3. QED
    BY <1>2, <2>1, <2>2, OrderPut
<1>4. queue' \subseteq Items
  <2>1. s \in Items
    BY <1>2 DEF Items
  <2>2. QED
    BY <1>1, <1>2, <2>1
<1>5. \A o \in Ops : /\ Op(o) \in queue' <=> Op(o) \in F
                     /\ Cancel(o) \in queue' <=> Cancel(o) \in F
  BY <1>2, ItemsDiffer
<1> HIDE DEF F, Q, s
<1>6. QED
  <2>1. st' \in [Ops -> {"unasked", "pending", "ok", "refused"}]
    BY <1>2 DEF TypeOK
  <2>2. grant' \in [Asks -> {"none", "live", "revoked"}]
    BY <1>2 DEF TypeOK
  <2>3. \A o \in Ops : st'[o] = "pending" <=> Op(o) \in queue'
    <3>1. \A o \in Ops : /\ st[o] = "pending" <=> Op(o) \in queue
                         /\ o \in Pending <=> st[o] = "pending"
      BY DEF TypeOK, Pending
    <3>2. \A o \in Ops : st'[o] = IF o \in Pending THEN "refused" ELSE st[o]
      BY <1>2
    <3>3. QED
      BY <1>1, <1>5, <3>1, <3>2
  <2>4. \A o \in Ops : Cancel(o) \in queue' => st'[o] = "refused"
    <3>1. \A o \in Ops : /\ Cancel(o) \in queue => st[o] = "refused"
                         /\ o \in Pending <=> st[o] = "pending"
      BY DEF NothingUnasked, Pending
    <3>2. \A o \in Ops : st'[o] = IF o \in Pending THEN "refused" ELSE st[o]
      BY <1>2
    <3>3. QED
      BY <1>1, <1>5, <3>1, <3>2
  <2>5. /\ under' \in [Calls -> Asks \union {None}] /\ leased' \in Seq(Items)
        /\ stops' \in 0..MaxStops
    BY <1>2 DEF TypeOK
  <2>6. QED
    BY <1>3, <1>4, <2>1, <2>2, <2>3, <2>4, <2>5 DEF Shelf
-----------------------------------------------------------------------------
(* Who touches what.                                                       *)

LEMMA BrokerAlone ==
  ASSUME Broker
  PROVE  UNCHANGED <<loop, memory, workers, over, mishaps>>
  BY DEF Broker, Ask, Revoke, Call, Expire, Disconnect, Stop, Lapse

LEMMA PostAlone ==
  ASSUME NEW i, NEW ok, Post(i, ok)
  PROVE  UNCHANGED <<under, leased, stops>> /\ (mishaps' = mishaps \/ Fault("result"))
  BY DEF Post

LEMMA WorkerAlone ==
  ASSUME NEW o \in Ops, Worker(o)
  PROVE  UNCHANGED <<loop, canceled, over, under, leased, stops>>
  BY PostAlone DEF Worker, Admit, Approve, Decline, PostResult, Grant, Create, Register, Start, Finish

LEMMA PostersAlone ==
  ASSUME NEW o \in Ops, Worker(o)
  PROVE  PostResult(o) \/ UNCHANGED server
  BY DEF Worker, Admit, Approve, Decline, Grant, Create, Register, Start, Finish

LEMMA RemovedHand ==
  ASSUME HandIsKnown, hand # <<>>, hand[1] = "removing"
  PROVE  hand[2] \in Items /\ hand[2][1] # "op" /\ hand = <<"removing", hand[2]>>
<1>1. hand \in {"removing"} \X Told
  <2>1. hand # <<"failed", None>> /\ hand \notin Items
    BY ItemsDiffer
  <2>2. QED
    BY <2>1 DEF HandIsKnown
<1>2. QED
  BY <1>1 DEF Told

LEMMA HandOp ==
  ASSUME HandIsKnown, hand # <<>>, hand[1] \in {"op", "cancel", "stop"}
  PROVE  hand \in Items
  BY DEF HandIsKnown

-----------------------------------------------------------------------------
LEMMA ShelfKept ==
  ASSUME IInv, [Next]_vars
  PROVE  Shelf'
<1>1. TypeOK /\ NothingUnasked /\ HandIsKnown
  BY DEF IInv
<1>2. Shelf
  BY <1>1 DEF Shelf, TypeOK, NothingUnasked
<1>3. CASE UNCHANGED server
  BY <1>2, <1>3 DEF Shelf
<1>4. ASSUME NEW a \in Asks, Ask(a)
      PROVE  Shelf'
  <2>1. a \in Ops /\ UNCHANGED <<grant, under, leased, stops>>
    BY <1>4 DEF Ask, Ops
  <2>2. QED
    BY <1>1, <1>2, <1>4, <2>1, AskedShelf DEF Ask, Shelf
<1>5. ASSUME NEW a \in Asks, Revoke(a)
      PROVE  Shelf'
  <2>1. PICK S \in SUBSET Ops : S \subseteq Pending /\ Refused(S) /\ Fail(S)
    BY <1>5 DEF Revoke, Pending, Ops
  <2>2. UNCHANGED <<under, leased, stops>> /\ grant' \in [Asks -> {"none", "live", "revoked"}]
    BY <1>2, <1>5 DEF Revoke, Revoked, Shelf
  <2>3. QED
    BY <1>1, <1>2, <2>1, <2>2, FailedShelf DEF Shelf
<1>6. ASSUME NEW a \in Asks, NEW c \in Calls, Call(c, a)
      PROVE  Shelf'
  <2>1. c \in Ops /\ UNCHANGED <<grant, leased, stops>> /\ st[c] = "unasked"
    BY <1>6 DEF Call, Ops
  <2>2. under' \in [Calls -> Asks \union {None}]
    BY <1>2, <1>6 DEF Call, Shelf
  <2>3. CASE st' = [st EXCEPT ![c] = "pending"] /\ Put(queue, before, Op(c))
    BY <1>1, <1>2, <2>1, <2>2, <2>3, AskedShelf DEF Shelf
  <2>4. CASE st' = [st EXCEPT ![c] = "refused"] /\ UNCHANGED <<queue, before>>
    BY <1>2, <2>1, <2>2, <2>4 DEF Shelf
  <2>5. QED
    BY <1>6, <2>3, <2>4 DEF Call
<1>7. ASSUME NEW o \in Ops, Expire(o)
      PROVE  Shelf'
  <2>1. {o} \in SUBSET Ops /\ {o} \subseteq Pending /\ UNCHANGED <<grant, under, leased, stops>>
    BY <1>7 DEF Expire, Pending
  <2>2. QED
    BY <1>1, <1>2, <1>7, <2>1, FailedShelf DEF Expire, Shelf
<1>8. CASE Disconnect
  <2>1. Pending \in SUBSET Ops /\ UNCHANGED <<under, leased, stops>>
    BY <1>8 DEF Disconnect, Pending
  <2>2. grant' \in [Asks -> {"none", "live", "revoked"}]
    BY <1>2, <1>8 DEF Disconnect, Revoked, Shelf
  <2>3. QED
    BY <1>1, <1>2, <1>8, <2>1, <2>2, FailedShelf DEF Disconnect, Shelf
<1>9. CASE Stop
  BY <1>1, <1>9, StopShelf
<1>10. CASE Lapse
  BY <1>2, <1>10 DEF Lapse, Shelf
<1>11. CASE Poll \/ PollFails
  <2>1. UNCHANGED <<st, grant, under, queue, before, stops>>
    BY <1>11 DEF Poll, PollFails
  <2>2. leased' = leased \/ \E i \in queue : leased' = Append(leased, i)
    BY <1>11 DEF Poll, PollFails
  <2>3. QED
    BY <1>2, <2>1, <2>2 DEF Shelf
<1>12. CASE Accept
  <2>1. hand \in Items
    BY <1>1, <1>12, HandOp DEF Accept
  <2>2. UNCHANGED server \/ Post(hand, "refused")
    BY <1>12 DEF Accept
  <2>3. QED
    BY <1>1, <1>3, <2>1, <2>2, PostedShelf
<1>13. CASE Removed
  <2>1. hand[2] \in Items /\ Post(hand[2], "ok")
    BY <1>1, <1>13, RemovedHand DEF Removed
  <2>2. QED
    BY <1>1, <2>1, PostedShelf
<1>14. CASE RemoveFails
  <2>1. hand[2] \in Items /\ Resolve(hand[2], "refused") /\ UNCHANGED <<under, leased, stops>>
    BY <1>1, <1>14, RemovedHand DEF RemoveFails
  <2>2. QED
    BY <1>1, <1>2, <2>1, ResolvedShelf DEF Shelf
<1>15. ASSUME NEW o \in Ops, Worker(o)
       PROVE  Shelf'
  <2>1. CASE PostResult(o)
    <3>1. Post(Op(o), result[o]) /\ Op(o) \in Items
      BY <2>1, ItemsDiffer DEF PostResult
    <3>2. result[o] \in {"ok", "refused"}
      BY <2>1 DEF PostResult, IInv, PostIsKnown, TypeOK
    <3>3. QED
      BY <1>1, <3>1, <3>2, PostedShelf
  <2>2. QED
    BY <1>3, <1>15, <2>1, PostersAlone
<1>16. CASE RevokeAll \/ CancelOrStop \/ Crash
  BY <1>3, <1>16 DEF RevokeAll, CancelOrStop, Crash
<1>17. QED
  BY <1>3, <1>4, <1>5, <1>6, <1>7, <1>8, <1>9, <1>10, <1>11, <1>12, <1>13, <1>14, <1>15, <1>16
     DEF Next, Broker, Loop
-----------------------------------------------------------------------------
(* The rest of the types.                                                  *)
Desk ==
  /\ removing \subseteq Calls /\ marked \subseteq Ops
  /\ local \in [Asks -> {"unknown", "held", "revoked"}]
  /\ canceled \subseteq Ops /\ completed \subseteq Ops /\ over \subseteq Ops
  /\ work \in [Ops -> {"idle", "begun", "asking", "allowed", "created", "registered", "started", "posting"}]
  /\ result \in [Ops -> {"none", "ok", "refused"}]
  /\ running \subseteq Calls /\ up \subseteq Calls /\ started \in [Calls -> 0..2]

LEMMA WorkerTypes ==
  ASSUME IInv, NEW o \in Ops, Worker(o)
  PROVE  Desk'
<1> USE DEF Desk, Goto, Answer
<1>1. /\ Desk /\ UNCHANGED <<loop, canceled, over>> /\ RanIsSpent
      /\ Asks \subseteq Ops /\ Calls \subseteq Ops
  BY WorkerAlone DEF IInv, TypeOK, Ops
<1>2. CASE Admit(o) \/ Approve(o) \/ Decline(o)
  BY <1>1, <1>2 DEF Admit, Approve, Decline, Remembered
<1>3. CASE PostResult(o)
  BY <1>1, <1>3 DEF PostResult
<1>4. ASSUME o \in Asks, Grant(o)
      PROVE  Desk'
  BY <1>1, <1>4 DEF Grant
<1>5. ASSUME o \in Calls, Create(o) \/ Register(o)
      PROVE  Desk'
  BY <1>1, <1>5 DEF Create, Register
<1>6. ASSUME o \in Calls, Start(o)
      PROVE  Desk'
  <2>1. started[o] = 0
    BY <1>1, <1>6 DEF RanIsSpent, Start
  <2>2. QED
    BY <1>1, <1>6, <2>1 DEF Start
<1>7. ASSUME o \in Calls, Finish(o)
      PROVE  Desk'
  BY <1>1, <1>7 DEF Finish
<1>8. QED
  BY <1>2, <1>3, <1>4, <1>5, <1>6, <1>7 DEF Worker

LEMMA LoopTypes ==
  ASSUME IInv, Loop \/ PollFails \/ RemoveFails \/ Crash
  PROVE  Desk'
<1> USE DEF Desk
<1>1. Desk /\ HandIsKnown
  BY DEF IInv, TypeOK
<1>2. CASE Poll \/ PollFails
  BY <1>1, <1>2 DEF Poll, PollFails
<1>3. CASE RevokeAll
  BY <1>1, <1>3 DEF RevokeAll
<1>4. CASE Accept
  <2>1. hand[2] \in Ops
    BY <1>1, <1>4, HandOp, ItemsDiffer DEF Accept
  <2>2. QED
    BY <1>1, <1>4, <2>1 DEF Accept
<1>5. CASE CancelOrStop
  <2>1. hand[1] = "cancel" => hand[2] \in Ops
    BY <1>1, <1>5, HandOp, ItemsDiffer DEF CancelOrStop
  <2>2. marked' \subseteq Ops /\ canceled' \subseteq Ops
    BY <1>1, <1>5, <2>1 DEF CancelOrStop, Active
  <2>3. removing' \subseteq Calls /\ local' \in [Asks -> {"unknown", "held", "revoked"}]
    BY <1>1, <1>5 DEF CancelOrStop
  <2>4. QED
    BY <1>1, <1>5, <2>2, <2>3 DEF CancelOrStop
<1>6. CASE Removed
  BY <1>1, <1>6 DEF Removed
<1>7. CASE RemoveFails
  BY <1>1, <1>7 DEF RemoveFails
<1>8. CASE Crash
  BY <1>1, <1>8 DEF Crash
<1>9. QED
  BY <1>2, <1>3, <1>4, <1>5, <1>6, <1>7, <1>8 DEF Loop

LEMMA MishapsCounted ==
  ASSUME TypeOK, [Next]_vars
  PROVE  mishaps' \in 0..MaxMishaps
<1>1. mishaps \in 0..MaxMishaps
  BY DEF TypeOK
<1>2. \A f : Fault(f) => mishaps' \in 0..MaxMishaps
  BY <1>1 DEF Fault
<1>3. CASE Broker \/ UNCHANGED vars
  BY <1>1, <1>3, BrokerAlone
<1>4. CASE Loop \/ PollFails \/ RemoveFails \/ Crash
  BY <1>1, <1>2, <1>4, PostAlone
     DEF Loop, Poll, RevokeAll, Accept, CancelOrStop, Removed, PollFails, RemoveFails, Crash
<1>5. ASSUME NEW o \in Ops, Worker(o)
      PROVE  mishaps' \in 0..MaxMishaps
  BY <1>1, <1>2, <1>5, PostAlone
     DEF Worker, Admit, Approve, Decline, PostResult, Grant, Create, Register, Start, Finish
<1>6. QED
  BY <1>3, <1>4, <1>5 DEF Next

LEMMA TypesKept ==
  ASSUME IInv, [Next]_vars
  PROVE  TypeOK'
<1>1. Shelf' /\ mishaps' \in 0..MaxMishaps
  BY ShelfKept, MishapsCounted DEF IInv
<1>2. Desk'
  <2>1. CASE Broker \/ UNCHANGED vars
    BY <2>1, BrokerAlone DEF IInv, TypeOK, Desk
  <2>2. QED
    BY <2>1, WorkerTypes, LoopTypes DEF Next
<1>3. QED
  BY <1>1, <1>2 DEF TypeOK, Shelf, Desk
-----------------------------------------------------------------------------
(* What was asked for stays so, under the grant it named.                  *)
LEMMA ResolvedGoesOn ==
  ASSUME TypeOK, NEW i \in Items, NEW ok \in {"ok", "refused"}, Resolve(i, ok)
  PROVE  /\ \A o \in Ops : st[o] # "unasked" <=> st'[o] # "unasked"
         /\ \A o \in Ops : st[o] = "ok" => st'[o] = "ok"
         /\ \A a \in Asks : grant[a] # "none" => grant'[a] # "none"
         /\ \A a \in Asks : grant[a] = "none" /\ grant'[a] # "none" => i = Op(a) /\ ok = "ok" /\ st'[a] = "ok"
         /\ queue' \subseteq queue
<1>1. CASE i \notin queue
  BY <1>1 DEF Resolve
<1>2. CASE i \in queue /\ i[1] = "op"
  <2>1. i[2] \in Ops /\ i = Op(i[2]) /\ st[i[2]] = "pending"
    BY <1>2, ItemsDiffer DEF TypeOK
  <2>2. st' = [st EXCEPT ![i[2]] = ok] /\ queue' = queue \ {i}
    BY <1>2 DEF Resolve
  <2>3. \A o \in Ops : st'[o] = IF o = i[2] THEN ok ELSE st[o]
    BY <2>1, <2>2 DEF TypeOK
  <2>4. \A a \in Asks : grant'[a] = IF a = i[2] /\ ok = "ok" THEN "live" ELSE grant[a]
    BY <1>2 DEF Resolve, TypeOK
  <2>5. Asks \subseteq Ops
    BY DEF Ops
  <2>6. QED
    BY <2>1, <2>2, <2>3, <2>4, <2>5
<1>3. CASE i \in queue /\ i[1] # "op"
  BY <1>3 DEF Resolve
<1>4. QED
  BY <1>1, <1>2, <1>3

LEMMA PostGoesOn ==
  ASSUME TypeOK, NEW i \in Items, NEW ok \in {"ok", "refused"}, Post(i, ok)
  PROVE  /\ \A o \in Ops : st[o] # "unasked" <=> st'[o] # "unasked"
         /\ \A o \in Ops : st[o] = "ok" => st'[o] = "ok"
         /\ \A a \in Asks : grant[a] # "none" => grant'[a] # "none"
         /\ \A a \in Asks : grant[a] = "none" /\ grant'[a] # "none" => i = Op(a) /\ ok = "ok" /\ st'[a] = "ok"
         /\ queue' \subseteq queue
  BY ResolvedGoesOn DEF Post

(* A posted result is the hand's, which never grants, or a worker's own.   *)
LEMMA ServerGoesOn ==
  ASSUME IInv, [Next]_vars
  PROVE  /\ \A o \in Ops : st[o] # "unasked" => st'[o] # "unasked"
         /\ \A o \in Ops : st[o] = "ok" => st'[o] = "ok"
         /\ \A c \in Calls : st[c] # "unasked" => under'[c] = under[c]
         /\ \A c \in Calls : st[c] = "unasked" /\ st'[c] # "unasked" =>
              under'[c] \in Asks /\ grant[under'[c]] # "none"
         /\ \A a \in Asks : grant[a] # "none" => grant'[a] # "none"
         /\ \A a \in Asks : grant[a] = "none" /\ grant'[a] # "none" =>
              st'[a] = "ok" /\ PostResult(a) /\ result[a] = "ok"
         /\ \A a \in Asks : st[a] = "ok" => (Op(a) \in queue' => Op(a) \in queue)
<1> DEFINE Goal == /\ \A o \in Ops : st[o] # "unasked" => st'[o] # "unasked"
                   /\ \A o \in Ops : st[o] = "ok" => st'[o] = "ok"
                   /\ \A c \in Calls : st[c] # "unasked" => under'[c] = under[c]
                   /\ \A c \in Calls : st[c] = "unasked" /\ st'[c] # "unasked" =>
                        under'[c] \in Asks /\ grant[under'[c]] # "none"
                   /\ \A a \in Asks : grant[a] # "none" => grant'[a] # "none"
                   /\ \A a \in Asks : grant[a] = "none" /\ grant'[a] # "none" =>
                        st'[a] = "ok" /\ PostResult(a) /\ result[a] = "ok"
                   /\ \A a \in Asks : st[a] = "ok" => (Op(a) \in queue' => Op(a) \in queue)
<1>1. /\ TypeOK /\ HandIsKnown /\ NothingUnasked
      /\ Asks \subseteq Ops /\ Calls \subseteq Ops
  BY DEF IInv, Ops
<1>2. Shelf' /\ \A o \in Ops : st[o] = "pending" <=> Op(o) \in queue
  BY ShelfKept DEF TypeOK, IInv
<1>3. \A a \in Asks : st'[a] = "ok" => Op(a) \notin queue'
  BY <1>1, <1>2 DEF Shelf
<1> SUFFICES Goal
  OBVIOUS
<1>4. CASE UNCHANGED server
  BY <1>4
<1>5. CASE \E a \in Asks : Ask(a)
  <2>1. PICK a \in Asks : Ask(a)
    BY <1>5
  <2>2. /\ st[a] = "unasked" /\ st' = [st EXCEPT ![a] = "pending"] /\ UNCHANGED <<grant, under>>
        /\ a \notin Calls
    BY <2>1 DEF Ask
  <2>3. \A o \in Ops : o # a => st'[o] = st[o]
    BY <2>2 DEF TypeOK
  <2>4. QED
    BY <1>1, <1>3, <2>2, <2>3
<1>6. CASE \E a \in Asks, c \in Calls : Call(c, a)
  <2>1. PICK a \in Asks, c \in Calls : Call(c, a)
    BY <1>6
  <2>2. /\ st[c] = "unasked" /\ UNCHANGED grant /\ grant[a] # "none"
        /\ under' = [under EXCEPT ![c] = a] /\ under'[c] = a
    <3>1. under \in [Calls -> Asks \union {None}]
      BY <1>1 DEF TypeOK
    <3>2. QED
      BY <2>1, <3>1 DEF Call
  <2>3. \A o \in Ops : o # c => st'[o] = st[o]
    BY <1>1, <2>1 DEF Call, TypeOK
  <2>4. \A d \in Calls : d # c => under'[d] = under[d]
    BY <2>2 DEF TypeOK
  <2>5. QED
    BY <1>1, <1>3, <2>2, <2>3, <2>4
<1>7. CASE \/ \E a \in Asks : Revoke(a)
           \/ \E o \in Ops : Expire(o)
           \/ Disconnect \/ Stop
  <2>1. PICK S \in SUBSET Ops : S \subseteq Pending /\ Refused(S)
    BY <1>1, <1>7 DEF Revoke, Expire, Disconnect, Stop, Pending
  <2>2. \A o \in Ops : st'[o] = st[o] \/ (st[o] = "pending" /\ st'[o] = "refused")
    BY <2>1 DEF Refused, Pending
  <2>3. UNCHANGED under
    BY <1>7 DEF Revoke, Expire, Disconnect, Stop
  <2>4. \A a \in Asks : grant'[a] = grant[a] \/ (grant[a] # "none" /\ grant'[a] = "revoked")
    BY <1>7 DEF Revoke, Expire, Disconnect, Stop, Revoked
  <2>5. QED
    BY <1>1, <1>3, <2>2, <2>3, <2>4
<1>8. CASE Lapse \/ Poll \/ PollFails \/ RevokeAll \/ CancelOrStop \/ Crash
  BY <1>8 DEF Lapse, Poll, PollFails, RevokeAll, CancelOrStop, Crash
<1>9. ASSUME NEW i \in Items,
             \/ Post(i, "refused")
             \/ i[1] # "op" /\ Post(i, "ok")
             \/ Resolve(i, "refused") /\ UNCHANGED under
      PROVE  Goal
  <2>1. UNCHANGED under
    BY <1>9, PostAlone
  <2>2. \A a \in Asks : Op(a)[1] = "op"
    BY ItemsDiffer
  <2>3. QED
    BY <1>1, <1>9, <2>1, <2>2, PostGoesOn, ResolvedGoesOn
<1>10. ASSUME NEW o \in Ops, PostResult(o)
       PROVE  Goal
  <2>1. /\ Post(Op(o), result[o]) /\ Op(o) \in Items /\ result[o] \in {"ok", "refused"}
        /\ UNCHANGED under
    BY <1>10, ItemsDiffer DEF PostResult, Post, IInv, PostIsKnown, TypeOK
  <2>2. \A a \in Asks : Op(o) = Op(a) => a = o
    BY ItemsDiffer
  <2>3. QED
    BY <1>1, <1>10, <2>1, <2>2, PostGoesOn
<1> HIDE DEF Goal
<1>11. CASE Accept
  <2>1. hand \in Items /\ (UNCHANGED server \/ Post(hand, "refused"))
    BY <1>1, <1>11, HandOp DEF Accept
  <2>2. CASE Post(hand, "refused")
    BY <1>9, <2>1, <2>2
  <2>3. QED
    BY <1>4, <2>1, <2>2
<1>12. CASE Removed \/ RemoveFails
  <2>1. hand[2] \in Items /\ hand[2][1] # "op"
    BY <1>1, <1>12, RemovedHand DEF Removed, RemoveFails
  <2>2. CASE Removed
    <3>1. Post(hand[2], "ok")
      BY <2>2 DEF Removed
    <3>2. QED
      BY <1>9, <2>1, <3>1
  <2>3. CASE RemoveFails
    <3>1. Resolve(hand[2], "refused") /\ UNCHANGED under
      BY <2>3 DEF RemoveFails
    <3>2. QED
      BY <1>9, <2>1, <3>1
  <2>4. QED
    BY <1>12, <2>2, <2>3
<1>13. ASSUME NEW o \in Ops, Worker(o)
       PROVE  Goal
  BY <1>4, <1>10, <1>13, PostersAlone
<1>14. QED
  BY <1>4, <1>5, <1>6, <1>7, <1>8, <1>11, <1>12, <1>13 DEF Next, Broker, Loop
-----------------------------------------------------------------------------
(* One conjunct of the invariant after another.                            *)

LEMMA HandKept ==
  ASSUME IInv, [Next]_vars
  PROVE  HandIsKnown'
<1>1. HandIsKnown /\ queue \subseteq Items
  BY DEF IInv, TypeOK
<1>2. CASE UNCHANGED hand \/ hand' = <<>> \/ hand' = <<"failed", None>> \/ hand' \in queue
  BY <1>1, <1>2 DEF HandIsKnown
<1>3. CASE CancelOrStop
  <2>1. hand \in Told /\ hand' = <<"removing", hand>>
    BY <1>1, <1>3, HandOp DEF CancelOrStop, Told
  <2>2. QED
    BY <2>1 DEF HandIsKnown
<1>4. CASE Broker \/ UNCHANGED vars
  BY <1>2, <1>4, BrokerAlone
<1>5. CASE \E o \in Ops : Worker(o)
  BY <1>2, <1>5, WorkerAlone
<1>6. CASE Poll
  BY <1>2, <1>6 DEF Poll
<1>7. CASE RevokeAll \/ Accept \/ Removed \/ PollFails \/ RemoveFails \/ Crash
  BY <1>2, <1>7 DEF RevokeAll, Accept, Removed, PollFails, RemoveFails, Crash
<1>8. QED
  BY <1>3, <1>4, <1>5, <1>6, <1>7 DEF Next, Loop

LEMMA PostKept ==
  ASSUME IInv, [Next]_vars
  PROVE  PostIsKnown'
<1>1. /\ PostIsKnown /\ Asks \subseteq Ops /\ Calls \subseteq Ops
      /\ work \in [Ops -> {"idle", "begun", "asking", "allowed", "created", "registered", "started", "posting"}]
      /\ result \in [Ops -> {"none", "ok", "refused"}]
  BY DEF IInv, TypeOK, Ops
<1>2. CASE UNCHANGED <<work, result>>
  BY <1>1, <1>2 DEF PostIsKnown
<1>3. CASE Broker \/ UNCHANGED vars \/ Poll \/ PollFails \/ RevokeAll \/ CancelOrStop \/ Removed \/ RemoveFails
  BY <1>2, <1>3, BrokerAlone DEF Poll, PollFails, RevokeAll, CancelOrStop, Removed, RemoveFails
<1>4. CASE Accept
  BY <1>1, <1>4 DEF Accept, PostIsKnown
<1>5. CASE Crash
  BY <1>1, <1>5 DEF Crash, PostIsKnown
<1>6. ASSUME NEW o \in Ops, Worker(o)
      PROVE  PostIsKnown'
  <2> USE DEF PostIsKnown, Goto, Answer
  <2>1. CASE Admit(o) \/ Approve(o) \/ Decline(o) \/ PostResult(o)
    BY <1>1, <2>1 DEF Admit, Approve, Decline, PostResult
  <2>2. CASE Grant(o)
    BY <1>1, <2>2 DEF Grant
  <2>3. CASE Create(o) \/ Register(o) \/ Start(o) \/ Finish(o)
    BY <1>1, <2>3 DEF Create, Register, Start, Finish
  <2>4. QED
    BY <1>6, <2>1, <2>2, <2>3 DEF Worker
<1>7. QED
  BY <1>3, <1>4, <1>5, <1>6 DEF Next, Loop

(* A worker begins what the hand held; its later stages follow.            *)
LEMMA WorkersBegin ==
  ASSUME IInv, [Next]_vars, NEW o \in Ops, work'[o] # "idle"
  PROVE  work[o] # "idle" \/ (Accept /\ hand = Op(o) /\ work'[o] = "begun")
<1>1. /\ HandIsKnown /\ Asks \subseteq Ops /\ Calls \subseteq Ops
      /\ work \in [Ops -> {"idle", "begun", "asking", "allowed", "created", "registered", "started", "posting"}]
  BY DEF IInv, TypeOK, Ops
<1>2. CASE UNCHANGED work
  BY <1>2
<1>3. CASE Broker \/ UNCHANGED vars \/ Poll \/ PollFails \/ RevokeAll \/ CancelOrStop \/ Removed \/ RemoveFails
  BY <1>2, <1>3, BrokerAlone DEF Poll, PollFails, RevokeAll, CancelOrStop, Removed, RemoveFails
<1>4. CASE Accept
  <2>1. hand[2] \in Ops /\ hand = Op(hand[2])
    BY <1>1, <1>4, HandOp, ItemsDiffer DEF Accept
  <2>2. CASE UNCHANGED work
    BY <2>2
  <2>3. CASE work' = [work EXCEPT ![hand[2]] = "begun"]
    BY <1>1, <1>4, <2>1, <2>3
  <2>4. QED
    BY <1>4, <2>2, <2>3 DEF Accept
<1>5. CASE Crash
  BY <1>5 DEF Crash
<1>6. ASSUME NEW p \in Ops, Worker(p)
      PROVE  work[o] # "idle"
  <2>1. work[p] # "idle" /\ \A q \in Ops : q # p => work'[q] = work[q]
    BY <1>1, <1>6
       DEF Worker, Admit, Approve, Decline, PostResult, Grant, Create, Register, Start, Finish, Goto, Answer
  <2>2. QED
    BY <2>1
<1>7. QED
  BY <1>3, <1>4, <1>5, <1>6 DEF Next, Loop

LEMMA AskedKept ==
  ASSUME IInv, [Next]_vars
  PROVE  NothingUnasked'
<1>1. /\ NothingUnasked /\ HandIsKnown
      /\ Asks \subseteq Ops /\ Calls \subseteq Ops /\ queue \subseteq Items
      /\ \A o \in Ops : st[o] = "pending" <=> Op(o) \in queue
  BY DEF IInv, TypeOK, Ops
<1>2. \A o \in Ops : Cancel(o) \in queue' => st'[o] = "refused"
  BY ShelfKept DEF Shelf
<1>3. ASSUME NEW o \in Ops, hand' \in {Op(o), Cancel(o)}
      PROVE  st[o] # "unasked"
  <2>1. CASE UNCHANGED hand
    BY <1>1, <1>3, <2>1 DEF NothingUnasked
  <2>2. CASE hand' \in queue
    BY <1>1, <1>3, <2>2 DEF NothingUnasked
  <2>3. CASE hand' = <<>> \/ hand'[1] \in {"failed", "removing"}
    BY <1>3, <2>3, ItemsDiffer
  <2>4. QED
    BY <2>1, <2>2, <2>3, BrokerAlone, WorkerAlone
       DEF Next, Loop, Poll, RevokeAll, Accept, CancelOrStop, Removed, PollFails, RemoveFails, Crash
<1>4. ASSUME NEW o \in Ops, work'[o] # "idle"
      PROVE  st[o] # "unasked"
  BY <1>1, <1>4, WorkersBegin DEF NothingUnasked
<1>5. ASSUME NEW o \in Ops, o \in marked' \union over'
      PROVE  st[o] # "unasked"
  <2>1. CASE marked' \union over' \subseteq marked \union over
    BY <1>1, <1>5, <2>1 DEF NothingUnasked
  <2>2. CASE CancelOrStop
    <3>1. CASE o \in over \/ o \in Active
      BY <1>1, <3>1 DEF NothingUnasked, Active
    <3>2. CASE hand[1] = "cancel" /\ o = hand[2]
      BY <1>1, <2>2, <3>2, HandOp, ItemsDiffer DEF NothingUnasked, CancelOrStop
    <3>3. QED
      BY <1>5, <2>2, <3>1, <3>2 DEF CancelOrStop
  <2>3. QED
    BY <2>1, <2>2, BrokerAlone, WorkerAlone
       DEF Next, Loop, Poll, RevokeAll, Accept, Removed, PollFails, RemoveFails, Crash
<1>6. ASSUME NEW c \in Calls, started'[c] > 0
      PROVE  st[c] # "unasked"
  <2>1. CASE UNCHANGED started
    BY <1>1, <1>6, <2>1 DEF NothingUnasked
  <2>2. ASSUME NEW d \in Calls, Start(d)
        PROVE  st[c] # "unasked"
    <3>1. st[d] # "unasked"
      BY <1>1, <2>2 DEF Start, NothingUnasked
    <3>2. c = d \/ started'[c] = started[c]
      BY <2>2 DEF Start, IInv, TypeOK
    <3>3. QED
      BY <1>1, <1>6, <3>1, <3>2 DEF NothingUnasked
  <2>3. QED
    BY <2>1, <2>2, BrokerAlone
       DEF Next, Loop, Poll, RevokeAll, Accept, CancelOrStop, Removed, PollFails, RemoveFails, Crash,
           Worker, Admit, Approve, Decline, PostResult, Grant, Create, Register, Finish
<1>7. ASSUME NEW c \in Calls, st'[c] # "unasked"
      PROVE  under'[c] \in Asks /\ grant'[under'[c]] # "none"
  BY <1>1, <1>7, ServerGoesOn DEF NothingUnasked
<1>8. QED
  BY <1>1, <1>2, <1>3, <1>4, <1>5, <1>6, <1>7, ServerGoesOn DEF NothingUnasked
-----------------------------------------------------------------------------
(* How a worker, and what the desktop remembers, may move.                 *)
LEMMA WorkMoves ==
  ASSUME IInv, [Next]_vars, NEW o \in Ops
  PROVE  \/ work'[o] = work[o] /\ result'[o] = result[o]
         \/ work'[o] = "idle"
         \/ work'[o] = "begun" /\ hand = Op(o) /\ Accept
         \/ Worker(o)
<1>1. /\ HandIsKnown
      /\ work \in [Ops -> {"idle", "begun", "asking", "allowed", "created", "registered", "started", "posting"}]
      /\ result \in [Ops -> {"none", "ok", "refused"}]
  BY DEF IInv, TypeOK
<1>2. CASE UNCHANGED <<work, result>>
  BY <1>2
<1>3. CASE Broker \/ UNCHANGED vars \/ Poll \/ PollFails \/ RevokeAll \/ CancelOrStop \/ Removed \/ RemoveFails
  BY <1>2, <1>3, BrokerAlone DEF Poll, PollFails, RevokeAll, CancelOrStop, Removed, RemoveFails
<1>4. CASE Accept
  <2>1. hand[2] \in Ops /\ hand = Op(hand[2])
    BY <1>1, <1>4, HandOp, ItemsDiffer DEF Accept
  <2>2. UNCHANGED result /\ (UNCHANGED work \/ work' = [work EXCEPT ![hand[2]] = "begun"])
    BY <1>4 DEF Accept
  <2>3. QED
    BY <1>1, <1>4, <2>1, <2>2
<1>5. CASE Crash
  BY <1>5 DEF Crash
<1>6. ASSUME NEW p \in Ops, Worker(p)
      PROVE  p = o \/ (work'[o] = work[o] /\ result'[o] = result[o])
  BY <1>1, <1>6
     DEF Worker, Admit, Approve, Decline, PostResult, Grant, Create, Register, Start, Finish, Goto, Answer
<1>7. QED
  BY <1>3, <1>4, <1>5, <1>6 DEF Next, Loop

LEMMA WhatAWorkerDoes ==
  ASSUME IInv, NEW o \in Ops, Worker(o)
  PROVE  /\ work'[o] \in {"asking", "allowed"} =>
              \/ work[o] \in {"asking", "allowed"}
              \/ work[o] = "begun" /\ o \notin completed
                   /\ (o \in Calls => local[under[o]] = "held")
         /\ work'[o] \in {"created", "registered", "started"} =>
              work[o] \in {"allowed", "created", "registered"}
         /\ work'[o] # "begun"
         /\ work'[o] \in LetIn => (work[o] \in LetIn \/ o \in completed')
         /\ work'[o] = "posting" /\ result'[o] = "ok" => work[o] \in LetIn
<1>1. /\ work \in [Ops -> {"idle", "begun", "asking", "allowed", "created", "registered", "started", "posting"}]
      /\ result \in [Ops -> {"none", "ok", "refused"}] /\ Asks \subseteq Ops /\ Calls \subseteq Ops
  BY DEF IInv, TypeOK, Ops
<1> USE DEF Goto, Answer, LetIn
<1>2. CASE Admit(o)
  BY <1>1, <1>2 DEF Admit, Remembered
<1>3. CASE Approve(o) \/ Decline(o) \/ PostResult(o)
  BY <1>1, <1>3 DEF Approve, Decline, PostResult
<1>4. CASE Grant(o)
  BY <1>1, <1>4 DEF Grant
<1>5. CASE Create(o) \/ Register(o)
  BY <1>1, <1>5 DEF Create, Register
<1>6. CASE Start(o) \/ Finish(o)
  BY <1>1, <1>6 DEF Start, Finish
<1>7. QED
  BY <1>2, <1>3, <1>4, <1>5, <1>6 DEF Worker

LEMMA MemoryLasts ==
  ASSUME [Next]_vars
  PROVE  completed \subseteq completed' \/ Crash
<1>1. CASE Broker \/ UNCHANGED vars
  BY <1>1, BrokerAlone
<1>2. CASE Loop \/ PollFails \/ RemoveFails
  BY <1>2 DEF Loop, Poll, RevokeAll, Accept, CancelOrStop, Removed, PollFails, RemoveFails
<1>3. ASSUME NEW o \in Ops, Worker(o)
      PROVE  completed \subseteq completed'
  BY <1>3 DEF Worker, Admit, Approve, Decline, PostResult, Grant, Create, Register, Start, Finish, Remembered
<1>4. QED
  BY <1>1, <1>2, <1>3 DEF Next

(* A folder is held again by being granted only.                           *)
LEMMA HeldByGrant ==
  ASSUME IInv, [Next]_vars, NEW a \in Asks, local'[a] = "held"
  PROVE  local[a] = "held" \/ work[a] = "allowed"
<1>1. local \in [Asks -> {"unknown", "held", "revoked"}]
  BY DEF IInv, TypeOK
<1>2. CASE Broker \/ UNCHANGED vars
  BY <1>2, BrokerAlone
<1>3. CASE Loop \/ PollFails \/ RemoveFails \/ Crash
  BY <1>1, <1>3 DEF Loop, Poll, RevokeAll, Accept, CancelOrStop, Removed, PollFails, RemoveFails, Crash
<1>4. ASSUME NEW o \in Ops, Worker(o)
      PROVE  local[a] = "held" \/ work[a] = "allowed"
  BY <1>1, <1>4 DEF Worker, Admit, Approve, Decline, PostResult, Grant, Create, Register, Start, Finish
<1>5. QED
  BY <1>2, <1>3, <1>4 DEF Next

LEMMA HandMoves ==
  ASSUME IInv, [Next]_vars, NEW o \in Ops, hand' = Op(o)
  PROVE  hand = Op(o) \/ Op(o) \in queue
<1>1. CASE Broker \/ UNCHANGED vars
  BY <1>1, BrokerAlone
<1>2. CASE \E p \in Ops : Worker(p)
  BY <1>2, WorkerAlone
<1>3. CASE Poll
  BY <1>3 DEF Poll
<1>4. CASE hand' = <<>> \/ hand'[1] \in {"failed", "removing"}
  BY <1>4, ItemsDiffer
<1>5. QED
  BY <1>1, <1>2, <1>3, <1>4
     DEF Next, Loop, RevokeAll, Accept, CancelOrStop, Removed, PollFails, RemoveFails, Crash

LEMMA StartedMoves ==
  ASSUME IInv, [Next]_vars
  PROVE  \A c \in Calls : started'[c] = started[c] \/ (Start(c) /\ c \in up)
<1>1. started \in [Calls -> 0..2]
  BY DEF IInv, TypeOK
<1>2. CASE UNCHANGED started
  BY <1>2
<1>3. ASSUME NEW d \in Calls, Start(d)
      PROVE  \A c \in Calls : started'[c] = started[c] \/ (Start(c) /\ c \in up)
  BY <1>1, <1>3 DEF Start
<1>4. QED
  BY <1>2, <1>3, BrokerAlone
     DEF Next, Loop, Poll, RevokeAll, Accept, CancelOrStop, Removed, PollFails, RemoveFails, Crash,
         Worker, Admit, Approve, Decline, PostResult, Grant, Create, Register, Finish

LEMMA ContainersMove ==
  ASSUME [Next]_vars, NEW c \in Calls, c \in up'
  PROVE  Create(c) \/ (c \in up /\ (c \in running => c \in running'))
<1>1. CASE UNCHANGED <<up, running>>
  BY <1>1
<1>2. CASE Broker \/ UNCHANGED vars
  BY <1>1, <1>2, BrokerAlone
<1>3. CASE Loop \/ PollFails \/ RemoveFails \/ Crash
  BY <1>3 DEF Loop, Poll, RevokeAll, Accept, CancelOrStop, Removed, PollFails, RemoveFails, Crash
<1>4. ASSUME NEW d \in Ops, Worker(d)
      PROVE  Create(c) \/ (c \in up /\ (c \in running => c \in running'))
  BY <1>1, <1>4
     DEF Worker, Admit, Approve, Decline, PostResult, Grant, Create, Register, Start, Finish
<1>5. QED
  BY <1>2, <1>3, <1>4 DEF Next

-----------------------------------------------------------------------------
LEMMA LetInKept ==
  ASSUME IInv, [Next]_vars
  PROVE  LetInIsRemembered'
<1> SUFFICES ASSUME NEW o \in Ops,
                    work'[o] \in LetIn \/ (work'[o] = "posting" /\ result'[o] = "ok")
             PROVE  o \in completed'
  BY DEF LetInIsRemembered
<1>1. ~Crash
  BY DEF Crash, LetIn
<1>2. work[o] \in LetIn \/ (work[o] = "posting" /\ result[o] = "ok") => o \in completed'
  BY <1>1, MemoryLasts DEF IInv, LetInIsRemembered
<1>3. CASE Worker(o)
  BY <1>2, <1>3, WhatAWorkerDoes
<1>4. QED
  BY <1>2, <1>3, WorkMoves DEF LetIn

LEMMA GrantedKept ==
  ASSUME IInv, [Next]_vars
  PROVE  GrantedOnce'
<1> SUFFICES ASSUME NEW a \in Asks, grant'[a] # "none"
             PROVE  st'[a] = "ok" /\ ~Grantable(a)'
  BY DEF GrantedOnce
<1>1. a \in Ops
  BY DEF Ops
<1>2. \A o \in Ops : /\ st[o] = "pending" <=> Op(o) \in queue
                     /\ st'[o] = "pending" <=> Op(o) \in queue'
  BY ShelfKept DEF IInv, TypeOK, Shelf
<1>3. CASE grant[a] = "none"
  <2>1. st'[a] = "ok" /\ PostResult(a) /\ result[a] = "ok"
    BY <1>3, ServerGoesOn
  <2>2. work[a] = "posting" /\ work'[a] = "idle" /\ UNCHANGED completed
    BY <1>1, <2>1 DEF PostResult, Goto, IInv, TypeOK
  <2>3. a \in completed'
    BY <1>1, <2>1, <2>2 DEF IInv, LetInIsRemembered
  <2>4. QED
    BY <2>1, <2>2, <2>3 DEF Grantable
<1>4. CASE grant[a] # "none"
  <2>1. st[a] = "ok" /\ ~Grantable(a)
    BY <1>4 DEF IInv, GrantedOnce
  <2>2. st'[a] = "ok" /\ Op(a) \notin queue /\ Op(a) \notin queue'
    BY <1>1, <1>2, <2>1, ServerGoesOn
  <2>3. work'[a] \notin {"asking", "allowed"}
    <3>1. CASE Worker(a)
      BY <1>1, <2>1, <3>1, WhatAWorkerDoes DEF Grantable
    <3>2. QED
      BY <1>1, <2>1, <3>1, WorkMoves DEF Grantable
  <2>4. ASSUME a \notin completed'
        PROVE  work'[a] # "begun" /\ hand' # Op(a)
    <3>1. CASE Crash
      BY <1>1, <3>1, ItemsDiffer DEF Crash
    <3>2. CASE a \notin completed
      <4>1. work[a] # "begun" /\ hand # Op(a)
        BY <2>1, <3>2 DEF Grantable
      <4>2. work'[a] # "begun"
        BY <1>1, <4>1, WorkMoves, WhatAWorkerDoes
      <4>3. QED
        BY <1>1, <2>2, <4>1, <4>2, HandMoves
    <3>3. QED
      BY <2>4, <3>1, <3>2, MemoryLasts
  <2>5. QED
    BY <2>2, <2>3, <2>4 DEF Grantable
<1>5. QED
  BY <1>3, <1>4

LEMMA SpentKept ==
  ASSUME IInv, [Next]_vars
  PROVE  RanIsSpent'
<1> SUFFICES ASSUME NEW c \in Calls, started'[c] > 0
             PROVE  /\ started'[c] = 1
                    /\ work'[c] \notin {"asking", "allowed", "created", "registered"}
                    /\ c \in completed' \/ local'[under'[c]] # "held"
  BY DEF RanIsSpent
<1>1. /\ c \in Ops /\ started \in [Calls -> 0..2]
      /\ work \in [Ops -> {"idle", "begun", "asking", "allowed", "created", "registered", "started", "posting"}]
  BY DEF IInv, TypeOK, Ops
<1>2. CASE Start(c) /\ c \in up
  <2>1. work[c] = "registered" /\ c \in completed
    BY <1>1, <1>2 DEF Start, IInv, LetInIsRemembered, LetIn
  <2>2. started[c] = 0
    BY <1>1, <2>1 DEF IInv, RanIsSpent
  <2>3. started'[c] = 1 /\ work'[c] = "started" /\ UNCHANGED completed
    BY <1>1, <1>2, <2>2 DEF Start, Goto
  <2>4. QED
    BY <2>1, <2>3
<1>3. CASE started'[c] = started[c]
  <2>1. /\ started[c] = 1 /\ work[c] \notin {"asking", "allowed", "created", "registered"}
        /\ c \in completed \/ local[under[c]] # "held"
        /\ st[c] # "unasked" /\ under[c] \in Asks /\ grant[under[c]] # "none"
    BY <1>3 DEF IInv, RanIsSpent, NothingUnasked
  <2>2. under'[c] = under[c]
    BY <2>1, ServerGoesOn
  <2>3. work[under[c]] # "allowed"
    BY <2>1 DEF IInv, GrantedOnce, Grantable
  <2>4. c \in completed' \/ local'[under[c]] # "held"
    <3>1. CASE Crash
      BY <2>1, <3>1 DEF Crash
    <3>2. CASE c \in completed
      BY <3>1, <3>2, MemoryLasts
    <3>3. CASE local[under[c]] # "held"
      BY <2>1, <2>3, <3>3, HeldByGrant
    <3>4. QED
      BY <2>1, <3>2, <3>3
  <2>5. work'[c] \notin {"asking", "allowed", "created", "registered"}
    <3>1. CASE Worker(c)
      BY <1>1, <2>1, <3>1, WhatAWorkerDoes
    <3>2. QED
      BY <1>1, <2>1, <3>1, WorkMoves
  <2>6. QED
    BY <1>3, <2>1, <2>2, <2>4, <2>5
<1>4. QED
  BY <1>2, <1>3, StartedMoves

LEMMA ReportsKept ==
  ASSUME IInv, [Next]_vars
  PROVE  ReportsAreTrue'
<1> SUFFICES ASSUME NEW c \in Calls,
                    work'[c] = "started" \/ (work'[c] = "posting" /\ result'[c] = "ok")
             PROVE  started'[c] > 0
  BY DEF ReportsAreTrue
<1>1. /\ c \in Ops /\ c \notin Asks /\ started \in [Calls -> 0..2]
      /\ work \in [Ops -> {"idle", "begun", "asking", "allowed", "created", "registered", "started", "posting"}]
      /\ result \in [Ops -> {"none", "ok", "refused"}]
  BY DEF IInv, TypeOK, Ops
<1>2. work[c] = "started" \/ (work[c] = "posting" /\ result[c] = "ok") => started'[c] > 0
  <2>1. work[c] = "started" \/ (work[c] = "posting" /\ result[c] = "ok") => started[c] > 0
    BY DEF IInv, ReportsAreTrue
  <2>2. Start(c) /\ c \in up => started'[c] > 0
    BY <1>1 DEF Start
  <2>3. QED
    BY <2>1, <2>2, StartedMoves
<1>3. CASE Worker(c)
  <2>1. CASE Start(c)
    BY <1>1, <2>1 DEF Start, Answer, Goto
  <2>2. CASE Finish(c)
    BY <1>2, <2>2 DEF Finish
  <2>3. CASE Admit(c) \/ Approve(c) \/ Decline(c) \/ PostResult(c) \/ Create(c) \/ Register(c)
    BY <1>1, <2>3 DEF Admit, Approve, Decline, PostResult, Create, Register, Answer, Goto
  <2>4. QED
    BY <1>1, <1>3, <2>1, <2>2, <2>3 DEF Worker
<1>4. QED
  BY <1>1, <1>2, <1>3, WorkMoves

LEMMA FoundKept ==
  ASSUME IInv, [Next]_vars
  PROVE  StartableIsFound'
<1> SUFFICES ASSUME NEW c \in Calls, work'[c] = "registered", c \in up'
             PROVE  c \in running'
  BY DEF StartableIsFound
<1>1. /\ c \in Ops
      /\ work \in [Ops -> {"idle", "begun", "asking", "allowed", "created", "registered", "started", "posting"}]
  BY DEF IInv, TypeOK, Ops
<1>2. CASE work[c] = "registered"
  <2>1. ~Create(c)
    BY <1>2 DEF Create
  <2>2. QED
    BY <1>2, <2>1, ContainersMove DEF IInv, StartableIsFound
<1>3. CASE Worker(c)
  <2>1. CASE Register(c)
    BY <1>1, <2>1 DEF Register, Answer, Goto
  <2>2. CASE Admit(c) \/ Approve(c) \/ Decline(c) \/ PostResult(c) \/ Grant(c) \/ Create(c) \/ Start(c) \/ Finish(c)
    BY <1>1, <2>2 DEF Admit, Approve, Decline, PostResult, Grant, Create, Start, Finish, Answer, Goto
  <2>3. QED
    BY <1>3, <2>1, <2>2 DEF Worker
<1>4. QED
  BY <1>1, <1>2, <1>3, WorkMoves

LEMMA CanceledKept ==
  ASSUME IInv, [Next]_vars
  PROVE  CanceledHasNothing'
<1>1. /\ CanceledHasNothing /\ NothingUnasked /\ HandIsKnown /\ Calls \subseteq Ops
      /\ running \subseteq Calls /\ local \in [Asks -> {"unknown", "held", "revoked"}]
  BY DEF IInv, TypeOK, Ops
<1>2. ASSUME NEW c \in Calls, c \in marked \union over
      PROVE  local[under[c]] # "held" /\ local'[under'[c]] # "held"
  <2>1. st[c] # "unasked" /\ under[c] \in Asks /\ grant[under[c]] # "none"
    BY <1>1, <1>2 DEF NothingUnasked
  <2>2. under'[c] = under[c] /\ work[under[c]] # "allowed"
    BY <2>1, ServerGoesOn DEF IInv, GrantedOnce, Grantable
  <2>3. local[under[c]] # "held"
    BY <1>1, <1>2 DEF CanceledHasNothing
  <2>4. QED
    BY <2>1, <2>2, <2>3, HeldByGrant
<1>3. CASE CancelOrStop
  <2>1. /\ UNCHANGED <<under, running, over>>
        /\ marked' = IF hand[1] = "stop" THEN Active ELSE {hand[2]}
        /\ removing' = { c \in running : under[c] \in Hit(hand) \/ c = hand[2] }
        /\ local' = [a \in Asks |-> IF a \in Hit(hand) /\ local[a] # "unknown" THEN "revoked" ELSE local[a]]
    BY <1>3 DEF CancelOrStop
  <2>2. ASSUME NEW c \in Calls, c \in marked'
        PROVE  under[c] \in Asks /\ under[c] \in Hit(hand)
    <3>1. st[c] # "unasked"
      <4>1. CASE hand[1] = "stop"
        BY <1>1, <2>1, <2>2, <4>1 DEF NothingUnasked, Active
      <4>2. CASE hand[1] = "cancel"
        <5>1. hand = Cancel(c)
          BY <1>1, <1>3, <2>1, <2>2, <4>2, HandOp, ItemsDiffer DEF CancelOrStop
        <5>2. QED
          BY <1>1, <5>1 DEF NothingUnasked
      <4>3. QED
        BY <1>3, <4>1, <4>2 DEF CancelOrStop
    <3>2. under[c] \in Asks
      BY <1>1, <3>1 DEF NothingUnasked
    <3>3. QED
      BY <1>3, <2>1, <2>2, <3>2 DEF Hit, CancelOrStop
  <2>3. \A c \in Calls : c \in marked' => local'[under'[c]] # "held"
    BY <1>1, <2>1, <2>2
  <2>4. marked' \intersect running' \subseteq removing'
    BY <1>1, <2>1, <2>2
  <2>5. over' \intersect running' = {}
    BY <1>1, <2>1 DEF CanceledHasNothing
  <2>6. QED
    BY <1>2, <2>1, <2>3, <2>4, <2>5 DEF CanceledHasNothing
<1>4. ASSUME marked' \union over' \subseteq marked \union over,
             marked' \intersect running' \subseteq removing', over' \intersect running' = {}
      PROVE  CanceledHasNothing'
  BY <1>2, <1>4 DEF CanceledHasNothing
<1>5. CASE UNCHANGED <<loop, over>> /\ running' \subseteq running
  BY <1>1, <1>4, <1>5 DEF CanceledHasNothing
<1>6. CASE UNCHANGED <<removing, marked, over>> /\ running' \subseteq running
  BY <1>1, <1>4, <1>6 DEF CanceledHasNothing
<1>7. CASE Removed
  BY <1>1, <1>4, <1>7 DEF Removed, CanceledHasNothing
<1>8. CASE RemoveFails \/ Crash
  BY <1>1, <1>4, <1>8 DEF RemoveFails, Crash, CanceledHasNothing
<1>9. ASSUME NEW c \in Calls, Register(c)
      PROVE  CanceledHasNothing'
  <2>1. UNCHANGED <<loop, over>>
    BY <1>9 DEF Register
  <2>2. running' = running \/ (running' = running \union {c} /\ local[under[c]] = "held")
    BY <1>9 DEF Register
  <2>3. QED
    BY <1>1, <1>2, <1>4, <2>1, <2>2 DEF CanceledHasNothing
<1>10. CASE Broker \/ UNCHANGED vars
  BY <1>5, <1>10, BrokerAlone
<1>11. CASE Poll \/ PollFails \/ RevokeAll \/ Accept
  BY <1>6, <1>11 DEF Poll, PollFails, RevokeAll, Accept
<1>12. ASSUME NEW o \in Ops, Worker(o)
       PROVE  CanceledHasNothing'
  BY <1>5, <1>9, <1>12, WorkerAlone
     DEF Worker, Admit, Approve, Decline, PostResult, Grant, Create, Start, Finish
<1>13. QED
  BY <1>3, <1>7, <1>8, <1>10, <1>11, <1>12 DEF Next, Loop

-----------------------------------------------------------------------------
LEMMA InitIInv == Init => IInv
<1> SUFFICES ASSUME Init PROVE IInv
  OBVIOUS
<1>1. TypeOK
  BY DEF Init, TypeOK, Ordered, Ops
<1>2. /\ HandIsKnown /\ PostIsKnown /\ NothingUnasked /\ LetInIsRemembered
      /\ RanIsSpent /\ ReportsAreTrue /\ StartableIsFound /\ CanceledHasNothing
  BY ItemsDiffer
     DEF Init, Ops, HandIsKnown, PostIsKnown, NothingUnasked, LetInIsRemembered, LetIn,
         RanIsSpent, ReportsAreTrue, StartableIsFound, CanceledHasNothing
<1>3. GrantedOnce
  BY DEF Init, GrantedOnce
<1>4. QED
  BY <1>1, <1>2, <1>3 DEF IInv

LEMMA NextIInv == IInv /\ [Next]_vars => IInv'
  BY TypesKept, HandKept, PostKept, AskedKept, LetInKept, GrantedKept, SpentKept,
     ReportsKept, FoundKept, CanceledKept DEF IInv

(* The inductive invariant of broker and desktop: what the loop holds,     *)
(* that nothing is about an operation nobody asked for, that what was let  *)
(* in is remembered, that a folder the server has a grant for is granted   *)
(* no second time, that a call that ran is spent, and that a canceled one  *)
(* has lost its grant.                                                     *)
THEOREM AccessInvariant == Spec => []IInv
<1>1. Init => IInv
  BY InitIInv
<1>2. IInv /\ [Next]_vars => IInv'
  BY NextIInv
<1>3. QED
  BY <1>1, <1>2, PTL DEF Spec

(* Every variable keeps its type; the broker's queue stays in one order,   *)
(* whatever is taken from it, and holds an operation just while its caller *)
(* waits (broker.ts:84, :245, :258).                                       *)
THEOREM TypesHold == Spec => []TypeOK
<1>1. IInv => TypeOK
  BY DEF IInv
<1>2. QED
  BY <1>1, AccessInvariant, PTL

(* A call's command is started at most once (host_access.rs:624), however  *)
(* often it is handed out, and by however many desktops that died.         *)
THEOREM RunsOnceHolds == Spec => []RunsOnce
<1>1. IInv => RunsOnce
  <2> SUFFICES ASSUME IInv, NEW c \in Calls
               PROVE  started[c] <= 1
    BY DEF RunsOnce
  <2>1. started[c] \in 0..2 /\ (started[c] > 0 => started[c] = 1)
    BY DEF IInv, TypeOK, RanIsSpent
  <2>2. QED
    BY <2>1
<1>2. QED
  BY <1>1, AccessInvariant, PTL

(* What the desktop has canceled or stopped does not run afterwards        *)
(* (host_access.rs:799 to :840, :927).                                     *)
THEOREM CanceledIsOverHolds == Spec => []CanceledIsOver
<1>1. IInv => CanceledIsOver
  BY DEF IInv, CanceledHasNothing, CanceledIsOver
<1>2. QED
  BY <1>1, AccessInvariant, PTL

-----------------------------------------------------------------------------
(* Broker and desktop are the loan: every step is one of its steps.        *)

LEMMA LoanInit == Init => Loan!Init
  BY DEF Init, Loan!Init, Ops, Loan!Ops

LEMMA RefusedIsLoan ==
  ASSUME TypeOK, NEW S \in SUBSET Ops, S \subseteq Pending, Refused(S),
         NEW A \in SUBSET Asks, Revoked(A), UNCHANGED <<started, over>>
  PROVE  Loan!Next
<1>1. S \in SUBSET Loan!Ops /\ \A o \in S : st[o] = "pending"
  BY DEF Pending, Ops, Loan!Ops
<1>2. Loan!TakeBack(A, S)
  BY <1>1 DEF Loan!TakeBack, Refused, Revoked, Ops, Loan!Ops
<1>3. QED
  BY <1>1, <1>2 DEF Loan!Next

(* A result that is taken is of an operation that pends: a folder is lent, *)
(* a call that ran is reported, or a caller refused.                       *)
LEMMA ResolvedIsLoan ==
  ASSUME IInv, NEW i \in Items, NEW ok \in {"ok", "refused"}, Resolve(i, ok),
         ok = "ok" /\ i[1] = "op" /\ i[2] \in Calls => started[i[2]] > 0,
         UNCHANGED <<started, over>>
  PROVE  Loan!Next \/ UNCHANGED Loan!vars
<1>1. /\ TypeOK /\ st \in [Ops -> {"unasked", "pending", "ok", "refused"}]
      /\ grant \in [Asks -> {"none", "live", "revoked"}]
      /\ Asks \subseteq Ops /\ Calls \subseteq Ops
  BY DEF IInv, TypeOK, Ops
<1>2. CASE i \notin queue \/ i[1] # "op"
  BY <1>2 DEF Resolve, Loan!vars
<1>3. CASE i \in queue /\ i[1] = "op"
  <2>1. i[2] \in Ops /\ i = Op(i[2]) /\ st[i[2]] = "pending"
    BY <1>1, <1>3, ItemsDiffer DEF TypeOK
  <2>2. st' = [st EXCEPT ![i[2]] = ok]
    BY <1>3 DEF Resolve
  <2>3. CASE ok = "refused"
    <3>1. Refused({i[2]})
      BY <1>1, <2>1, <2>2, <2>3 DEF Refused
    <3>2. grant' = grant
      BY <1>3, <2>3 DEF Resolve
    <3>3. Revoked({}) /\ {i[2]} \subseteq Pending
      BY <1>1, <2>1, <3>2 DEF Revoked, Pending
    <3>4. QED
      BY <1>1, <2>1, <3>1, <3>3, RefusedIsLoan
  <2>4. CASE ok = "ok" /\ i[2] \in Asks
    <3>1. grant[i[2]] = "none"
      BY <2>1, <2>4 DEF IInv, GrantedOnce
    <3>2. grant' = [grant EXCEPT ![i[2]] = "live"]
      BY <1>3, <2>4 DEF Resolve
    <3>3. Loan!Lend(i[2])
      BY <2>1, <2>2, <2>4, <3>1, <3>2 DEF Loan!Lend
    <3>4. QED
      BY <2>4, <3>3 DEF Loan!Next
  <2>5. CASE ok = "ok" /\ i[2] \in Calls
    <3>1. started[i[2]] = 1
      BY <1>3, <2>5 DEF IInv, RanIsSpent
    <3>2. grant' = grant
      BY <1>3, <2>5 DEF Resolve
    <3>3. Loan!Report(i[2])
      BY <2>1, <2>2, <2>5, <3>1, <3>2 DEF Loan!Report
    <3>4. QED
      BY <2>5, <3>3 DEF Loan!Next
  <2>6. QED
    BY <2>1, <2>3, <2>4, <2>5 DEF Ops
<1>4. QED
  BY <1>2, <1>3

LEMMA PostedIsLoan ==
  ASSUME IInv, NEW i \in Items, NEW ok \in {"ok", "refused"}, Post(i, ok),
         ok = "ok" /\ i[1] = "op" /\ i[2] \in Calls => started[i[2]] > 0,
         UNCHANGED <<started, over>>
  PROVE  Loan!Next \/ UNCHANGED Loan!vars
<1>1. CASE Resolve(i, ok)
  BY <1>1, ResolvedIsLoan
<1>2. CASE UNCHANGED <<st, grant, queue, before>>
  BY <1>2 DEF Loan!vars
<1>3. QED
  BY <1>1, <1>2 DEF Post

LEMMA BrokerIsLoan ==
  ASSUME IInv, Broker
  PROVE  Loan!Next \/ UNCHANGED Loan!vars
<1>1. TypeOK /\ UNCHANGED <<started, over>> /\ Asks \subseteq Ops /\ Calls \subseteq Ops
  BY BrokerAlone DEF IInv, Ops
<1>2. ASSUME NEW a \in Asks, Ask(a)
      PROVE  Loan!Next
  BY <1>1, <1>2 DEF Ask, Loan!Next, Loan!Ask
<1>3. ASSUME NEW a \in Asks, NEW c \in Calls, Call(c, a)
      PROVE  Loan!Next
  BY <1>1, <1>3 DEF Call, Loan!Next, Loan!Call
<1>4. ASSUME NEW a \in Asks, Revoke(a)
      PROVE  Loan!Next
  <2>1. PICK S \in SUBSET Ops : S \subseteq Pending /\ Refused(S)
    BY <1>4 DEF Revoke, Pending, Ops
  <2>2. Revoked({a}) /\ {a} \in SUBSET Asks
    BY <1>4 DEF Revoke
  <2>3. QED
    BY <1>1, <2>1, <2>2, RefusedIsLoan
<1>5. ASSUME NEW o \in Ops, Expire(o)
      PROVE  Loan!Next
  <2>1. {o} \in SUBSET Ops /\ {o} \subseteq Pending /\ Refused({o}) /\ grant' = grant
    BY <1>5 DEF Expire, Pending
  <2>2. Revoked({}) /\ {} \in SUBSET Asks
    BY <1>1, <2>1 DEF Revoked, TypeOK
  <2>3. QED
    BY <1>1, <2>1, <2>2, RefusedIsLoan
<1>6. CASE Disconnect \/ Stop
  <2>1. Refused(Pending) /\ Revoked(Asks) /\ Pending \in SUBSET Ops /\ Asks \in SUBSET Asks
    BY <1>6 DEF Disconnect, Stop, Pending
  <2>2. QED
    BY <1>1, <2>1, RefusedIsLoan
<1>7. CASE Lapse
  BY <1>1, <1>7 DEF Lapse, Loan!vars
<1>8. QED
  BY <1>2, <1>3, <1>4, <1>5, <1>6, <1>7 DEF Broker

LEMMA LoopIsLoan ==
  ASSUME IInv, Loop \/ PollFails \/ RemoveFails \/ Crash
  PROVE  Loan!Next \/ UNCHANGED Loan!vars
<1>1. TypeOK /\ HandIsKnown /\ NothingUnasked /\ marked \subseteq Ops
  BY DEF IInv, TypeOK
<1>2. CASE Poll \/ PollFails \/ RevokeAll \/ CancelOrStop \/ Crash
  BY <1>2 DEF Poll, PollFails, RevokeAll, CancelOrStop, Crash, Loan!vars
<1>3. CASE Accept
  <2>1. hand \in Items /\ UNCHANGED <<started, over>>
    BY <1>1, <1>3, HandOp DEF Accept
  <2>2. CASE UNCHANGED server
    BY <2>1, <2>2 DEF Loan!vars
  <2>3. CASE Post(hand, "refused")
    BY <2>1, <2>3, PostedIsLoan
  <2>4. QED
    BY <1>3, <2>2, <2>3 DEF Accept
<1>4. CASE Removed
  <2>1. hand[2] \in Items /\ hand[2][1] # "op" /\ Post(hand[2], "ok")
    BY <1>1, <1>4, RemovedHand DEF Removed
  <2>2. UNCHANGED <<st, grant, started>> /\ over' = over \union marked
    BY <1>4, <2>1 DEF Removed, Post, Resolve
  <2>3. marked \in SUBSET Loan!Ops /\ Loan!End(marked)
    BY <1>1, <2>2 DEF Loan!End, Loan!Ops, Ops, NothingUnasked
  <2>4. QED
    BY <2>3 DEF Loan!Next
<1>5. CASE RemoveFails
  <2>1. hand[2][1] # "op" /\ Resolve(hand[2], "refused") /\ UNCHANGED <<started, over>>
    BY <1>1, <1>5, RemovedHand DEF RemoveFails
  <2>2. UNCHANGED <<st, grant>>
    BY <2>1 DEF Resolve
  <2>3. QED
    BY <2>1, <2>2 DEF Loan!vars
<1>6. QED
  BY <1>2, <1>3, <1>4, <1>5 DEF Loop

LEMMA WorkerIsLoan ==
  ASSUME IInv, NEW o \in Ops, Worker(o)
  PROVE  Loan!Next \/ UNCHANGED Loan!vars
<1>1. CASE PostResult(o)
  <2>1. /\ Post(Op(o), result[o]) /\ Op(o) \in Items /\ Op(o)[2] = o
        /\ work[o] = "posting" /\ UNCHANGED <<started, over>>
    BY <1>1, ItemsDiffer DEF PostResult
  <2>2. result[o] \in {"ok", "refused"}
    BY <2>1 DEF IInv, PostIsKnown, TypeOK
  <2>3. result[o] = "ok" /\ o \in Calls => started[o] > 0
    BY <2>1 DEF IInv, ReportsAreTrue
  <2>4. QED
    BY <2>1, <2>2, <2>3, PostedIsLoan
<1>2. ASSUME o \in Calls, Start(o), o \in up
      PROVE  Loan!Next
  <2>1. work[o] = "registered" /\ started \in [Calls -> 0..2]
    BY <1>2 DEF Start, IInv, TypeOK
  <2>2. started[o] = 0
    BY <1>2, <2>1 DEF IInv, RanIsSpent
  <2>3. o \notin over
    BY <1>2, <2>1 DEF IInv, StartableIsFound, CanceledHasNothing
  <2>4. st[o] # "unasked"
    BY <2>1 DEF IInv, NothingUnasked
  <2>5. started' = [started EXCEPT ![o] = 1] /\ UNCHANGED <<st, grant, over>>
    BY <1>2, <2>1, <2>2 DEF Start
  <2>6. Loan!Run(o)
    BY <2>2, <2>3, <2>4, <2>5 DEF Loan!Run
  <2>7. QED
    BY <1>2, <2>6 DEF Loan!Next
<1>3. CASE ~PostResult(o) /\ ~(o \in Calls /\ Start(o) /\ o \in up)
  BY <1>3 DEF Worker, Admit, Approve, Decline, Grant, Create, Register, Start, Finish, Loan!vars
<1>4. QED
  BY <1>1, <1>2, <1>3

LEMMA LoanStep == IInv /\ [Next]_vars => [Loan!Next]_(Loan!vars)
<1>1. UNCHANGED vars => UNCHANGED Loan!vars
  BY DEF Loan!vars
<1>2. QED
  BY <1>1, BrokerIsLoan, LoopIsLoan, WorkerIsLoan DEF Next

(* Whatever is queued, handed out again, lost or forgotten between broker  *)
(* and desktop, the person and the Bot see the loan: FolderLoan.           *)
THEOREM AccessIsALoan == Spec => ImplementsLoan
  BY AccessInvariant, LoanInit, LoanStep, PTL DEF Spec, ImplementsLoan, Loan!Spec
=============================================================================
