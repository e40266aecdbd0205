------------------------------ MODULE HostAccess ------------------------------
(***************************************************************************)
(* A person lends a Bot folders of their own machine. The server's broker  *)
(* (server/src/host-access/broker.ts) queues operations for the desktop    *)
(* and answers the Bot; the desktop (desktop/src-tauri/src/host_access.rs) *)
(* polls for them one at a time, asks the person, and runs each in a       *)
(* container. An operation that is revoked, stopped or takes too long is   *)
(* answered at once and a cancel of it is queued instead. One person, one  *)
(* Bot, one desktop. Clocks are left out: what expires may, at any time.   *)
(***************************************************************************)
EXTENDS Integers, Sequences

CONSTANTS
  Asks,          \* requests for a folder; one that is granted names the grant
  Calls,         \* calls that run in a container, each under one grant
  None,
  MaxStops,      \* bound on how often the person stops everything
  Faults,        \* "poll": one fails, "result": one is lost, "engine": a removal fails, "crash"
  MaxMishaps     \* bound on the faults

ASSUME HostAssumption ==
  /\ None \notin Asks \union Calls /\ Asks \intersect Calls = {}
  /\ MaxStops \in Nat /\ MaxMishaps \in Nat
  /\ Faults \subseteq {"poll", "result", "engine", "crash"}

Ops == Asks \union Calls

VARIABLES
  st,            \* per operation, what its caller was told: unasked, pending, ok, refused
  grant,         \* per ask: the server's grant
  under,         \* per call: the grant it names
  queue,         \* the broker's operations, cancels and stops
  before,        \* the order of that Map: which of them was put there before which
  leased,        \* those handed out whose lease has not lapsed, the oldest lease first
  hand,          \* what the desktop's loop has in hand
  removing,      \* the containers the cancel or stop in hand removes
  marked,        \* the operations it is about
  local,         \* per ask: the desktop's grant
  canceled, completed,  \* what the desktop remembers of operations
  work,          \* per operation: how far its worker got
  result,        \* per operation: what its worker has to post
  running,       \* the calls whose container is registered
  up,            \* the containers that exist
  started,       \* per call: how often its command was started (history)
  over,          \* the operations whose cancel was carried out (history)
  stops, mishaps

server  == <<st, grant, under, queue, before, leased, stops>>
loop    == <<hand, removing, marked>>
memory  == <<local, canceled, completed>>
workers == <<work, result, running, up, started>>
vars    == <<server, loop, memory, workers, over, mishaps>>

Sound == UNCHANGED mishaps
Fault(f) == f \in Faults /\ mishaps < MaxMishaps /\ mishaps' = mishaps + 1

Op(o) == <<"op", o>>
Cancel(o) == <<"cancel", o>>
Items == ({"op", "cancel"} \X Ops) \union ({"stop"} \X (1..MaxStops))

Active == { o \in Ops : work[o] # "idle" }
EffectHeld == \E c \in Calls : work[c] = "created"

Init ==
  /\ st = [o \in Ops |-> "unasked"] /\ grant = [a \in Asks |-> "none"]
  /\ under = [c \in Calls |-> None] /\ queue = {} /\ before = {} /\ leased = <<>>
  /\ hand = <<>> /\ removing = {} /\ marked = {}
  /\ local = [a \in Asks |-> "unknown"] /\ canceled = {} /\ completed = {}
  /\ work = [o \in Ops |-> "idle"] /\ result = [o \in Ops |-> "none"]
  /\ running = {} /\ up = {} /\ started = [c \in Calls |-> 0] /\ over = {}
  /\ stops = 0 /\ mishaps = 0

-----------------------------------------------------------------------------
(* The broker. What enters its Map comes after all that is there; what is  *)
(* taken out leaves the others as they were.                               *)
Put(Q, r, i) == queue' = Q \union {i} /\ before' = r \union (Q \X {i})

Among(Q, r) == r \intersect (Q \X Q)

Ask(a) ==
  /\ st[a] = "unasked" /\ st' = [st EXCEPT ![a] = "pending"]
  /\ Put(queue, before, Op(a))
  /\ UNCHANGED <<grant, under, leased, stops, loop, memory, workers, over>> /\ Sound

\* callHost: a call under a grant that is gone is refused at once.
Call(c, a) ==
  /\ st[c] = "unasked" /\ grant[a] # "none"
  /\ under' = [under EXCEPT ![c] = a]
  /\ \/ grant[a] = "live" /\ st' = [st EXCEPT ![c] = "pending"] /\ Put(queue, before, Op(c))
     \/ grant[a] = "revoked" /\ st' = [st EXCEPT ![c] = "refused"] /\ UNCHANGED <<queue, before>>
  /\ UNCHANGED <<grant, leased, stops, loop, memory, workers, over>> /\ Sound

Cut(S) == { o \in S : Op(o) \in queue }

Kept(S) == queue \ { Op(o) : o \in S }

(* failOperation of each: its caller is told, and a cancel of it is put at *)
(* the end. What is left on the queue, and in what order.                  *)
Failed(S) == Kept(S) \union { Cancel(o) : o \in Cut(S) }

Reordered(S) ==
  Among(Kept(S), before)
    \union (Kept(S) \X { Cancel(o) : o \in Cut(S) })
    \union { <<Cancel(p[1]), Cancel(p[2])>> :
                p \in { q \in Cut(S) \X Cut(S) : <<Op(q[1]), Op(q[2])>> \in before } }

Fail(S) == queue' = Failed(S) /\ before' = Reordered(S)

Pending == { o \in Ops : st[o] = "pending" }

Refused(S) == st' = [o \in Ops |-> IF o \in S THEN "refused" ELSE st[o]]

Expire(o) ==
  /\ st[o] = "pending" /\ Refused({o}) /\ Fail({o})
  /\ UNCHANGED <<grant, under, leased, stops, loop, memory, workers, over>> /\ Sound

Revoked(A) == grant' = [a \in Asks |-> IF a \in A /\ grant[a] # "none" THEN "revoked" ELSE grant[a]]

Revoke(a) ==
  /\ grant[a] = "live" /\ Revoked({a})
  /\ LET S == { c \in Calls : st[c] = "pending" /\ under[c] = a } IN
       Refused(S) /\ Fail(S)
  /\ UNCHANGED <<under, leased, stops, loop, memory, workers, over>> /\ Sound

(* The desktop was not heard of for a lease: its grants and operations go. *)
(* (One never heard of has no grants, and its operations expire.)          *)
Disconnect ==
  /\ Revoked(Asks) /\ Refused(Pending) /\ Fail(Pending)
  /\ UNCHANGED <<under, leased, stops, loop, memory, workers, over>> /\ Sound

\* A stop takes the place of the one before it.
Stop ==
  /\ stops < MaxStops /\ stops' = stops + 1
  /\ Revoked(Asks) /\ Refused(Pending)
  /\ LET Q == { i \in Failed(Pending) : i[1] # "stop" } IN
       Put(Q, Among(Q, Reordered(Pending)), <<"stop", stops'>>)
  /\ UNCHANGED <<under, leased, loop, memory, workers, over>> /\ Sound

IsLeased(i) == \E n \in DOMAIN leased : leased[n] = i

\* Mutant: what is at the head of the queue is waited for.
AvailableInFront == { i \in queue : ~IsLeased(i) /\ \A j \in queue : <<j, i>> \notin before }

Available == { i \in queue : ~IsLeased(i) }
IsFirst(i) == i \in Available /\ \A j \in Available : <<j, i>> \notin before

(* The lease of what was handed out lapses, the oldest first. It is        *)
(* fifteen polls long: what waits is handed out before.                    *)
Lapse ==
  /\ leased # <<>> /\ Available = {}
  /\ leased' = Tail(leased)
  /\ UNCHANGED <<st, grant, under, queue, before, stops, loop, memory, workers, over>> /\ Sound

\* Mutant: a result is taken though the operation was settled meanwhile.
ResolveSettled(i, ok) ==
  /\ queue' = queue \ {i} /\ before' = Among(queue', before)
  /\ st' = IF i[1] = "op" THEN [st EXCEPT ![i[2]] = ok] ELSE st
  /\ grant' = IF i[1] = "op" /\ i[2] \in Asks /\ ok = "ok"
              THEN [grant EXCEPT ![i[2]] = "live"] ELSE grant

\* resolveDesktopOperation: a result of what is settled already is dropped.
Resolve(i, ok) ==
  IF i \notin queue THEN UNCHANGED <<st, grant, queue, before>>
  ELSE /\ queue' = queue \ {i} /\ before' = Among(queue', before)
       /\ st' = IF i[1] = "op" THEN [st EXCEPT ![i[2]] = ok] ELSE st
       /\ grant' = IF i[1] = "op" /\ i[2] \in Asks /\ ok = "ok"
                   THEN [grant EXCEPT ![i[2]] = "live"] ELSE grant

\* A result that is posted, or lost on its way.
Post(i, ok) ==
  /\ \/ Resolve(i, ok) /\ Sound
     \/ Fault("result") /\ UNCHANGED <<st, grant, queue, before>>
  /\ UNCHANGED <<under, leased, stops>>

-----------------------------------------------------------------------------
(* The desktop's loop: one poll, then what it brought.                     *)
Poll ==
  /\ hand = <<>>
  /\ \E i \in queue : IsFirst(i) /\ leased' = Append(leased, i) /\ hand' = i
  /\ UNCHANGED <<st, grant, under, queue, before, stops, removing, marked, memory, workers, over>> /\ Sound

\* The poll got no answer; the broker may have handed something out all the same.
PollFails ==
  /\ hand = <<>> /\ Fault("poll") /\ hand' = <<"failed", None>>
  /\ \/ UNCHANGED leased
     \/ \E i \in queue : IsFirst(i) /\ leased' = Append(leased, i)
  /\ UNCHANGED <<st, grant, under, queue, before, stops, removing, marked, memory, workers, over>>

\* revoke_all_and_stop, once no container is being created.
RevokeAll ==
  /\ hand = <<"failed", None>> /\ ~EffectHeld /\ hand' = <<>>
  /\ local' = [a \in Asks |-> IF local[a] = "unknown" THEN "unknown" ELSE "revoked"]
  /\ \/ up' = up \ running /\ running' = {} /\ Sound
     \/ running # {} /\ Fault("engine") /\ UNCHANGED <<up, running>>
  /\ UNCHANGED <<server, removing, marked, canceled, completed, work, result, started, over>>

(* spawn_operation: a worker of its own, unless this operation has one     *)
(* still; refused if it was canceled, or the Bot has another in progress.  *)
Accept ==
  /\ hand # <<>> /\ hand[1] = "op" /\ hand' = <<>>
  /\ LET o == hand[2] IN
       \/ o \in Active /\ UNCHANGED <<server, work>> /\ Sound
       \/ /\ o \notin Active /\ (o \in canceled \/ Active # {})
          /\ Post(hand, "refused") /\ UNCHANGED work
       \/ /\ o \notin canceled /\ Active = {}
          /\ work' = [work EXCEPT ![o] = "begun"] /\ UNCHANGED server /\ Sound
  /\ UNCHANGED <<removing, marked, memory, result, running, up, started, over>>

\* Mutant: a cancel is remembered of its operation only.
HitNone(i) == {}

\* The grants a cancel or a stop revokes on the desktop: the one its operation ran under, or all.
Hit(i) == IF i[1] = "stop" THEN Asks ELSE IF i[2] \in Calls THEN {under[i[2]]} ELSE {}

CancelOrStop ==
  /\ hand # <<>> /\ hand[1] \in {"cancel", "stop"}
  /\ canceled' = IF hand[1] = "cancel" THEN canceled \union {hand[2]} ELSE canceled
  /\ local' = [a \in Asks |-> IF a \in Hit(hand) /\ local[a] # "unknown" THEN "revoked" ELSE local[a]]
  /\ removing' = { c \in running : under[c] \in Hit(hand) \/ c = hand[2] }
  /\ marked' = IF hand[1] = "stop" THEN Active ELSE {hand[2]}
  /\ hand' = <<"removing", hand>>
  /\ UNCHANGED <<server, completed, workers, over>> /\ Sound

Removed ==
  /\ hand # <<>> /\ hand[1] = "removing" /\ hand' = <<>>
  /\ up' = up \ removing /\ running' = running \ removing
  /\ over' = over \union marked /\ removing' = {} /\ marked' = {}
  /\ Post(hand[2], "ok")
  /\ UNCHANGED <<memory, work, result, started>>

\* The engine does not remove one: the failure is posted, and the broker forgets the cancel.
RemoveFails ==
  /\ hand # <<>> /\ hand[1] = "removing" /\ removing # {} /\ hand' = <<>>
  /\ Fault("engine") /\ removing' = {} /\ marked' = {}
  /\ Resolve(hand[2], "refused")
  /\ UNCHANGED <<under, leased, stops, memory, workers, over>>

-----------------------------------------------------------------------------
(* A worker.                                                               *)
Goto(o, stage) == work' = [work EXCEPT ![o] = stage]

Answer(o, ok) == Goto(o, "posting") /\ result' = [result EXCEPT ![o] = ok]

\* Mutant: an operation is not remembered once it was let in.
RememberedNot(o) == completed

Remembered(o) == completed \union {o}

\* handle_operation: a replay is refused; a call needs its grant.
Admit(o) ==
  /\ work[o] = "begun"
  /\ \/ /\ o \in canceled \union completed /\ Answer(o, "refused") /\ UNCHANGED completed
     \/ /\ o \notin canceled \union completed /\ completed' = Remembered(o)
        /\ IF o \in Calls /\ local[under[o]] # "held" THEN Answer(o, "refused")
           ELSE Goto(o, "asking") /\ UNCHANGED result
  /\ UNCHANGED <<server, loop, local, canceled, running, up, started, over>> /\ Sound

(* The person agreed, or nobody had to; then what may have changed         *)
(* meanwhile is looked at again. Or they refused, or it took too long.     *)
Approve(o) ==
  /\ work[o] = "asking"
  /\ IF o \in canceled \/ (o \in Calls /\ local[under[o]] # "held") THEN Answer(o, "refused")
     ELSE Goto(o, "allowed") /\ UNCHANGED result
  /\ UNCHANGED <<server, loop, memory, running, up, started, over>> /\ Sound

Decline(o) ==
  /\ work[o] = "asking" /\ Answer(o, "refused")
  /\ UNCHANGED <<server, loop, memory, running, up, started, over>> /\ Sound

Grant(a) ==
  /\ work[a] = "allowed" /\ Answer(a, "ok")
  /\ local' = [local EXCEPT ![a] = "held"]
  /\ UNCHANGED <<server, loop, canceled, completed, running, up, started, over>> /\ Sound

\* The container is created under the effect lock.
Create(c) ==
  /\ work[c] = "allowed" /\ ~EffectHeld
  /\ Goto(c, "created") /\ up' = up \union {c}
  /\ UNCHANGED <<server, loop, memory, result, running, started, over>> /\ Sound

(* Created: one whose grant went meanwhile is removed, unstarted.          *)
Register(c) ==
  /\ work[c] = "created"
  /\ \/ /\ local[under[c]] # "held" /\ Answer(c, "refused")
        /\ UNCHANGED running
        /\ \/ up' = up \ {c} /\ Sound
           \/ Fault("engine") /\ UNCHANGED up
     \/ /\ local[under[c]] = "held" /\ Goto(c, "registered")
        /\ running' = running \union {c} /\ UNCHANGED <<up, result>> /\ Sound
  /\ UNCHANGED <<server, loop, memory, started, over>>

\* start -a: a container that was removed meanwhile does not start.
Start(c) ==
  /\ work[c] = "registered"
  /\ IF c \in up
     THEN /\ started' = [started EXCEPT ![c] = @ + 1] /\ Goto(c, "started") /\ UNCHANGED result
     ELSE Answer(c, "refused") /\ UNCHANGED started
  /\ UNCHANGED <<server, loop, memory, running, up, over>> /\ Sound

\* The command ended, ran out of time, or its container was removed under it.
Finish(c) ==
  /\ work[c] = "started"
  /\ \E ok \in {"ok", "refused"} : (c \notin up => ok = "refused") /\ Answer(c, ok)
  /\ up' = up \ {c} /\ running' = running \ {c}
  /\ UNCHANGED <<server, loop, memory, started, over>> /\ Sound

PostResult(o) ==
  /\ work[o] = "posting" /\ Goto(o, "idle") /\ result' = [result EXCEPT ![o] = "none"]
  /\ Post(Op(o), result[o])
  /\ UNCHANGED <<loop, memory, running, up, started, over>>

(* The desktop dies and is started again: it remembers nothing, and what   *)
(* containers it left behind are nobody's.                                 *)
Crash ==
  /\ Fault("crash")
  /\ hand' = <<>> /\ removing' = {} /\ marked' = {}
  /\ local' = [a \in Asks |-> "unknown"] /\ canceled' = {} /\ completed' = {}
  /\ work' = [o \in Ops |-> "idle"] /\ result' = [o \in Ops |-> "none"]
  /\ running' = {} /\ up' = {}
  /\ UNCHANGED <<server, started, over>>

Broker ==
  \/ \E a \in Asks : Ask(a) \/ Revoke(a) \/ \E c \in Calls : Call(c, a)
  \/ \E o \in Ops : Expire(o)
  \/ Disconnect \/ Stop \/ Lapse

Loop == Poll \/ RevokeAll \/ Accept \/ CancelOrStop \/ Removed

Worker(o) ==
  \/ Admit(o) \/ Approve(o) \/ Decline(o) \/ PostResult(o)
  \/ o \in Asks /\ Grant(o)
  \/ o \in Calls /\ (Create(o) \/ Register(o) \/ Start(o) \/ Finish(o))

Next ==
  \/ Broker \/ Loop \/ PollFails \/ RemoveFails \/ Crash
  \/ \E o \in Ops : Worker(o)

Spec == Init /\ [][Next]_vars

\* The desktop goes on polling and handling, a lease lapses, a created container is looked at.
Fairness ==
  /\ WF_vars(Loop)
  /\ WF_vars(Lapse)
  /\ WF_vars(\E c \in Calls : Register(c))

FairSpec == Spec /\ Fairness

-----------------------------------------------------------------------------
(* The order of a Map: of two things there one is before the other, and    *)
(* what is before a thing is before all that comes after it.               *)
Ordered(Q, r) ==
  /\ r \subseteq Q \X Q
  /\ \A i, j \in Q : <<i, j>> \in r => <<j, i>> \notin r
  /\ \A i, j \in Q : i = j \/ <<i, j>> \in r \/ <<j, i>> \in r
  /\ \A i, j, k \in Q : <<i, j>> \in r /\ <<j, k>> \in r => <<i, k>> \in r

(* Every variable keeps its type; an operation pends exactly while it is   *)
(* on the broker's queue, and of two things there one is before the other. *)
TypeOK ==
  /\ st \in [Ops -> {"unasked", "pending", "ok", "refused"}]
  /\ grant \in [Asks -> {"none", "live", "revoked"}]
  /\ under \in [Calls -> Asks \union {None}]
  /\ queue \subseteq Items /\ Ordered(queue, before)
  /\ \A o \in Ops : st[o] = "pending" <=> Op(o) \in queue
  /\ leased \in Seq(Items)
  /\ removing \subseteq Calls /\ marked \subseteq Ops
  /\ local \in [Asks -> {"unknown", "held", "revoked"}]
  /\ canceled \subseteq Ops /\ completed \subseteq Ops /\ over \subseteq Ops
  /\ work \in [Ops -> {"idle", "begun", "asking", "allowed", "created", "registered", "started", "posting"}]
  /\ result \in [Ops -> {"none", "ok", "refused"}]
  /\ running \subseteq Calls /\ up \subseteq Calls /\ started \in [Calls -> 0..2]
  /\ stops \in 0..MaxStops /\ mishaps \in 0..MaxMishaps

(* A call's command is started at most once, however often its operation   *)
(* is handed out: answers get lost, leases lapse under an open approval,   *)
(* and a desktop that forgot everything is asked again.                    *)
RunsOnce == \A c \in Calls : started[c] <= 1

(* Once the desktop has carried out a cancel or a stop, no container of    *)
(* the operations it was about runs, or will: not one that was being       *)
(* created or waited for the person meanwhile.                             *)
CanceledIsOver == \A c \in over \intersect Calls : ~(c \in up /\ c \in running)

(* What the person and the Bot are promised of it: FolderLoan, of which    *)
(* every step of broker, loop and workers is a step, or changes nothing.   *)
Loan == INSTANCE FolderLoan WITH told <- st, lent <- grant, ran <- started

ImplementsLoan == Loan!Spec

-----------------------------------------------------------------------------
(* What keeps those true, a conjunct a reason.                             *)

(* The loop has nothing, a failed poll, an item, or a cancel or a stop it  *)
(* is carrying out.                                                        *)
Told == { i \in Items : i[1] # "op" }

HandIsKnown ==
  hand \in {<<>>, <<"failed", None>>} \union Items \union ({"removing"} \X Told)

(* A worker that has something to post knows what.                         *)
PostIsKnown == \A o \in Ops : work[o] = "posting" => result[o] # "none"

(* Nothing is about an operation nobody asked for; a call that was asked   *)
(* for names a grant; a cancel is of what its caller was refused.          *)
NothingUnasked ==
  /\ \A o \in Ops : Cancel(o) \in queue => st[o] = "refused"
  /\ \A o \in Ops :
       hand \in {Op(o), Cancel(o)} \/ work[o] # "idle" \/ o \in marked \union over
         => st[o] # "unasked"
  /\ \A c \in Calls : started[c] > 0 => st[c] # "unasked"
  /\ \A c \in Calls : st[c] # "unasked" => under[c] \in Asks /\ grant[under[c]] # "none"

(* What was let in is remembered, for as long as the desktop is up.        *)
LetIn == {"asking", "allowed", "created", "registered", "started"}

LetInIsRemembered ==
  \A o \in Ops :
    work[o] \in LetIn \/ (work[o] = "posting" /\ result[o] = "ok") => o \in completed

(* The person may yet be asked for this folder.                            *)
Grantable(a) ==
  \/ work[a] \in {"asking", "allowed"}
  \/ a \notin completed /\ (work[a] = "begun" \/ hand = Op(a) \/ Op(a) \in queue)

(* A folder the server has a grant for is not granted on the desktop again,*)
(* not even by a desktop that forgot it.                                   *)
GrantedOnce == \A a \in Asks : grant[a] # "none" => st[a] = "ok" /\ ~Grantable(a)

(* A call that ran is past running, and remembered; or what it ran under   *)
(* is gone.                                                                *)
RanIsSpent ==
  \A c \in Calls :
    started[c] > 0 =>
      /\ started[c] = 1 /\ work[c] \notin {"asking", "allowed", "created", "registered"}
      /\ c \in completed \/ local[under[c]] # "held"

(* What a worker says it did, it did.                                      *)
ReportsAreTrue ==
  \A c \in Calls :
    work[c] = "started" \/ (work[c] = "posting" /\ result[c] = "ok") => started[c] > 0

(* A container that may yet be started is one that a cancel finds.         *)
StartableIsFound == \A c \in Calls : work[c] = "registered" /\ c \in up => c \in running

(* What is being canceled, or was, has lost its grant; it is not running,  *)
(* or is being removed.                                                    *)
CanceledHasNothing ==
  /\ \A c \in Calls \intersect (marked \union over) : local[under[c]] # "held"
  /\ marked \intersect running \subseteq removing
  /\ over \intersect running = {}

IInv ==
  /\ TypeOK /\ HandIsKnown /\ PostIsKnown /\ NothingUnasked /\ LetInIsRemembered
  /\ GrantedOnce /\ RanIsSpent /\ ReportsAreTrue /\ StartableIsFound /\ CanceledHasNothing

(* A cancel gets to the desktop, whatever polls fail and results are lost. *)
CancelArrives ==
  \A o \in Ops : Cancel(o) \in queue ~> o \in canceled
=============================================================================
