------------------------------- MODULE Handoff -------------------------------
(***************************************************************************)
(* One Bot handing work to another: server/src/agents/handoff.ts offers a  *)
(* hop, handoff-runner.ts sweeps hops and has handoff-delivery.ts run the  *)
(* addressed Bot's turn, and what came of it goes back to the person       *)
(* through the same queue, as a relay of the answer or a notice that none  *)
(* came. Replicas stall, lose their leases and die between any two calls,  *)
(* and calls to the database fail.                                         *)
(***************************************************************************)
EXTENDS WorkTable

CONSTANTS
  Asks,               \* the different things one run may ask of other Bots
  Limit,              \* how many hops one sweep takes
  MaxPerRun,          \* caps.maxPerRun
  Failing,            \* what may fail: "turn", "queue", "audit"
  LongStalls,         \* whether a replica may sit on an item for the whole reap window
  MaxMishaps          \* bound: how many calls to the database fail and replicas die, together

(* The keys of the queue: a hop under its run's prefix, and outside it the *)
(* relay:<key> and notice:<key> that carry the hop's outcome home.         *)
Legs == [leg : {"hop", "relay", "notice"}, ask : Asks]

ASSUME HandoffAssumption ==
  /\ Keys = Legs
  /\ Limit \in Nat \ {0} /\ MaxPerRun \in Nat
  /\ Failing \subseteq {"turn", "queue", "audit"}
  /\ LongStalls \in BOOLEAN
  /\ MaxMishaps \in Nat

Hop(a)    == [leg |-> "hop",    ask |-> a]
Relay(a)  == [leg |-> "relay",  ask |-> a]
Notice(a) == [leg |-> "notice", ask |-> a]

\* No answerIn on the work: it goes to the Bot that was asked.
Forward(k) == k.leg = "hop"

VARIABLES
  work,       \* the rows of kind HANDOFF_KIND
  claimed,    \* per replica: what its sweep claimed and has not reached yet
  doing,      \* per replica: the item being delivered and how far it got, at most one
  talking,    \* somebody else's run holds the asking conversation's lock
  ever,       \* the keys ever offered (history)
  turns,      \* per key: how many turns a Bot has run for it (history)
  reports,    \* per key: how many replicas reported it delivered (history)
  answered,   \* asks whose hop was finished with words (history)
  retried,    \* keys with an agent.handoff_retried row in the trail
  mishaps

vars == <<work, claimed, doing, talking, ever, turns, reports, answered, retried, mishaps>>
trail == <<turns, reports, answered, retried>>

Item == [key : Keys, attempts : 1..MaxAttempts]

Stage == {"deliver", "worded", "wordless", "relay", "record", "failing", "release"}

At(i, stage) == [item |-> i, at |-> stage]

Init ==
  /\ work = EmptyTable
  /\ claimed = [o \in Owners |-> {}] /\ doing = [o \in Owners |-> {}]
  /\ talking = FALSE
  /\ ever = {} /\ answered = {} /\ retried = {}
  /\ turns = [k \in Keys |-> 0] /\ reports = [k \in Keys |-> 0]
  /\ mishaps = 0

Mishap == mishaps < MaxMishaps /\ mishaps' = mishaps + 1

Fault(call) == call \in Failing /\ Mishap

Sound == UNCHANGED mishaps

-----------------------------------------------------------------------------
(* send, past its refusals. Counting the run's hops and offering is one    *)
(* step (WorkQueue's CapHolds). The asking run is long over before a hop   *)
(* is reaped, so it asks the same thing again only while the row is there, *)
(* which offers nothing.                                                   *)
Send(a) ==
  /\ Hop(a) \notin ever
  /\ Cardinality({ b \in Asks : work[Hop(b)].st # "absent" }) < MaxPerRun
  /\ work' = Offered(work, Hop(a), 0)
  /\ ever' = ever \union {Hop(a)}
  /\ UNCHANGED <<claimed, doing, talking, trail>> /\ Sound

-----------------------------------------------------------------------------
Held(o) == { i.key : i \in claimed[o] } \union { d.item.key : d \in doing[o] }

Idle(o) == claimed[o] = {} /\ doing[o] = {}

Sweep(o) ==
  /\ Idle(o)
  /\ \E S \in Batches(work, Limit) :
       /\ S # {}
       /\ work' = Claimed(work, S, o)
       /\ claimed' = [claimed EXCEPT ![o] =
                        { [key |-> k, attempts |-> work[k].attempts + 1] : k \in S }]
  /\ UNCHANGED <<doing, talking, ever, trail>> /\ Sound

\* Mutant: a second attempt is taken for a fresh one.
TriedBeforeOffByOne(i) == i.attempts > 2

\* A hop that has already been tried is not a fresh one.
TriedBefore(i) == i.attempts > 1

(* The next item: a retry is put on record, then the lease is asked for.   *)
Begin(o) ==
  /\ doing[o] = {}
  /\ \E i \in claimed[o] :
       /\ claimed' = [claimed EXCEPT ![o] = @ \ {i}]
       /\ retried' = IF TriedBefore(i) THEN retried \union {i.key} ELSE retried
       /\ work' = Renewed(work, i.key, o)
       /\ doing' = [doing EXCEPT ![o] =
                      IF Ours(work, i.key, o) THEN {At(i, "deliver")} ELSE {}]
  /\ UNCHANGED <<talking, ever, turns, reports, answered>> /\ Sound

(* Neither call is inside the try: one that throws, a renew whether or not *)
(* it was committed, ends the whole sweep, and the rest of the batch stays *)
(* leased until it lapses.                                                 *)
BeginThrows(o) ==
  /\ doing[o] = {}
  /\ \E i \in claimed[o] :
       \/ TriedBefore(i) /\ Fault("audit") /\ UNCHANGED <<work, retried>>
       \/ /\ Fault("queue")
          /\ work' \in {work, Renewed(work, i.key, o)}
          /\ retried' = IF TriedBefore(i) THEN retried \union {i.key} ELSE retried
  /\ claimed' = [claimed EXCEPT ![o] = {}]
  /\ UNCHANGED <<doing, talking, ever, turns, reports, answered>>

(* The interval that renews everything the sweep still thinks is its own.  *)
Heartbeat(o) ==
  /\ \E k \in Held(o) : work' = Renewed(work, k, o)
  /\ UNCHANGED <<claimed, doing, talking, ever, trail>> /\ Sound

Goto(o, i, stage) == doing' = [doing EXCEPT ![o] = {At(i, stage)}]
Clear(o) == doing' = [doing EXCEPT ![o] = {}]

\* A hop runs in a scratch thread of its own, its outcome in the asking conversation.
Locked(k) == ~Forward(k) /\ talking

(* deliver. It throws before any turn (the Bot cannot be built, the        *)
(* history cannot be read, the conversation is locked), or runs one that   *)
(* fails or passes its deadline, says something, or says nothing.          *)
Deliver(o) ==
  /\ \E d \in doing[o] :
       /\ d.at = "deliver"
       /\ \/ /\ "turn" \in Failing \/ Locked(d.item.key)
             /\ Goto(o, d.item, "failing")
             /\ UNCHANGED turns
          \/ /\ ~Locked(d.item.key)
             /\ turns' = [turns EXCEPT ![d.item.key] = @ + 1]
             /\ \/ \E stage \in {"worded", "wordless"} : Goto(o, d.item, stage)
                \/ "turn" \in Failing /\ Goto(o, d.item, "failing")
  /\ UNCHANGED <<work, claimed, talking, ever, reports, answered, retried>> /\ Sound

\* Mutant: the answer stays in the scratch thread.
AfterTurnSilent(i, stage) == "record"

\* Only a forward hop with words to carry has anything to relay.
AfterTurn(i, stage) == IF Forward(i.key) /\ stage = "worded" THEN "relay" ELSE "record"

(* finish, and what its answer decides: kept, this replica reports the hop *)
(* delivered; not kept, only the trail hears of the turn.                  *)
Finish(o) ==
  /\ \E d \in doing[o] :
       LET k == d.item.key IN
       /\ d.at \in {"worded", "wordless"}
       /\ work' = Finished(work, k, o)
       /\ \/ /\ Ours(work, k, o)
             /\ reports' = [reports EXCEPT ![k] = @ + 1]
             /\ answered' = IF Forward(k) /\ d.at = "worded"
                            THEN answered \union {k.ask} ELSE answered
             /\ Goto(o, d.item, AfterTurn(d.item, d.at))
             /\ UNCHANGED retried /\ Sound
          \/ /\ ~Ours(work, k, o)
             /\ \/ Clear(o) /\ retried' = retried \union {k} /\ Sound
                \/ Goto(o, d.item, "failing") /\ Fault("audit") /\ UNCHANGED retried
             /\ UNCHANGED <<reports, answered>>
  /\ UNCHANGED <<claimed, talking, ever, turns>>

\* finish throws, whether or not the database had committed it.
FinishThrows(o) ==
  /\ \E d \in doing[o] :
       /\ d.at \in {"worded", "wordless"}
       /\ work' \in {work, Finished(work, d.item.key, o)}
       /\ Goto(o, d.item, "failing")
  /\ Fault("queue")
  /\ UNCHANGED <<claimed, talking, ever, trail>>

\* A relay that cannot be queued is swallowed.
OfferRelay(o) ==
  /\ \E d \in doing[o] :
       /\ d.at = "relay"
       /\ Goto(o, d.item, "record")
       /\ \/ /\ work' = Offered(work, Relay(d.item.key.ask), 0)
             /\ ever' = ever \union {Relay(d.item.key.ask)}
             /\ Sound
          \/ Fault("queue") /\ UNCHANGED <<work, ever>>
  /\ UNCHANGED <<claimed, talking, trail>>

\* agent.handoff_delivered; inside the try, so a trail that cannot be written is a failed hop.
Record(o) ==
  /\ \E d \in doing[o] :
       /\ d.at = "record"
       /\ \/ Clear(o) /\ Sound
          \/ Goto(o, d.item, "failing") /\ Fault("audit")
  /\ UNCHANGED <<work, claimed, talking, ever, trail>>

\* Mutants: every failure is told, or the ceiling here is above claim's.
EveryTry(i) == Forward(i.key)
LastTryOfMore(i) == i.attempts > MaxAttempts /\ Forward(i.key)

LastTry(i) == i.attempts >= MaxAttempts /\ Forward(i.key)

(* The catch. On the last try the person is told, before the release.      *)
Tell(o) ==
  /\ \E d \in doing[o] :
       /\ d.at = "failing"
       /\ Goto(o, d.item, "release")
       /\ IF LastTry(d.item)
          THEN \/ /\ work' = Offered(work, Notice(d.item.key.ask), 0)
                  /\ ever' = ever \union {Notice(d.item.key.ask)}
                  /\ Sound
               \/ Fault("queue") /\ UNCHANGED <<work, ever>>
          ELSE UNCHANGED <<work, ever>> /\ Sound
  /\ UNCHANGED <<claimed, talking, trail>>

\* release, then agent.handoff_failed. Outside any try: either one throwing ends the sweep.
Release(o) ==
  /\ \E d \in doing[o] :
       /\ d.at = "release"
       /\ \/ work' = Released(work, d.item.key, o) /\ UNCHANGED claimed /\ Sound
          \/ /\ work' = Released(work, d.item.key, o) /\ Fault("audit")
             /\ claimed' = [claimed EXCEPT ![o] = {}]
          \/ /\ work' \in {work, Released(work, d.item.key, o)} /\ Fault("queue")
             /\ claimed' = [claimed EXCEPT ![o] = {}]
  /\ Clear(o)
  /\ UNCHANGED <<talking, ever, trail>>

-----------------------------------------------------------------------------
Crash(o) ==
  /\ Mishap
  /\ ~Idle(o)
  /\ claimed' = [claimed EXCEPT ![o] = {}]
  /\ Clear(o)
  /\ UNCHANGED <<work, talking, ever, trail>>

\* The person's own run, or the asking Bot's, takes and gives back the conversation.
Converse ==
  /\ talking' = ~talking
  /\ UNCHANGED <<work, claimed, doing, ever, trail>> /\ Sound

Reap ==
  /\ LongStalls \/ \A o \in Owners : \A k \in Held(o) : ~Reapable(work[k])
  /\ work' = Purged(work)
  /\ UNCHANGED <<claimed, doing, talking, ever, trail>> /\ Sound

Tick ==
  /\ work' = Elapsed(work)
  /\ UNCHANGED <<claimed, doing, talking, ever, trail>> /\ Sound

\* One item's steps that no call failing is needed for.
Step(o) == Begin(o) \/ Deliver(o) \/ Finish(o) \/ OfferRelay(o) \/ Record(o) \/ Tell(o) \/ Release(o)

Next ==
  \/ \E a \in Asks : Send(a)
  \/ \E o \in Owners : \/ Sweep(o) \/ Step(o) \/ Heartbeat(o)
                       \/ BeginThrows(o) \/ FinishThrows(o) \/ Crash(o)
  \/ Converse \/ Reap \/ Tick

Spec == Init /\ [][Next]_vars

(* Sweeps are repeated and poked, every call of a delivery is bounded by   *)
(* its deadline, conversations come free again, and the clock moves.       *)
Fairness ==
  /\ WF_vars(Tick) /\ WF_vars(Reap)
  /\ WF_vars(talking /\ Converse)
  /\ \A o \in Owners : WF_vars(Sweep(o)) /\ WF_vars(Step(o))

FairSpec == Spec /\ Fairness

-----------------------------------------------------------------------------
TypeOK ==
  /\ work \in Table
  /\ claimed \in [Owners -> SUBSET Item]
  /\ doing \in [Owners -> SUBSET [item : Item, at : Stage]]
  /\ \A o \in Owners : \A d, e \in doing[o] : d = e
  /\ talking \in BOOLEAN
  /\ ever \subseteq Keys /\ answered \subseteq Asks /\ retried \subseteq Keys
  /\ turns \in [Keys -> Nat] /\ reports \in [Keys -> Nat]
  /\ mishaps \in 0..MaxMishaps

\* What a replica has in hand, and what of it has not begun its turn.
ItemsOf(o) == claimed[o] \union { d.item : d \in doing[o] }
Unbegun(o) == claimed[o] \union { d.item : d \in { e \in doing[o] : e.at = "deliver" } }
Waiting(k, n) == \E o \in Owners : [key |-> k, attempts |-> n] \in Unbegun(o)

(* However many replicas ran a hop, at most one of them reports that it    *)
(* delivered it: the others find at finish that it is not theirs.          *)
OneReport == \A k \in Keys : reports[k] <= 1

(* The money a hop can cost is bounded: whatever stalls, dies or fails,    *)
(* the Bot at the other end runs at most once per attempt.                 *)
TurnsAreBounded == \A k \in Keys : turns[k] <= MaxAttempts

(* Two turns for one hop are never a mystery: from the second on, the      *)
(* trail already says a previous attempt may have run the Bot.             *)
SecondTurnIsOnRecord == \A k \in Keys : turns[k] > 1 => k \in retried

(* A person told that nothing came back is told for good: a hop with a     *)
(* notice is never handed out again, and whoever still has it before its   *)
(* turn has it from an earlier attempt and lost the row since: only a      *)
(* replica that stalled past its lease between renew and deliver runs the  *)
(* Bot after the notice. The runner's ceiling and the queue's have to      *)
(* agree for this.                                                         *)
NoticeIsFinal ==
  \A a \in Asks : Notice(a) \in ever =>
    /\ work[Hop(a)].st = "open" => work[Hop(a)].attempts = MaxAttempts
    /\ \A o \in Owners : \A i \in Unbegun(o) : i.key = Hop(a) =>
         i.attempts < MaxAttempts /\ ~Ours(work, Hop(a), o)

(* The comment at claim's ceiling is about a Bot that may answer after     *)
(* they were told it would not: no turn for a hop starts after its notice. *)
(* The stall above breaks it.                                              *)
NoTurnAfterNotice ==
  [][\A a \in Asks : Notice(a) \in ever => UNCHANGED turns[Hop(a)]]_vars

(* A person told that nothing came back is told the truth: the hop was not *)
(* reported delivered, by any replica.                                     *)
NoticeIsTrue ==
  \A a \in Asks : Notice(a) \in ever => a \notin answered /\ reports[Hop(a)] = 0

(* What the properties rest on, with TypeOK. An item is one hand-out of a  *)
(* key: no other replica has the same, none is newer than the row, and its *)
(* owner has the newest. A key is offered once: whatever is known of it,   *)
(* it was offered; a relay follows the one report, a notice the last try.  *)
Known ==
  /\ \A k \in Keys : work[k].st # "absent" \/ turns[k] > 0 \/ reports[k] > 0 => k \in ever
  /\ \A o \in Owners : \A i \in ItemsOf(o) : i.key \in ever

Fits(o, i) ==
  /\ work[i.key].st # "absent" => i.attempts <= work[i.key].attempts
  /\ Ours(work, i.key, o) => i.attempts = work[i.key].attempts

HandedOutOnce ==
  /\ \A o \in Owners : \A i \in ItemsOf(o) : Fits(o, i)
  /\ \A o, p \in Owners : \A i \in ItemsOf(o) : i \in ItemsOf(p) => o = p
  /\ \A o \in Owners : \A d \in doing[o] : d.item \notin claimed[o]

ReportedOnce == \A k \in Keys : reports[k] <= 1 /\ (reports[k] > 0 => work[k].st # "open")

RelayedOnce ==
  /\ \A a \in Asks : Relay(a) \in ever => reports[Hop(a)] > 0
  /\ \A o \in Owners : \A d \in doing[o] : d.at = "relay" =>
       /\ Forward(d.item.key) /\ reports[d.item.key] > 0 /\ Relay(d.item.key.ask) \notin ever
       /\ \A p \in Owners : \A e \in doing[p] : e.at = "relay" /\ e.item.key = d.item.key => o = p

NoticedLast ==
  \A a \in Asks : Notice(a) \in ever =>
    /\ Hop(a) \in ever
    /\ work[Hop(a)].st # "absent" => work[Hop(a)].attempts = MaxAttempts
    /\ \A o \in Owners : /\ \A i \in claimed[o] : i.key = Hop(a) => i.attempts < MaxAttempts
                         /\ \A d \in doing[o] : d.item = [key |-> Hop(a), attempts |-> MaxAttempts]
                                                 => d.at = "release"

RetriedIsOnRecord ==
  /\ \A o \in Owners : \A d \in doing[o] : d.item.attempts > 1 => d.item.key \in retried
  /\ \A k \in Keys \ retried : turns[k] <= 1 /\ (turns[k] > 0 => ~Waiting(k, 1))

(* The attempts that were handed out and are past their turn, or will      *)
(* never have one.                                                         *)
Passed(k, n) == ~Waiting(k, n) /\ IF work[k].st = "absent" THEN k \in ever ELSE n <= work[k].attempts
TurnsArePassed ==
  \A k \in Keys : turns[k] <= Cardinality({ n \in 1..MaxAttempts : Passed(k, n) })

IInv == /\ TypeOK /\ Known /\ HandedOutOnce /\ ReportedOnce /\ RelayedOnce
        /\ NoticedLast /\ RetriedIsOnRecord /\ TurnsArePassed

(* A hop handed on is heard of again: delivered without words, or followed *)
(* by its relay or its notice.                                             *)
HeardOf(a) == \/ Relay(a) \in ever \/ Notice(a) \in ever
              \/ reports[Hop(a)] > 0 /\ a \notin answered

AskIsHeardOf == \A a \in Asks : Hop(a) \in ever ~> HeardOf(a)

(* An answer that was delivered is carried back.                           *)
AnswerIsRelayed == \A a \in Asks : a \in answered ~> Relay(a) \in ever

(* A hop that ran out of attempts is said out loud.                        *)
GivenUpIsTold ==
  \A a \in Asks : GaveUp(work[Hop(a)]) ~> (Notice(a) \in ever \/ reports[Hop(a)] > 0)

(* A relay is spoken in the conversation sooner or later: its being busy   *)
(* is a wait and not a failure.                                            *)
RelayIsSpoken == \A a \in Asks : Relay(a) \in ever ~> turns[Relay(a)] > 0
=============================================================================
