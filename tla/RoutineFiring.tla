---------------------------- MODULE RoutineFiring -----------------------------
(***************************************************************************)
(* What becomes of a firing of a routine once it is on the queue: the      *)
(* dispatching half of server/src/routines/sweep.ts claims it, opens a run *)
(* and posts it to the server; server/src/routines/runner.ts runs the turn *)
(* on its own time and closes the run; the sweep closes those nobody will  *)
(* come back for. One routine, whose occurrences are the keys. Sweeps and  *)
(* servers stall and die, and a post may be accepted without an answer.    *)
(***************************************************************************)
EXTENDS WorkTable, Sequences

CONSTANTS
  Limit,              \* how many firings one pass claims
  Grace,              \* DEFAULT_GRACE_MS, in ticks
  Interval,           \* MINIMUM_INTERVAL_MS, in ticks
  Abandoned,          \* ABANDONED_RUN_MS, in ticks
  FatigueLimit,       \* FATIGUE_LIMIT
  ScanLimit,          \* FAILURE_SCAN_LIMIT
  MaxDispatch,        \* bound: how old a run may be when the server takes it on
  MaxTurn,            \* bound: how long a turn may take (the code's own deadline)
  Failing,            \* what may fail: "dispatch", "turn", "channel"
  MaxMishaps          \* bound: sweeps and turns that die and calls that throw, together

ASSUME FiringAssumption ==
  /\ Limit \in Nat \ {0}
  /\ Grace \in Nat /\ Interval \in Nat /\ Grace < Interval
  /\ FatigueLimit \in Nat \ {0} /\ ScanLimit \in Nat /\ FatigueLimit <= ScanLimit
  /\ Failing \subseteq {"dispatch", "turn", "channel"}
  /\ MaxMishaps \in Nat
ASSUME TimeAssumption ==
  /\ MaxDispatch \in Nat /\ MaxTurn \in Nat /\ Abandoned \in Nat
  /\ MaxDispatch + MaxTurn < Abandoned

VARIABLES
  work,       \* the rows of kind ROUTINE_FIRE_KIND
  late,       \* of each occurrence offered: how long ago it was due
  standing,   \* the routine's row: "on", "off" or "gone"
  runs,       \* its rows of routine_runs, in the order they were started
  reaping,    \* per sweep: it has claimed and not yet reaped
  claimed,    \* per sweep: what it claimed and has not reached yet
  doing,      \* per sweep: the firing in hand and how far it got, at most one
  posts,      \* runs on their way to the server
  turns,      \* what the server is running
  forgiven,   \* a person switched the routine on since its last failure (history)
  untold,     \* a turn died between its failure and the fatigue rule (history)
  slipped,    \* occurrences whose lease lapsed, or whose sweep or dispatch failed (history)
  mishaps

vars == <<work, late, standing, runs, reaping, claimed, doing, posts, turns,
          forgiven, untold, slipped, mishaps>>
sweeps == <<reaping, claimed, doing>>
history == <<forgiven, untold, slipped>>

Init ==
  /\ work = EmptyTable /\ late = [k \in Keys |-> 0]
  /\ standing = "on" /\ runs = <<>>
  /\ reaping = [o \in Owners |-> FALSE]
  /\ claimed = [o \in Owners |-> {}] /\ doing = [o \in Owners |-> {}]
  /\ posts = {} /\ turns = {}
  /\ forgiven = FALSE /\ untold = FALSE /\ slipped = {}
  /\ mishaps = 0

\* A row of routine_runs, and how far the firing it stands for has come.
RunRow(k, st, age, reached) == [key |-> k, st |-> st, age |-> age, reached |-> reached]

Shut(run, st) == RunRow(run.key, st, 0, run.reached)

Mishap == mishaps < MaxMishaps /\ mishaps' = mishaps + 1

Sound == UNCHANGED mishaps

-----------------------------------------------------------------------------
(* The offering half, and the person. An occurrence is offered once        *)
(* (Routines' OncePerMinute), while worth having, and the schedule's floor *)
(* keeps the next one Interval away. Of a routine switched off or removed  *)
(* since the offering sweep read it, the offer is made all the same. One   *)
(* offered late is like one offered in time that nobody has claimed yet.   *)
Offer(k) ==
  /\ work[k].st = "absent"
  /\ \A j \in Keys : work[j].st = "absent" \/ late[j] = Interval
  /\ work' = Offered(work, k, 0)
  /\ UNCHANGED <<late, standing, runs, sweeps, posts, turns, history>> /\ Sound

Switch(st) ==
  /\ standing \in {"on", "off"} \ {st}
  /\ standing' = st
  /\ forgiven' = (st = "on")
  /\ UNCHANGED <<work, late, runs, sweeps, posts, turns, untold, slipped>> /\ Sound

\* A hard delete, and the runs cascade with it.
Remove ==
  /\ standing # "gone"
  /\ standing' = "gone"
  /\ runs' = [r \in DOMAIN runs |-> Shut(runs[r], "gone")]
  /\ UNCHANGED <<work, late, sweeps, posts, turns, history>> /\ Sound

-----------------------------------------------------------------------------
(* finishRun: a run finishes once, and nobody asks its age again.          *)
Closed(rs, r, st) == IF rs[r].st = "open" THEN [rs EXCEPT ![r] = Shut(@, st)] ELSE rs

\* Mutant: every open run of the routine is closed, whatever its age.
AbandonedAny(run) == run.st = "open"

IsAbandoned(run) == run.st = "open" /\ run.age >= Abandoned

(* reapAbandonedRuns: one update. *)
Reaped(rs) ==
  [r \in DOMAIN rs |-> IF IsAbandoned(rs[r]) THEN Shut(rs[r], "skipped") ELSE rs[r]]

Idle(o) == ~reaping[o] /\ claimed[o] = {} /\ doing[o] = {}

\* Mutant: a pass that claimed nothing returns before it reaps.
HasClaimed(S) == S # {}

\* A pass that finds nothing to claim or to reap changes nothing.
HasWork(S) == S # {} \/ \E r \in DOMAIN runs : IsAbandoned(runs[r])

Sweep(o) ==
  /\ Idle(o)
  /\ \E S \in Batches(work, Limit) :
       /\ HasWork(S)
       /\ work' = Claimed(work, S, o)
       /\ claimed' = [claimed EXCEPT ![o] = S]
  /\ reaping' = [reaping EXCEPT ![o] = TRUE]
  /\ UNCHANGED <<late, standing, runs, doing, posts, turns, history>> /\ Sound

\* A reaper that throws is got over, whether or not the database had committed.
Reap(o) ==
  /\ reaping[o]
  /\ reaping' = [reaping EXCEPT ![o] = FALSE]
  /\ \/ runs' = Reaped(runs) /\ Sound
     \/ UNCHANGED runs /\ Mishap
  /\ UNCHANGED <<work, late, standing, claimed, doing, posts, turns, history>>

At(k, stage, r) == [key |-> k, at |-> stage, run |-> r]
Hold(o, d) == doing' = [doing EXCEPT ![o] = {d}]
Goto(o, d, stage) == Hold(o, At(d.key, stage, d.run))
Clear(o) == doing' = [doing EXCEPT ![o] = {}]

(* The next firing: left alone when renew says no. renew is outside the    *)
(* try: one that throws ends the pass, and the rest stays leased.          *)
Begin(o) ==
  /\ ~reaping[o] /\ doing[o] = {}
  /\ \E k \in claimed[o] :
       \/ /\ claimed' = [claimed EXCEPT ![o] = @ \ {k}]
          /\ work' = Renewed(work, k, o)
          /\ doing' = [doing EXCEPT ![o] =
                         IF Ours(work, k, o) THEN {At(k, "read", 0)} ELSE {}]
          /\ Sound
       \/ /\ claimed' = [claimed EXCEPT ![o] = {}]
          /\ work' \in {work, Renewed(work, k, o)}
          /\ UNCHANGED doing /\ Mishap
  /\ UNCHANGED <<late, standing, runs, reaping, posts, turns, history>>

\* Worth carrying out still: neither switched off nor deleted, nor too late.
Wanted(k) == standing = "on" /\ late[k] <= Grace

\* A call inside the try that throws has the firing released.
Read(o) ==
  /\ \E d \in doing[o] :
       /\ d.at = "read"
       /\ \/ Goto(o, d, IF Wanted(d.key) THEN "dispatch" ELSE "drop") /\ Sound
          \/ Goto(o, d, "release") /\ Mishap
  /\ UNCHANGED <<work, late, standing, runs, reaping, claimed, posts, turns, history>>

Opened(k) == Append(runs, RunRow(k, "open", 0, "nobody"))

(* insertRun, and the post it is for. A routine that is gone refuses the   *)
(* row; a call that throws may have inserted it.                           *)
Dispatch(o) ==
  /\ \E d \in doing[o] :
       /\ d.at = "dispatch"
       /\ \/ /\ standing # "gone" /\ Sound
             /\ runs' = Opened(d.key)
             /\ posts' = posts \union {Len(runs) + 1}
             /\ Hold(o, At(d.key, "posted", Len(runs) + 1))
          \/ /\ standing = "gone" /\ Sound
             /\ Goto(o, d, "release")
             /\ UNCHANGED <<runs, posts>>
          \/ /\ standing # "gone" /\ Mishap
             /\ runs' \in {runs, Opened(d.key)}
             /\ Goto(o, d, "release")
             /\ UNCHANGED posts
  /\ UNCHANGED <<work, late, standing, reaping, claimed, turns, history>>

\* The 202.
Answered(o) ==
  /\ \E d \in doing[o] : d.at = "posted" /\ runs[d.run].reached # "nobody" /\ Goto(o, d, "finish")
  /\ UNCHANGED <<work, late, standing, runs, reaping, claimed, posts, turns, history>> /\ Sound

(* dispatch throws: refused, timed out, or cut off before or after the     *)
(* server took the run on. The post may still be on its way.               *)
DispatchFails(o) ==
  /\ "dispatch" \in Failing
  /\ \E d \in doing[o] :
       /\ d.at = "posted"
       /\ Goto(o, d, "release")
       /\ posts' \in {posts, posts \ {d.run}}
       /\ slipped' = slipped \union {d.key}
  /\ UNCHANGED <<work, late, standing, runs, reaping, claimed, turns, forgiven, untold>> /\ Sound

(* finish, after a dispatch or for a firing nobody wants. One that throws  *)
(* has the firing released, which changes nothing if it was committed.     *)
Finish(o) ==
  /\ \E d \in doing[o] :
       /\ d.at \in {"finish", "drop"}
       /\ \/ work' = Finished(work, d.key, o) /\ Clear(o) /\ UNCHANGED slipped /\ Sound
          \/ /\ work' \in {work, Finished(work, d.key, o)} /\ Mishap
             /\ Goto(o, d, "release")
             /\ slipped' = slipped \union {d.key}
  /\ UNCHANGED <<late, standing, runs, reaping, claimed, posts, turns, forgiven, untold>>

\* A release that throws is got over.
Release(o) ==
  /\ \E d \in doing[o] :
       /\ d.at = "release"
       /\ \/ work' = Released(work, d.key, o) /\ Sound
          \/ UNCHANGED work /\ Mishap
  /\ Clear(o)
  /\ UNCHANGED <<late, standing, runs, reaping, claimed, posts, turns, history>>

Crash(o) ==
  /\ ~Idle(o) /\ Mishap
  /\ reaping' = [reaping EXCEPT ![o] = FALSE]
  /\ claimed' = [claimed EXCEPT ![o] = {}]
  /\ Clear(o)
  /\ slipped' = slipped \union { d.key : d \in doing[o] }
  /\ UNCHANGED <<work, late, standing, runs, posts, turns, forgiven, untold>>

-----------------------------------------------------------------------------
(* The server takes a run on, or the post is lost on the way.              *)
Accept(r) ==
  /\ r \in posts
  /\ posts' = posts \ {r}
  /\ runs' = [runs EXCEPT ![r].reached = "server"]
  /\ turns' = turns \union {[run |-> r, at |-> "start", age |-> 0]}
  /\ UNCHANGED <<work, late, standing, sweeps, history>> /\ Sound

Lose(r) ==
  /\ "dispatch" \in Failing
  /\ r \in posts
  /\ posts' = posts \ {r}
  /\ UNCHANGED <<work, late, standing, runs, sweeps, turns, history>> /\ Sound

Becomes(t, stage) == turns' = (turns \ {t}) \union {[t EXCEPT !.at = stage]}
Ends(t) == turns' = turns \ {t}

\* The conversation's lock, which a turn holds while its Bot runs.
Locked == \E t \in turns : t.at = "running"

(* runContext and the channel. A run that is gone is dropped; one whose    *)
(* channel is gone is skipped; one refused the lock, or that the Bot, the  *)
(* thread or its history cannot be had for, has failed.                    *)
Start(t) ==
  /\ t.at = "start"
  /\ \/ runs[t.run].st = "gone" /\ Ends(t) /\ UNCHANGED runs
     \/ /\ runs[t.run].st # "gone" /\ "channel" \in Failing
        /\ runs' = Closed(runs, t.run, "skipped") /\ Ends(t)
     \/ /\ runs[t.run].st # "gone" /\ ~Locked
        /\ runs' = [runs EXCEPT ![t.run].reached = "bot"] /\ Becomes(t, "running")
     \/ /\ runs[t.run].st # "gone" /\ (Locked \/ "turn" \in Failing)
        /\ Becomes(t, "failed") /\ UNCHANGED runs
  /\ UNCHANGED <<work, late, standing, sweeps, posts, history>> /\ Sound

\* The turn, and the reply in the channel, which is never a failure.
Run(t) ==
  /\ t.at = "running"
  /\ Becomes(t, "replied") \/ ("turn" \in Failing /\ Becomes(t, "failed"))
  /\ UNCHANGED <<work, late, standing, runs, sweeps, posts, history>> /\ Sound

Succeed(t) ==
  /\ t.at = "replied"
  /\ runs' = Closed(runs, t.run, "succeeded")
  /\ Ends(t)
  /\ UNCHANGED <<work, late, standing, sweeps, posts, history>> /\ Sound

RecordFailure(t) ==
  /\ t.at = "failed"
  /\ runs' = Closed(runs, t.run, "failed")
  /\ Becomes(t, "counting")
  /\ IF runs' # runs THEN forgiven' = FALSE /\ untold' = FALSE ELSE UNCHANGED <<forgiven, untold>>
  /\ UNCHANGED <<work, late, standing, sweeps, posts, slipped>> /\ Sound

(* consecutiveFailures: of the runs with an outcome, neither in flight nor *)
(* skipped, the last ScanLimit, as many as failed since one did not.       *)
Decided(rs) == { r \in DOMAIN rs : rs[r].st \in {"succeeded", "failed"} }

Streak(rs) ==
  LET since == { r \in Decided(rs) :
                   \A q \in Decided(rs) : q >= r => rs[q].st = "failed" }
  IN IF Cardinality(since) < ScanLimit THEN Cardinality(since) ELSE ScanLimit

\* Mutant: only the failure that reaches the limit switches the routine off.
TiredAtLast(rs) == Streak(rs) = FatigueLimit

Tired(rs) == Streak(rs) >= FatigueLimit

\* The fatigue rule: the count, and what it decides. (The wording is left out.)
Count(t) ==
  /\ t.at = "counting"
  /\ IF Tired(runs) THEN Becomes(t, "tired") ELSE Ends(t)
  /\ UNCHANGED <<work, late, standing, runs, sweeps, posts, history>> /\ Sound

SwitchOff(t) ==
  /\ t.at = "tired"
  /\ standing' = IF standing = "gone" THEN "gone" ELSE "off"
  /\ Ends(t)
  /\ UNCHANGED <<work, late, runs, sweeps, posts, history>> /\ Sound

(* Its server dies, or the store throws: nothing is left to end the turn.  *)
TurnDies(t) ==
  /\ Ends(t) /\ Mishap
  /\ untold' = (untold \/ t.at \in {"counting", "tired"})
  /\ UNCHANGED <<work, late, standing, runs, sweeps, posts, forgiven, slipped>>

-----------------------------------------------------------------------------
\* Still to close its run.
Live(t) == t.at \in {"start", "running", "replied", "failed"}

(* The clock. Purge is left out: it takes only rows finished or given up a *)
(* day ago, of occurrences that are never offered again, so nobody can     *)
(* tell; rows need no age then, and runs none past what the reaper asks.   *)
Tick ==
  /\ \A r \in posts : runs[r].age < MaxDispatch
  /\ \A t \in turns : Live(t) => t.age < MaxTurn
  /\ LET later == Elapsed(work) IN
       /\ work' = [k \in Keys |-> [later[k] EXCEPT !.age = 0]]
       /\ slipped' = slipped \union { k \in Keys : \E o \in Owners : \E d \in doing[o] :
                                         d.key = k /\ later[k].lease = 0 }
  /\ late' = [k \in Keys |-> IF work[k].st # "absent" /\ late[k] < Interval
                             THEN late[k] + 1 ELSE late[k]]
  /\ runs' = [r \in DOMAIN runs |->
                IF runs[r].st = "open" /\ runs[r].age < Abandoned
                THEN RunRow(runs[r].key, "open", runs[r].age + 1, runs[r].reached) ELSE runs[r]]
  /\ turns' = { IF Live(t) THEN [t EXCEPT !.age = @ + 1] ELSE t : t \in turns }
  /\ UNCHANGED <<standing, sweeps, posts, forgiven, untold>> /\ Sound

Step(o) == Reap(o) \/ Begin(o) \/ Read(o) \/ Dispatch(o) \/ Answered(o)
             \/ DispatchFails(o) \/ Finish(o) \/ Release(o)

Serve(t) == Start(t) \/ Run(t) \/ Succeed(t) \/ RecordFailure(t) \/ Count(t) \/ SwitchOff(t)

Next ==
  \/ \E k \in Keys : Offer(k)
  \/ \E st \in {"on", "off"} : Switch(st)
  \/ Remove
  \/ \E o \in Owners : Sweep(o) \/ Step(o) \/ Crash(o)
  \/ \E r \in posts : Accept(r) \/ Lose(r)
  \/ \E t \in turns : Serve(t) \/ TurnDies(t)
  \/ Tick

Spec == Init /\ [][Next]_vars

(* Sweeps are repeated, a post arrives or does not, a turn has a deadline  *)
(* and the clock moves. Nobody has to offer, switch, die or throw.         *)
Fairness ==
  /\ WF_vars(Tick)
  /\ \A o \in Owners : WF_vars(Sweep(o)) /\ WF_vars(Step(o))
  /\ WF_vars(\E r \in posts : Accept(r) \/ Lose(r))
  /\ WF_vars(\E t \in turns : Serve(t))

FairSpec == Spec /\ Fairness

-----------------------------------------------------------------------------
RunType == [key : Keys, st : {"open", "succeeded", "failed", "skipped", "gone"},
            age : 0..Abandoned, reached : {"nobody", "server", "bot"}]

Doing == [key : Keys, at : {"read", "drop", "dispatch", "posted", "finish", "release"}, run : Nat]

Turn == [run : Nat, at : {"start", "running", "replied", "failed", "counting", "tired"},
         age : 0..MaxTurn]

TypeOK ==
  /\ work \in Table
  /\ late \in [Keys -> 0..Interval]
  /\ standing \in {"on", "off", "gone"}
  /\ runs \in Seq(RunType)
  /\ reaping \in [Owners -> BOOLEAN]
  /\ claimed \in [Owners -> SUBSET Keys]
  /\ doing \in [Owners -> SUBSET Doing]
  /\ posts \subseteq DOMAIN runs
  /\ turns \subseteq Turn /\ \A t \in turns : t.run \in DOMAIN runs
  /\ \A o \in Owners : \A d \in doing[o] :
       d.at \in {"posted", "finish"} => d.run \in DOMAIN runs
  /\ forgiven \in BOOLEAN /\ untold \in BOOLEAN /\ slipped \subseteq Keys
  /\ mishaps \in 0..MaxMishaps

(* A turn that is still going finds its run open when it comes to close it:*)
(* the reaper's window is longer than the dispatch and the turn together,  *)
(* so it closes only what nobody will come back for.                       *)
LiveRunIsOpen ==
  \A t \in turns : Live(t) => runs[t.run].st \in {"open", "gone"}

(* What that rests on: a post and a turn are as young as their run is old, *)
(* a run is taken on once, and a live turn's has not been closed.          *)
YoungEnough ==
  /\ \A r \in posts : runs[r].age <= MaxDispatch /\ runs[r].reached = "nobody"
  /\ \A t \in turns : /\ runs[t.run].reached # "nobody"
                      /\ Live(t) => runs[t.run].age <= MaxDispatch + t.age
  /\ \A s, t \in turns : s.run = t.run => s = t
  /\ \A r \in posts : runs[r].st \in {"open", "gone"}

IInv == TypeOK /\ YoungEnough /\ LiveRunIsOpen

(* Exactly one firing, unless something slipped: a second turn runs for an *)
(* occurrence only when a lease lapsed under a sweep, a sweep died or a    *)
(* call of its own failed.                                                 *)
Ran(k) == Cardinality({ r \in DOMAIN runs : runs[r].key = k /\ runs[r].reached = "bot" })

DuplicateHasACause == \A k \in Keys : Ran(k) > 1 => k \in slipped

(* A routine that has failed FatigueLimit times in a row is off, unless a  *)
(* person has switched it on since or the rule is still to be applied; a   *)
(* server that died before applying it puts that off by one failure only.  *)
TiredIsSwitchedOff ==
  Streak(runs) >= FatigueLimit =>
    \/ standing # "on" \/ forgiven \/ untold
    \/ \E t \in turns : t.at \in {"counting", "tired"}

(* No run reads as running for ever: its turn closes it, or the reaper.    *)
EveryRunCloses ==
  \A r \in 1..(MaxAttempts * Cardinality(Keys)) :
    LET running == r \in DOMAIN runs /\ runs[r].st = "open" IN running ~> ~running
=============================================================================
